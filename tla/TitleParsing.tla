----------------------------- MODULE TitleParsing -----------------------------
(****************************************************************************)
(* ParseTitle: the season and the episodes a torrent's label announces, and   *)
(* TitleMetadata.Matches, which holds them against the filters of a request.  *)
(* 0 stands for a season or an episode that is absent.                        *)
(****************************************************************************)
EXTENDS TitleText

\* The label before its first technical group, without the distributor.
Semantic(label) ==
    LET groups  == {i \in DOMAIN label : label[i].kind = "["}
        heading == CollapseSpace(
                       SubSeq(label, 1, IF groups = {} THEN Len(label) ELSE Min(groups) - 1))
    IN  IF heading # << >> /\ Last(heading).kind = "distributor"
        THEN CollapseSpace(Front(heading)) ELSE heading

\* The positions of complete tokens of some kinds.
CompleteAt(text, kinds) ==
    {i \in DOMAIN text : text[i].kind \in kinds /\ CompleteToken(text, i, i)}

\* Mutant of ExplicitSeason: a season out of bounds is passed over.
ExplicitSeasonTolerant(text) ==
    {i \in CompleteAt(text, {"S", "Sspaced", "Season", "Series"}) :
        Bounded(text[i].season, maxSeason)}

\* The explicit seasons; the first decides, be it usable or not.
ExplicitSeason(text) == CompleteAt(text, {"S", "Sspaced", "Season", "Series"})

\* "2nd Season": passed over if the suffix is wrong, decisive if it is not.
OrdinalSeason(text) ==
    {i \in CompleteAt(text, {"ordinal"}) :
        ~Bounded(text[i].season, maxSeason) \/ text[i].episode = 1}

\* trailingYear.
WithoutYear(text) ==
    LET n == Len(text) IN
    CollapseSpace(
        IF n > 0 /\ FourDigits(text[n]) THEN SubSeq(text, 1, n - 1)
        ELSE IF /\ n > 2 /\ text[n].kind = ")" /\ FourDigits(text[n - 1])
                /\ text[n - 2].kind = "("
        THEN SubSeq(text, 1, n - 3) ELSE text)

\* trailingRoman and romanSeason.
RomanSeason(text) ==
    LET n == Len(text) IN
    IF /\ n > 0 /\ text[n].kind = "roman" /\ Bounded(text[n].season, 20)
       /\ n > 1 => text[n - 1] = Space
    THEN text[n].season ELSE 0

\* parseSeason: what was recognised but is unsafe is not guessed at again.
ParseSeason(text) ==
    LET explicit == ExplicitSeason(text)
        ordinal  == OrdinalSeason(text)
        Usable(n) == IF Bounded(n, maxSeason) THEN n ELSE 0
    IN  IF explicit # {}
        THEN IF ContinuesAfter(text, Min(explicit), FALSE) THEN 0
             ELSE Usable(text[Min(explicit)].season)
        ELSE IF ordinal # {} THEN Usable(text[Min(ordinal)].season)
        ELSE RomanSeason(WithoutYear(text))

------------------------------------------------------------------------------

NoEpisodes == [first |-> 0, last |-> 0]

\* What a bracket group says, spaces apart: an episode, a range, or neither.
GroupNumbers(g) ==
    LET Number(x) == IF x.kind = "num" THEN x.season ELSE x.episode
        single == Len(g) = 1 /\ g[1].kind \in {"num", "E", "Ep", "Episode"}
        range  == /\ Len(g) = 3 /\ g[1].kind \in {"num", "E", "Ep", "Episodes"}
                  /\ g[2].kind = "dash" /\ g[3].kind = "num"
    IN  IF single THEN [first |-> Number(g[1]), last |-> Number(g[1])]
        ELSE IF range THEN [first |-> Number(g[1]), last |-> Number(g[3])]
        ELSE NoEpisodes

\* One bracket group as an episode or a range of them, in bounds and in order.
ParseGroup(content) ==
    LET parsed == GroupNumbers(Pick(content, {i \in DOMAIN content : content[i] # Space})) IN
    IF /\ Bounded(parsed.first, maxEpisode) /\ Bounded(parsed.last, maxEpisode)
       /\ parsed.first <= parsed.last
    THEN parsed ELSE NoEpisodes

\* parseEpisodes: the rightmost group of a label that makes sense.
ParseEpisodes(label) ==
    LET groups == {g \in (DOMAIN label) \X (DOMAIN label) :
                       /\ g[1] < g[2] /\ label[g[1]].kind = "[" /\ label[g[2]].kind = "]"
                       /\ \A k \in (g[1] + 1)..(g[2] - 1) : label[k].kind \notin {"[", "]"}}
        Parsed(g) == ParseGroup(SubSeq(label, g[1] + 1, g[2] - 1))
        sensible == {g \in groups : Parsed(g) # NoEpisodes}
    IN  IF sensible = {} THEN NoEpisodes
        ELSE Parsed(CHOOSE g \in sensible : \A h \in sensible : h[1] <= g[1])

\* ParseTitle; the type is known to be one of the supported ones.
ParseTitle(type, main, label) ==
    LET semantic == Semantic(CollapseSpace(label))
        found    == ParseSeason(semantic)
        episodes == ParseEpisodes(CollapseSpace(label))
    IN  [ok     |-> CollapseSpace(main) # << >> /\ semantic # << >>,
         season |-> IF type = "MOVIE" /\ episodes = NoEpisodes THEN 0
                    ELSE IF found = 0 THEN 1 ELSE found,
         first  |-> episodes.first,
         last   |-> episodes.last]

\* TitleMetadata.Matches.
TitleMatches(title, season, episode) ==
    /\ season # 0 => title.season = season
    /\ episode # 0 => title.first # 0 /\ episode \in title.first..title.last
==============================================================================
