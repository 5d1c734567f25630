-------------------------- MODULE QueryNormalization --------------------------
(****************************************************************************)
(* NormalizeQuery: takes the season and episode tokens out of a search query  *)
(* and turns them into filters, or refuses the query.                         *)
(*                                                                          *)
(* A filter is 0 where there is none.  An explicit season or ep parameter is  *)
(* a record [given, text].                                                    *)
(****************************************************************************)
EXTENDS TitleText

CONSTANT maxQueryLength     \* maxQueryBytes, counted in lexemes

ASSUME QueryAssumption == maxQueryLength \in Nat

\* parseExplicitFilter: None if the parameter is at fault.
ParseExplicitFilter(raw, prefix, maximum) ==
    LET value == CollapseSpace(raw.text)
        number == IF Len(value) = 1 /\ value[1].kind \in {"num", prefix}
                  THEN Max({value[1].season, value[1].episode}) ELSE 0
    IN  IF ~raw.given THEN 0
        ELSE IF Bounded(number, maximum) THEN number ELSE None

------------------------------------------------------------------------------
(* Tokens                                                                    *)

TokenKinds == {"S", "E", "SE", "X", "Season", "Ep", "Episode"}

\* Where queryToken takes "S02 E03" as one match, whatever stands before it.
Joined(q) ==
    {i \in 1..(Len(q) - 2) : q[i].kind = "S" /\ q[i + 1] = Space /\ q[i + 2].kind = "E"}

TokenEnd(q, i) == IF i \in Joined(q) THEN i + 2 ELSE i

\* The positions at which the complete tokens begin.
TokenStarts(q) ==
    {i \in DOMAIN q : /\ q[i].kind \in TokenKinds
                      /\ (i - 2) \notin Joined(q)
                      /\ CompleteToken(q, i, TokenEnd(q, i))}

TokenPositions(q) == UNION {i..TokenEnd(q, i) : i \in TokenStarts(q)}

\* Mutant of Agrees: a later token replaces what is known.
AgreesAlways(known, value) == value \in Int

\* Nothing is known yet, or the same.
Agrees(known, value) == value = None \/ known \in {0, value}

\* The body of the loop: the token at i against the filters known so far.
ReadToken(q, known, i) ==
    LET season  == q[i].season
        episode == q[TokenEnd(q, i)].episode
    IN  IF known.error # "" THEN known
        ELSE IF \/ ContinuesAfter(q, TokenEnd(q, i), TRUE) \/ ContinuesBefore(q, i)
                \/ season # None /\ ~Bounded(season, maxSeason)
                \/ episode # None /\ ~Bounded(episode, maxEpisode)
        THEN [known EXCEPT !.error = "q"]
        ELSE IF ~Agrees(known.season, season)
        THEN [known EXCEPT !.error = "season"]
        ELSE IF ~Agrees(known.episode, episode)
        THEN [known EXCEPT !.error = "ep"]
        ELSE [known EXCEPT !.season  = IF season = None THEN @ ELSE season,
                           !.episode = IF episode = None THEN @ ELSE episode]

\* The loop over the tokens, from left to right.
ReadTokens(q, before) ==
    LET starts == TokenStarts(q)
        known[i \in 0..Len(q)] ==
            IF i = 0 THEN before
            ELSE IF i \in starts THEN ReadToken(q, known[i - 1], i) ELSE known[i - 1]
    IN  known[Len(q)]

------------------------------------------------------------------------------
(* What is left behind by the tokens                                         *)

\* Mutant of Note: what a pair holds besides its tokens is not noted.
NoteTokens(stack, technical, visible) ==
    IF stack = << >> THEN stack
    ELSE [stack EXCEPT ![Len(stack)].technical = @ \/ technical]

\* The innermost open pair has met a token, or something that stays.
Note(stack, technical, visible) ==
    IF stack = << >> THEN stack
    ELSE [stack EXCEPT ![Len(stack)].technical = @ \/ technical,
                       ![Len(stack)].visible   = @ \/ visible]

Closes(x, open) == <<open.kind, x.kind>> \in {<<"(", ")">>, <<"[", "]">>}

\* One turn of markEmptyTechnicalPairs.
PairStep(q, tokens, st, i) ==
    IF i \in tokens THEN [st EXCEPT !.stack = Note(@, TRUE, FALSE)]
    ELSE IF q[i] = Space THEN st
    ELSE IF q[i].kind \in {"(", "["}
    THEN [st EXCEPT !.stack =
              Append(@, [open |-> i, technical |-> FALSE, visible |-> FALSE])]
    ELSE IF st.stack # << >> /\ Closes(q[i], q[Last(st.stack).open])
    THEN LET pair == Last(st.stack) IN
         IF pair.technical /\ ~pair.visible
         THEN [stack   |-> Note(Front(st.stack), TRUE, FALSE),
               removed |-> st.removed \cup pair.open..i]
         ELSE [st EXCEPT !.stack = Note(Front(@), pair.technical, TRUE)]
    ELSE [st EXCEPT !.stack = Note(@, FALSE, TRUE)]

\* markEmptyTechnicalPairs: the tokens and the pairs that held nothing else.
Technical(q) ==
    LET tokens == TokenPositions(q)
        marks[i \in 0..Len(q)] ==
            IF i = 0 THEN [stack |-> << >>, removed |-> tokens]
            ELSE PairStep(q, tokens, marks[i - 1], i)
    IN  marks[Len(q)].removed

\* leadingSeparatorBelongsToTitle and its counterpart, by the original text.
OpensTitle(q, i)  == i > 1 /\ i < Len(q) /\ q[i - 1] = Space /\ q[i + 1] # Space
ClosesTitle(q, i) == i > 1 /\ i < Len(q) /\ q[i - 1] # Space /\ q[i + 1] = Space

\* markTechnicalEdgeSeparators: separators between an edge and the title go if
\* a token stood there too, save one that leans on the title.
Removed(q) ==
    LET technical == Technical(q)
        Passed(i, removed) == i \in removed \/ q[i] = Space \/ Separates(q[i])
        head  == {i \in DOMAIN q : \A j \in 1..i : Passed(j, technical)}
        left  == {i \in head \ technical : Separates(q[i])}
        first == IF head \cap technical = {} THEN {}
                 ELSE left \ {i \in left : i = Max(left) /\ OpensTitle(q, i)}
        tail  == {i \in DOMAIN q : \A j \in i..Len(q) : Passed(j, technical \cup first)}
        right == {i \in tail \ (technical \cup first) : Separates(q[i])}
        last  == IF tail \cap technical = {} THEN {}
                 ELSE right \ {i \in right : i = Min(right) /\ ClosesTitle(q, i)}
    IN  technical \cup first \cup last

------------------------------------------------------------------------------

\* NormalizeQuery: error names the parameter at fault, or is "" and the rest
\* is the result.
NormalizeQuery(q, explicitSeason, explicitEpisode) ==
    LET season  == ParseExplicitFilter(explicitSeason, "S", maxSeason)
        episode == ParseExplicitFilter(explicitEpisode, "E", maxEpisode)
        Refuse(parameter) == [error |-> parameter, season |-> 0, episode |-> 0]
        filters ==
            IF Len(q) > maxQueryLength THEN Refuse("q")
            ELSE IF season = None THEN Refuse("season")
            ELSE IF episode = None THEN Refuse("ep")
            ELSE ReadTokens(q, [error |-> "", season |-> season, episode |-> episode])
    IN  [error   |-> filters.error,
         season  |-> filters.season,
         episode |-> filters.episode,
         clean   |-> CollapseSpace(Pick(q, DOMAIN q \ Removed(q)))]
==============================================================================
