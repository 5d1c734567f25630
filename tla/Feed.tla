--------------------------------- MODULE Feed ---------------------------------
(****************************************************************************)
(* One request through Service.Execute: from the text that was searched for   *)
(* and the bodies the upstream answers with to the pages of the feed.         *)
(* NormalizeQuery, the decoding of the answers, ParseTitle, process,          *)
(* FilterValidItems and pageItems run here one after the other; how the       *)
(* answers are fetched, shared and cached is the matter of SearchRequest.     *)
(* The loop over the torrents is one step per torrent, because the request's  *)
(* context may end between any two.                                           *)
(****************************************************************************)
EXTENDS QueryNormalization, TitleParsing, TorrentDecoding

CONSTANTS
    Scenarios,     \* records [requests, answers] of two sets: any with any
    MaxCount,      \* math.MaxInt64
    processedTorrentLogSampleLimit

ASSUME FeedAssumption ==
    MaxCount \in Nat /\ processedTorrentLogSampleLimit \in Nat

\* ReleaseType.known, which the decoder's ReleaseType.valid agrees with.
Known(type) == type \in {"TV", "ONA", "WEB", "OVA", "OAD", "MOVIE", "DORAMA", "SPECIAL"}

\* What may be asked and answered.  A torrent without a flaw is of a known type.
Filters  == [given : BOOLEAN, text : Texts]
Requests == [q : Texts, season : Filters, ep : Filters, tv : BOOLEAN,
             categories : [all : BOOLEAN, tv : BOOLEAN, anime : BOOLEAN]]
Torrents ==
    {t \in [flaws : SUBSET ToSet(Fields), mistyped : BOOLEAN, hash : Nat \X BOOLEAN,
            release : Int, type : STRING, label : Texts, main : Texts, alias : STRING,
            updated : Nat, seeders : 0..MaxCount, leechers : 0..MaxCount] :
        t.flaws = {} => Known(t.type)}
Answers  == [release : Nat \ {0},
             body : [shape : {"array", "object", "other"}, items : Seq(Torrents)]]

ASSUME ScenarioAssumption ==
    \A s \in Scenarios : s.requests \subseteq Requests /\ s.answers \subseteq Seq(Answers)

VARIABLES
    request,       \* [q, season, ep, tv, categories], service.Request
    answers,       \* what the upstream says: a sequence of [release, body]
    query,         \* the result of NormalizeQuery
    source,        \* "latest" or "search"
    input,         \* the torrents decoded, in the order of the answers
    next,          \* the position of process in input
    seen,          \* the hashes met
    items,         \* the items so far; in the end the sorted, valid ones
    rejections,    \* processRejections
    phase,         \* "received", "loading", "scanning", and how it ended:
                   \* "done", "refused", "failed" or "aborted"
    ctxDone        \* the request's context has ended

scenario == <<request, answers>>
asked    == <<scenario, query, source>>
vars     == <<asked, input, next, seen, items, rejections, phase, ctxDone>>

Reasons == {"unsupported_release_type", "invalid_title", "peer_count_overflow"}

Init ==
    /\ \E s \in Scenarios : request \in s.requests /\ answers \in s.answers
    /\ query = [error |-> "", season |-> 0, episode |-> 0, clean |-> << >>]
    /\ source = "search"
    /\ input = << >> /\ next = 1 /\ seen = {} /\ items = << >>
    /\ rejections = [total |-> 0, sampled |-> 0, by |-> [why \in Reasons |-> 0]]
    /\ phase = "received"
    /\ ctxDone = FALSE

------------------------------------------------------------------------------
(* Before the upstream is asked, and what it answers                         *)

Blank(text) == CollapseSpace(text) = << >>

\* Execute up to the choice of what to load.
Normalize ==
    /\ phase = "received" /\ ~ctxDone
    /\ query' = NormalizeQuery(request.q, request.season, request.ep)
    /\ phase' = IF \/ query'.error # ""
                   \/ query'.clean = << >> /\ (request.tv \/ ~Blank(request.q))
                THEN "refused" ELSE "loading"
    /\ source' = IF ~request.tv /\ Blank(request.q) THEN "latest" ELSE "search"
    /\ UNCHANGED <<scenario, input, next, seen, items, rejections, ctxDone>>

\* One answer, decoded and validated.
Decoded(answer) ==
    IF source = "latest" THEN DecodeLatest(answer.body) ELSE DecodeCollection(answer.body)

Expected(answer) == IF source = "latest" THEN 0 ELSE answer.release

\* loadSearch and loadLatest, of which the answers that could be decoded
\* matter: the request fails if there are answers and none of them could.
Load ==
    /\ phase = "loading" /\ ~ctxDone
    /\ LET read == Pick(answers, {i \in DOMAIN answers : Decoded(answers[i]).ok}) IN
       /\ phase' = IF read = << >> /\ answers # << >> THEN "failed" ELSE "scanning"
       /\ input' = FlattenSeq([i \in DOMAIN read |->
                       ValidTorrents(Decoded(read[i]).raw, Expected(read[i])).torrents])
    /\ UNCHANGED <<asked, next, seen, items, rejections, ctxDone>>

------------------------------------------------------------------------------
(* The loop of process                                                       *)

\* CategoryFor: DORAMA is plain TV, every other known type is anime.
CategoryFor(type) == IF type = "DORAMA" THEN "tv" ELSE "anime"

\* CategoryFilter.Matches: the parent category includes the child.
CategoryMatches(category) ==
    \/ request.categories.all
    \/ request.categories.tv
    \/ category = "anime" /\ request.categories.anime

\* The overflow check before seeders and leechers are added up.
PeersOverflow(t) == t.seeders > MaxCount - t.leechers

\* What becomes of a torrent whose hash is new: an item, a rejection to be
\* accounted for, or nothing because it was not asked for.
Verdict(t) ==
    LET title == ParseTitle(t.type, t.main, t.label) IN
    IF ~Known(t.type) THEN "unsupported_release_type"
    ELSE IF ~CategoryMatches(CategoryFor(t.type)) THEN "unwanted"
    ELSE IF ~title.ok THEN "invalid_title"
    ELSE IF ~TitleMatches(title, query.season, query.episode) THEN "unwanted"
    ELSE IF PeersOverflow(t) THEN "peer_count_overflow" ELSE "item"

\* The item made of a torrent, whose hash the decoder has put in lower case.
Item(t) ==
    [hash |-> t.hash, updated |-> t.updated,
     category |-> CategoryFor(t.type), alias |-> t.alias]

\* Mutant of Rejected: past the sample limit nothing is counted any more.
RejectedWhileSampling(why) ==
    IF rejections.sampled >= processedTorrentLogSampleLimit THEN rejections
    ELSE [total   |-> rejections.total + 1,
          sampled |-> rejections.sampled + 1,
          by      |-> [rejections.by EXCEPT ![why] = @ + 1]]

\* drop: every rejection is counted, the first few are also logged.
Rejected(why) ==
    [total   |-> rejections.total + 1,
     sampled |-> Min({rejections.sampled + 1, processedTorrentLogSampleLimit}),
     by      |-> [rejections.by EXCEPT ![why] = @ + 1]]

\* Mutant of Scan: a hash counts as met only once an item was made of it.
ScanRememberingItems ==
    /\ phase = "scanning" /\ ~ctxDone
    /\ next <= Len(input)
    /\ LET t       == input[next]
           verdict == IF t.hash \in seen THEN "unwanted" ELSE Verdict(t)
       IN  /\ seen' = IF verdict = "item" THEN seen \cup {t.hash} ELSE seen
           /\ items' = IF verdict = "item" THEN Append(items, Item(t)) ELSE items
           /\ rejections' = IF verdict \in Reasons THEN Rejected(verdict) ELSE rejections
    /\ next' = next + 1
    /\ UNCHANGED <<asked, input, phase, ctxDone>>

\* One iteration: duplicates are skipped before anything else is looked at.
Scan ==
    /\ phase = "scanning" /\ ~ctxDone
    /\ next <= Len(input)
    /\ LET t       == input[next]
           verdict == IF t.hash \in seen THEN "unwanted" ELSE Verdict(t)
       IN  /\ seen' = seen \cup {t.hash}
           /\ items' = IF verdict = "item" THEN Append(items, Item(t)) ELSE items
           /\ rejections' = IF verdict \in Reasons THEN Rejected(verdict) ELSE rejections
    /\ next' = next + 1
    /\ UNCHANGED <<asked, input, phase, ctxDone>>

------------------------------------------------------------------------------
(* The feed and its pages                                                    *)

\* The order of the feed: latest update first, then by hash.
Before(x, y) == x.updated > y.updated \/ (x.updated = y.updated /\ x.hash < y.hash)

\* sort.SliceStable: an item stands behind those that go before it.
Ahead(list, i) ==
    {j \in DOMAIN list : \/ Before(list[j], list[i])
                         \/ ~Before(list[i], list[j]) /\ j < i}

Sorted(list) ==
    [n \in DOMAIN list |->
        list[CHOOSE i \in DOMAIN list : Cardinality(Ahead(list, i)) = n - 1]]

\* What of prepareItem can still fail here: a blank alias, the zero time.
Printable(x) == x.alias # "blank" /\ x.updated # 0

\* Mutant of FilterValidItems: left to the renderer.
AllItems(list) == list

FilterValidItems(list) == Pick(list, {i \in DOMAIN list : Printable(list[i])})

\* The loop is over: sort, then FilterValidItems.
Finish ==
    /\ phase = "scanning" /\ ~ctxDone
    /\ next > Len(input)
    /\ items' = FilterValidItems(Sorted(items))
    /\ phase' = "done"
    /\ UNCHANGED <<asked, input, next, seen, rejections, ctxDone>>

\* The context is looked at on entry, after the load, before every torrent and
\* around the sort.
Abort ==
    /\ phase \in {"received", "loading", "scanning"} /\ ctxDone
    /\ phase' = "aborted"
    /\ items' = << >>
    /\ UNCHANGED <<asked, input, next, seen, rejections, ctxDone>>

ContextEnds ==
    /\ phase \in {"received", "loading", "scanning"} /\ ~ctxDone
    /\ ctxDone' = TRUE
    /\ UNCHANGED <<asked, input, next, seen, items, rejections, phase>>

Next == Normalize \/ Load \/ Scan \/ Finish \/ Abort \/ ContextEnds

Spec == Init /\ [][Next]_vars

\* pageItems: the page at an offset, which may lie past the end.
Page(list, offset, limit) ==
    IF offset >= Len(list) \/ limit = 0 THEN << >>
    ELSE SubSeq(list, offset + 1, offset + Min({limit, Len(list) - offset}))

\* RenderRSSContext prepares the items of a page once more.
Rendered(page) == Pick(page, {i \in DOMAIN page : Printable(page[i])})

------------------------------------------------------------------------------
(* Properties                                                                *)

\* What a normative reading of the docs takes from the answers: an answer in
\* another form than a list is lost, a torrent with a flaw is left out, and so
\* is one of another release than the one that was asked for.
Readable(a) ==
    /\ a.body.shape = "array" \/ (a.body.shape = "object" /\ source = "search")
    /\ \A i \in DOMAIN a.body.items : ~a.body.items[i].mistyped

Window(a) ==
    IF source = "latest" /\ Len(a.body.items) > latestLimit
    THEN SubSeq(a.body.items, 1, latestLimit) ELSE a.body.items

SoundOf(a) ==
    Pick(Window(a), {i \in DOMAIN Window(a) :
        /\ Window(a)[i].flaws = {}
        /\ source = "latest" \/ Window(a)[i].release = a.release})

Sound ==
    LET readable == Pick(answers, {i \in DOMAIN answers : Readable(answers[i])})
    IN  FlattenSeq([i \in DOMAIN readable |-> SoundOf(readable[i])])

\* Of each hash the first torrent counts, whatever later ones look like.
Firsts(n) ==
    {i \in 1..n : \A j \in 1..(i - 1) : Sound[j].hash[1] # Sound[i].hash[1]}

Wanted(t) ==
    /\ \/ request.categories.all \/ request.categories.tv
       \/ t.type # "DORAMA" /\ request.categories.anime
    /\ TitleMatches(ParseTitle(t.type, t.main, t.label), query.season, query.episode)

Titled(t) == ParseTitle(t.type, t.main, t.label).ok

\* "Retain the first occurrence": a hash is in the feed, and is there once, if
\* and only if the first sound torrent with it matches the request and can be
\* printed.  This is about the decoder, process and FilterValidItems together.
FirstOccurrenceDecides ==
    phase = "done" =>
        /\ Len(items) = Cardinality({items[i].hash : i \in DOMAIN items})
        /\ {items[i].hash : i \in DOMAIN items} =
           {Sound[i].hash[1] : i \in {j \in Firsts(Len(Sound)) :
                /\ Titled(Sound[j]) /\ Wanted(Sound[j])
                /\ Sound[j].seeders + Sound[j].leechers <= MaxCount
                /\ Sound[j].alias # "blank" /\ Sound[j].updated # 0}}

\* A client that pages through the feed with any limit is shown every item
\* once, in an order that leaves nothing to chance, and no page before the
\* last is shorter than the limit: what the renderer would drop is gone before
\* the pages are cut.
PagesPartitionFeed ==
    phase = "done" =>
        /\ \A i, j \in DOMAIN items : i < j =>
              \/ items[i].updated > items[j].updated
              \/ items[i].updated = items[j].updated /\ items[i].hash < items[j].hash
        /\ \A limit \in 1..(Len(items) + 1) :
              LET pages == [p \in 1..(Len(items) + 1) |->
                                Rendered(Page(items, (p - 1) * limit, limit))]
              IN  /\ FlattenSeq(pages) = items
                  /\ \A p \in DOMAIN pages :
                        Len(pages[p]) = Max({0, Min({limit, Len(items) - (p - 1) * limit})})

\* The log accounts for every rejected torrent once, under one reason, and
\* names at most the first few of them.
RejectionsAccounted ==
    LET rejected == {i \in Firsts(next - 1) :
            LET t == Sound[i] IN
            /\ CategoryMatches(CategoryFor(t.type))
            /\ ~Titled(t) \/ (Wanted(t) /\ t.seeders + t.leechers > MaxCount)}
    IN  /\ rejections.total = Cardinality(rejected)
        /\ rejections.total = rejections.by["unsupported_release_type"]
                              + rejections.by["invalid_title"]
                              + rejections.by["peer_count_overflow"]
        /\ rejections.sampled = Min({rejections.total, processedTorrentLogSampleLimit})

\* "Cleanup MUST NOT remove" anything of the title: every word, number and
\* token that is part of a longer word goes upstream, in the order given,
\* whatever brackets and separators stand around it.
TitleTextKept ==
    phase \in {"loading", "scanning", "done"} =>
        Pick(query.clean, {i \in DOMAIN query.clean : Alphanumeric(query.clean[i])}) =
        Pick(request.q, {i \in DOMAIN request.q :
                            Alphanumeric(request.q[i]) /\ i \notin TokenPositions(request.q)})

\* The two ways to ask for an episode of an item under its own name: with the
\* parameters season and ep, and with a token after the name.
NoFilter  == [given |-> FALSE, text |-> << >>]
Filter(n) == [given |-> TRUE, text |-> <<Digits(n)>>]

SearchesFor(name, season, episode) ==
    {NormalizeQuery(name, Filter(season), Filter(episode)),
     NormalizeQuery(Append(name, Space) \o <<Lexeme("SE", season, episode)>>,
                    NoFilter, NoFilter)}

\* The two parsers, of labels and of queries, read titles by different rules.
\* All the same an item with episodes that is searched for by its own name,
\* season and episode is found, or the search is refused for a token in the
\* name; it never runs with filters that silently leave the item out.
FoundByItsTitle ==
    \A i \in DOMAIN input :
        LET t     == input[i]
            title == ParseTitle(t.type, t.main, t.label)
        IN  title.ok /\ title.first # 0 =>
                \A episode \in {title.first, title.last} :
                    \A found \in SearchesFor(Semantic(t.label), title.season, episode) :
                        found.error # "" \/ TitleMatches(title, found.season, found.episode)

\* "A recognized but unsafe explicit season must not be replaced with a
\* lower-precedence guess": a label whose first explicit season is out of
\* bounds is an item of season 1, and is not offered for another season that
\* its ordinal, its Roman numeral or a later token may suggest.
UnsafeSeasonNotReplaced ==
    \A i \in DOMAIN input :
        LET name  == Semantic(CollapseSpace(input[i].label))
            title == ParseTitle(input[i].type, input[i].main, input[i].label)
            Explicit(j) == /\ name[j].kind \in {"S", "Sspaced", "Season", "Series"}
                           /\ CompleteToken(name, j, j)
        IN  (\E j \in DOMAIN name :
                /\ Explicit(j) /\ name[j].season \notin 1..999
                /\ \A k \in 1..(j - 1) : ~Explicit(k))
            => title.season \in {0, 1}

\* docs/title-normalization.md: "Every listed complete token is removed and
\* supplies its season and/or episode".  The code joins "S02 E03" to one match
\* even where S02 is the end of a word, and then leaves E03 in the text.
EveryTokenTakenOut ==
    phase = "loading" =>
        \A i \in DOMAIN request.q :
            request.q[i].kind = "E" /\ CompleteToken(request.q, i, i) =>
                query.episode = request.q[i].episode

\* docs/integrations/aniliberty.md: "Invalid required data causes that torrent
\* to be omitted", that torrent and not a sound one beside it.  A field of
\* another JSON type fails the collection instead.
SiblingsSurvive ==
    phase \in {"scanning", "failed"} =>
        \A i \in DOMAIN answers : \A j \in DOMAIN answers[i].body.items :
            LET t == answers[i].body.items[j] IN
            /\ answers[i].body.shape = "array"
            /\ t.flaws = {} /\ ~t.mistyped /\ t.release = answers[i].release
            => \E k \in DOMAIN input : input[k].hash = Lower(t.hash)
==============================================================================
