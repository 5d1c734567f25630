# Verification of anilibria-torznab

anilibria-torznab is one Go process that answers Torznab searches from the AniLiberty API. A search
becomes one upstream search, one upstream request per release found, and a feed built from their torrents.
Caches, request coalescing, a process-wide concurrency gate and a process-wide rate limiter sit in between,
so most of what can go wrong is an interleaving of requests, loads, timers and cancellations.

This directory holds TLA+ modules translated from the Go code, the TLC configurations that check them on
small instances, and TLAPS proofs of the main results for every instance. `PROJECT.json` maps every
definition to the source lines it stands for.

    tlc -workers 2 -config MCSharedRetry.cfg MCSharedRetry.tla    # one run
    tlapm CoalescerProofs.tla                                    # one proof module

## Inventory

| Component | State | Operations | Hard behaviour | Modules |
| --- | --- | --- | --- | --- |
| Request coalescer, `internal/cache/coalescer.go` | map of running calls; per call waiters, budgets, done, result | DoShared, run, detach, EffectiveDeadline | join, last detach and completion race; abandoned loads overlap their successors | Coalescer, LoadSharing, CoalescerRefinement |
| Shared retry, `coalescer.go` with `internal/anilibria/client.go` | per call the attempts of its load | waitForRetry inside a coalesced call | the budget is read, requests leave and join, then the result is published | SharedRetry |
| TTL cache, `internal/cache/lru.go` | map, recency list, heap of expiry times | Get, Set, Delete, Len | three structures and an index in every entry have to agree | LRU, ExpiryHeap, LRUHeap |
| Upstream client, `internal/anilibria/client.go` | gate, limiter.next; per operation its place in getJSON | acquire, limiter.wait, attempt, parseRetryAfter, backoff and retry waits | slots on error paths, spacing under contention, timeouts against cancellation, widths | UpstreamClient |
| Decoding, `anilibria/models.go`, `client.go` | none | decodeTorrentCollection, Latest, UnmarshalJSON, validTorrents | one bad torrent among good ones | TorrentDecoding |
| Cached loads, `internal/service/service.go` | three caches with three coalescers | cachedSearch, cachedTorrents, loadLatest | a miss, a load and a fill race with other requests' | CachedLoad |
| Search request, `service.go` and `internal/httpapi/httpapi.go` | per request its context, branches and reply | Execute, loadSearch, serveSearch, stopForContext | partial failure, end of the context at any point | SearchRequest |
| Query normalization, `torznab/query.go` | none | NormalizeQuery | several tokens, explicit filters, what removal leaves behind | TitleText, QueryNormalization |
| Title parsing, `torznab/title.go` | none | ParseTitle, TitleMetadata.Matches | precedence of spellings, bounds | TitleText, TitleParsing |
| Result pipeline, `service.go`, `torznab/category.go` | hashes seen, items, rejections | Execute in sequence: process, FilterValidItems, pageItems | order of deduplication, validation and filtering | Feed |
| HTTP boundary, `httpapi.go` | the reply and its completion record | serveAPI, rawAPIKey, parsing of parameters, stopForContext, completion | two readings of one raw query; the context ends while the reply is made | HttpBoundary |
| Process lifecycle, `cmd/server/main.go` | server, root context, error channel | run | signal, listener failure and grace period race | ServerLifecycle |
| Configuration, `internal/config/config.go` | none after the start | LoadFrom; checks of the constructors | bounds, widths, agreement of two sets of checks | Configuration, ServerLifecycle |
| XML rendering, `torznab/xml.go` | none | feed to XML | escaping, validity | only what drops an item, in Feed |
| Health check client, release script, container files | none | deployment | | not modelled |

How they interact: a handler (HttpBoundary, SearchRequest) calls Execute, which looks keys up in a cache and,
on a miss, asks the coalescer of that cache (CachedLoad). A coalesced load runs in a goroutine of its own
under a context of its own and calls the client (UpstreamClient), whose gate and limiter all loads share.
The retry loop of the client asks the coalescer for the deadline of the requests that wait (SharedRetry). The
text of a search becomes a query, the bodies of the answers become torrents, and both meet in the pipeline
(Feed). The root context of the server (ServerLifecycle) is the parent of every request's context, not of the
loads'. The server is started with what LoadFrom makes of the environment (Configuration).

What makes each component correct:

- coalescer: one wanted load per key; cancelled exactly when nobody wants it; nobody joins a dead load;
  everybody returns; the retry budget is that of the present waiters;
- cache: capacity; a live entry is lost only to a cache full of live entries, and then the least recently
  used; list, map and heap agree;
- client: no slot leaks; bounded concurrency; spaced starts; waits honoured; true error classes and counts;
- cached loads: no cross-request abort; no needless upstream call; no fill by an abandoned load (which the
  code does not achieve, see Findings);
- search request: a feed only under a live context; partial only for upstream failures; always an answer;
- shared retry: a retry is refused only against the budgets of the requests present, and only they, or a
  request that joins after the decision, get the refusal;
- queries and titles: nothing of the title is lost with the tokens; an item is found under its own name, or
  the search refused, never silently filtered away; an unsafe season is not replaced by a guess;
- decoding: a bad torrent costs no other one its place (which the code achieves only in part, see Findings);
- pipeline: first occurrence decides; strict order; pages partition the feed; rejections accounted for;
- boundary: nothing ambiguous served; blame on a parameter at fault; paging exact at every width; the log
  tells the reply that was sent;
- configuration and lifecycle: what Load accepts the constructors accept; a size is the product that was
  written; requests cut off only with cause; failures reported; the process ends.

## Modules

State names are the source's names where TLA+ permits. A locked section, or straight-line code without
shared state, is one action; every point where another goroutine, a timer or a context can interfere
separates two actions.

**Coalescer.** One request is one invocation of DoShared; a call record is named by the request that made it
(`joined[r] # r` is the `shared` result). `Enter` is the check before the lock, `Join` and `Start` the locked
section, `ReturnResult` and `ObserveCancel` the two branches of the select (both may be ready), `Detach` is
detach; `LoadReturns` and `Finish` are the two halves of run. Deadlines only matter for the budget, so the
end of a context (`CtxExpires`) is not tied to a clock. `EffectiveDeadline` is an operator, as in the code.

**LoadSharing, CoalescerRefinement.** LoadSharing is what callers are promised: requests are members of
loads, a load is wanted while it has members, a request starts a load only if no wanted one runs for its
key. The mapping sends `Attached` to `members`, and stage and result to the state and answer of a load;
map, counters and ids disappear.

**SharedRetry** extends Coalescer, unchanged, with the loop of getJSON inside a call: `Retry`, `Refuse` and
`Conclude`. EffectiveDeadline holds the mutex, run publishes under it later, so requests leave and join
between `Refuse` and `Finish`. Two history variables remember what was refused and which waiters had come.

**CachedLoad** extends Coalescer with the cache in front of it and the steps of the load closure: the second
Get, the client call, Set. The three functions of the service are the same code, so one model stands for
them; its `map` rows cite each of them at different places. The service uses zero-value coalescers, so the
base context is never done here. Entries vanish at any time (`EntryLost`), which covers expiry and eviction.

**LRU, ExpiryHeap, LRUHeap.** LRU is the promise: keys with ranks, `Evicted` says what an overfull Set
throws out. LRUHeap is the code: map, list, heap, `heapIndex`, with container/heap's up and down in
ExpiryHeap. Every method holds the mutex throughout, so it is one action. LRUHeap implements LRU with the
position in the list as rank. The loops of up, down and removeExpired are functions from the number of turns
taken to what the loop works on, with one turn as an operator (`ClimbOnce`, `SinkOnce`, `PurgeOnce`).

**UpstreamClient.** `pc` walks getJSON: start, queued, slotted, gated, clear (before the limiter's mutex),
pausing, admitted, inflight, answered, decoding, backoff, done. Time is a clock that may advance between any
two steps. An attempt ends with any status class or error; the class list is `classifyStatus`. `ParseRetryAfter`
is the function of the code over a word of `MaxInt`: absent or malformed headers give the local backoff, past
ones no delay, large ones are clamped to `MaxDuration`, and the multiplication by a second is guarded.
`EarliestRetry` is what a header demands, told from its value and not by that function: so many seconds of any
size from now, or a date; only where the code reads no number does the shortest backoff take its place. The
history `starts` keeps every admitted start, of first attempts and retries alike. The deadline
that `waitForRetry` reads is chosen freely at each retry, since a coalesced load's budget moves with its
waiters.

**SearchRequest** composes the handler with the fan-out. The coalescers enter as `Sharing`, an INSTANCE of
LoadSharing whose requests are pairs of a request and a key: the promise, rather than Coalescer itself, keeps
two requests with several keys within reach. `Process` stands for the computing part of Execute, whose last
look at the context decides. `StopIfCanceled` and `StopIfExpired` are the two reads of `stopForContext`;
serveSearch calls it up to three times and the last call subsumes the others, because a context's error never
changes. A rendering error that is not the context's is left out.

**TitleText** divides a text into lexemes: words, runs of digits, brackets, separators, spaces and the
spellings of seasons and episodes, each with the numbers it carries. That division is what the regular
expressions of query.go and title.go do; `CompleteToken` is their boundary check. Brackets of the three
shapes behave alike in query.go; `[` stands for braces in queries too. A text is well formed if a lexer could
give it back: no two adjacent digit runs, no two adjacent spaces, no `S02` directly before `E03` (that is one
lexeme).

**QueryNormalization** is NormalizeQuery: explicit filters, then tokens with their continuations, their
agreement, then the empty pairs (one pass with a stack of open pairs) and the separators at the edges. Taking a
pair away may fuse words (`86(S01)2024` becomes `862024`), and a second normalization may find a token that the
first produced: neither is claimed otherwise anywhere, so no property forbids it.

**TitleParsing** is ParseTitle: the season by the precedence of its spellings (`ParseSeason`), the episodes
from the rightmost sensible group (`ParseEpisodes`), the movie rule. Its rules differ from those of queries:
`S2 - 86`, `2x03`, or an `S2` in the name of a movie, which then has no season to match. `FoundByItsTitle`
says where that difference may not show.

**TorrentDecoding** is what the client makes of a body: array, object with data, or neither; each entry
mistyped, refused by validateTorrent, or a torrent; validTorrents with its log sample; the hash in lower
case. What makes one field valid is an attribute; the XML check of the magnet text is folded into "magnet".

**Feed** runs one request through Execute: `Normalize`, `Load` (the answers that could be decoded, joined in
order), one `Scan` per torrent since the context is looked at before each, `Finish` (sort, FilterValidItems),
pages as operators. The loops that filter a list are `Pick` (**Picking**); the sort places each item by the
number of items ahead of it, which is what any sort by that total order returns. Items with a blank alias or the
zero update time are dropped without a log record, as in the code. The rejection "unsupported_release_type" is
in the code and in the model, and unreachable: the decoder has refused such types before.

**HttpBoundary.** A raw query is a sequence of fields with the attributes on which QueryUnescape, ParseQuery
and the handler base their decisions. Each check of serveAPI and serveSearch is an action, in its order.
After Execute come rendering, the looks at the context around it, the write of the reply (whole, part or
none) and the completion record. completeProtocolError would log 200 for an error of status 500, which no
caller passes it.

**Configuration** is LoadFrom: an environment gives each variable a reading; the checks are a sequence, and the
error names the first at fault. A key is its length and whether it is UTF-8; a URL is the parts that some check
looks at (scheme, authority with a host or only a port, user, query and fragment that may be there and empty,
path). What makes an address or level malformed is left open. A lone `HTTP_TIMEOUT=2m` is blamed on
REQUEST_TIMEOUT, since the pair is compared under that name. `ClientAccepts`, `ServiceAccepts` and `APIAccepts`
are all checks of the constructors, each by its own rules: NewClient parses the URL again from its text and
allows http, an authority without a host and an empty query, the service asks only for a text that is not blank.
net/url is taken to read back what it wrote, except that it does not write an empty fragment (`Reparsed`).

**ServerLifecycle.** The start (Load, Listen, one action for each of the three constructors, which hand on what
they built, the goroutine of Serve; a signal before NotifyContext kills the process), the select of run,
Shutdown, the last receive, the goroutine of Serve, handlers, signal and grace period. `version` is what the
linker stamped. net/http is modelled by what run relies on: Serve returns ErrServerClosed only after Shutdown
was called, Shutdown returns when no handler runs or its context ends.

## Runs

| Run | Instance | States | Shows |
| --- | --- | --- | --- |
| shared_retry | 3 requests, 2 keys, deadlines and a wait below and above the base deadline | 4.1 M | one wanted load, exact cancellation, joins only live loads, budget, refusals concern the present |
| cached_load | 3 requests, 1 key, a load may hang | 264 k | no inherited abort, upstream asked only with cause, still LoadSharing, every request returns, every load ends |
| abandoned_fill | 2 requests, 1 key | | violation: see Findings |
| lru_heap | 3 keys, 2 places, ttl 0, 1, 3; heaps of up to 6 entries | 9 k | structures agree and implement LRU (capacity, eviction, expiry); heap operations on every small heap |
| client | 2 operations, 1 slot, 3 attempts, Retry-After up to overflow | 580 k | slots, spacing of any two starts, waits, true errors, repeats; every operation ends |
| request_sharing | 2 requests, 1 release | 404 k | ended context beats results, fair blame, no branch outlives its request |
| request_fanout | 1 request, 4 releases, 3 loaded | 35 k | the partial feed is exactly what succeeded, in order; an answer although loads hang |
| feed | 13 k queries; 350 labels under 12 filters; bodies of up to 3 torrents of 10 kinds, odd bodies | 420 k | title text kept, found by its title, unsafe season; first occurrence, paging, rejections |
| feed_tokens, feed_siblings | the queries, and the bodies, of feed | | violations: see Findings |
| server_lifecycle | 3 handlers; environments of up to two variables at, in and past their bounds, every URL, every version | 81 k | constructors accept, sizes, cut-offs, failures, termination |
| http_boundary | queries of 3 fields, and of 4 that begin with key and function; offsets of 8 bits | 261 k | ambiguity, blame, paging, the log against the reply |

Why the bounds are enough to be interesting. Three requests are the fewest that let an abandoned load, its
successor and a third party overlap, which is where map and counter could go wrong, and the fewest in which one
request is refused a retry, leaves, and another comes in between. Six heap entries are the fewest on which
Remove has to sift up (the last element must come from another subtree). Three attempts are the program's own
limit. Two operations contend for one slot and one limiter; larger gates are left to the proof. The clock has
room for two starts, of two operations or of one and its retry; three and more are left to the proof, which is
about any number of them. In the fan-out run one id is repeated and one exceeds the limit of three. Three
torrents are the fewest with a rejected first occurrence, its good duplicate and a third between them in the
order.

The words are narrow so that they overflow: a register of 127 with a KiB of 4 for sizes, of 255 for offsets,
of 7 for Retry-After. `MaxDuration` of 7 ticks lies beyond `MaxTime`, so a clamped wait does not end within
the bound, as it would not in the lifetime of a process. The bounds that exist only for TLC are `MaxTime`
(the clock stops; nothing else does), the finite sets of delays, deadlines and ttls, and the pools of texts,
torrents, environments and query fields. Symmetry over requests is used only in runs without liveness
properties and without a refinement.

`CHECK_DEADLOCK FALSE` stands where the system may really stop: all requests answered, all operations done,
the process ended, the bounded clock at its end.

## Fairness

- Goroutines that can run do run: weak fairness of the steps of requests, operations, branches and run.
- Every request context ends: the handler wraps each in a timeout (`REQUEST_TIMEOUT`).
- A load whose context is done returns: every wait in the client selects on the context. In CachedLoad
  (`CachedFairSpec`) that is all that is asked of the client call; the steps around it only need to run.
- Nothing is assumed of a load whose context is not done, of the upstream, of the handlers in
  ServerLifecycle or of signals, and the clock of UpstreamClient need not advance. The end of a wait then
  rests on the end of its context alone.

## Proofs

All are safety results, checked by tlapm for every value of the constants that satisfies the modules' named
assumptions: distinct markers, natural deadlines, a positive capacity and interval, integer ttls, a clock bound
below the longest `time.Duration` (292 years), numbers of the environment that are integers, raw queries that
are sequences of fields, and scenarios made of requests and answers as Feed describes them
(`ScenarioAssumption`: texts of lexemes, and torrents of a supported type unless flawed, as the decoder refuses
the others). Words, units, capacities, lengths of queries, labels and answers, numbers of requests, keys,
releases, operations and handlers are arbitrary.

- **CoalescerProofs.** The properties are not inductive: that one wanted load runs per key depends on the map
  holding exactly the live loads; that exactly the last detach cancels depends on the counter being the
  number of attached requests. `IInv` joins `MapIndexesLiveLoads`, `WaitersMatchBudgets` (each attached
  request owns one budget entry under a distinct id and the counter is their number), `AttachedToCall`,
  `CallHasOwner`, `FreshCallIsEmpty` and `CancelledExactlyWhenUnwanted`. One lemma per action shows it is
  kept; cardinalities come from the library's theorems about finite sets. `BookkeepingCorrect`, `TypeCorrect`,
  `LoadsAreCoalesced`, `SiblingsSurvive`, `JoinersGetLiveLoads` follow. `BudgetIsThatOfTheWaiters` needs in
  addition that a finite set of deadlines has a latest one (`LatestExists`, by well-founded induction on
  subsets): the budgets of a call are those of its attached requests, by `IInv`, so the maximum that
  EffectiveDeadline takes is the deadline of one of them.
  `CoalescerImplementsPromise`: the coalescer implements LoadSharing. `PInv` adds to
  `IInv` that only a return gives a reply and that a returned load has a result. `Join` maps to Share, since
  the map holds live loads only; `Start` to Begin, since a key without an entry has no wanted load; `Detach` to
  Leave; `ReturnResult` to Deliver; `Finish` to Complete; `Enter` under an ended context to Refuse; every other
  step to a stutter.
- **CoalescerUsersProofs.** By their definitions, the steps of the cached load and of the retry loop are coalescer
  steps or leave the coalescer alone (the lemmas `CachedLoadIsCoalescer` and `RetryRefines`); that says nothing by
  itself, but it brings the theorems above to both: the cached loads keep the promise of LoadSharing
  (`CachedLoadKeepsPromise`). With `IInv`, an aborted result
  belongs to a cancelled call, which has no attached requests, so no reply is an abort
  (`AbortsAreNotInherited`). `CallsAreCaused` is a matter of bookkeeping in advance (`UInv`): a load that is
  abandoned may still call the upstream once, and that call is prepaid by the cause counted when it was
  abandoned; what a key has in credit covers the calls its abandoned loads may still make, and the one call
  without a cause is the one whose value is in hand, in the cache or in the only wanted load. A load counts as one
  cause at most: its failure if it fails while wanted, else its being left before the client answered.
  For `RefusalsConcernThePresent` the invariant
  says that whoever is attached to a refused call and could have used the retry has an id above those given out
  when it was refused (`PresentCouldNot`): at the refusal nobody attached could, by the lemmas of the budget,
  and ids are given out in order.
- **UpstreamClientProofs.** `gate` equals the number of operations at a holding place (`SlotsNeverLeak`),
  hence at most `MaxConcurrency` attempts are in flight (`ConcurrencyBounded`); every start in
  the history lies an interval before `limiter.next` and any two of them an interval apart, of whichever operation
  (`StartsAreSpaced`). `HInv` adds what the
  operation has behind it: `AttemptsCounted` ties `attempt` to the requests sent, one behind before the request
  and equal after it, and `WaitsKept` ties the timer of the retry wait to the instant the answer asked for.
  From it follow `ErrorsAreHonest`, `WaitsAreKept` (with the lemma `DelaySuffices` on `ParseRetryAfter`: its
  result is never shorter than asked, except where the range of a duration ends, beyond the clock; seconds beyond
  64 bits are excepted in the property, since the code does not wait for them, see Findings) and
  `RepeatsAreAllowed`.
- **ServerLifecycleProofs.** About the sizes: what passes the guard `n <= MaxInt / factor` has a product below
  the word (`GuardedProduct`), so an accepted size is the one written (`SizesNeverWrap`). About the constructors:
  a base URL that passed parseHTTPSBaseURL still has a host and no user, query or fragment when NewClient has
  parsed it again (`BaseURLSound`, `ClientSatisfied`), its text is not blank (`ServiceSatisfied`), the key is
  neither empty nor broken (`KeySound`, `APISatisfied`), the bounds and defaults are positive, and each
  constructor is handed the component built before it (`BuiltInOrder`). Hence `ConstructorsNeverRefuse`: the one
  refusal left is that of a version which Load never sees. About the end: `ChannelTellsServe` says what
  the channel of capacity one can hold at each place of run, `Draining` that no handler starts after Shutdown
  was called; `CutOffsHaveCause` and `FailuresAreReported` follow.
- **SearchRequestProofs.** `RequestsConsistent` is the invariant: a request's lookups are in a stage that its own
  stage allows, caches and loads hold answers for their key, a draft is justified by the answers of the
  branches and no branch is under way beside it, a reply by the context when it was given. From it follow
  `EndBeatsResults`, `PartialFeedsHonest`, `BlamedFairly` and `BranchesEndFirst`. That the partial feed is what
  succeeded, in order, rests on lemmas about the order of release ids (`Rank`, `Picked`).
- **HttpBoundaryProofs.** `RequestsHandled` is the invariant: at each stage the checks before it have been
  passed (`ChecksPassed`), and a stage that stops says what the request shows (`StopsSound`). `BlameFalls` and
  `OneReading` follow for queries of any length: what the raw scan calls a single key is what the parsed query
  has at that key (`SingletonsSound`). `NumbersAreExact` is an argument about the prefixes of a number: the first
  prefix that is beyond the word is the one at which the parser gives up, so what it accepts is the number that
  was written, leading zeros or not, and parseLimit clamps at the code's 50. `RecordsTell` compares the record
  with the reply.
- **LRUHeapProofs.** A loop is a function of the number of turns; that it exists for any number of turns
  (`LoopRuns`) and keeps what every turn keeps (`LoopKeeps`) is shown with the least number for which it would
  not. Sifting up keeps `UpReady` (only the sifted entry may expire before its parent), sifting down
  `SinkReady`; where they stop the heap is in order, so `HeapsStaySound` holds for heaps of any size. On lists,
  `Thinned` says that one is another without some keys, in the same order; thinned lists have the promise's
  ranks (`ThinnedRanks`, by counting), and removing the expired entries one root at a time thins the list by
  exactly those (`ExpiredRemovedAgrees`, since no entry expires before the root, `RootFirst`). The invariant
  (`Inv`) is agreement of the structures, the capacity, and that removed keys leave nothing behind;
  `StructuresStayInStep`, `NeverOverfull` and `HeapAndListImplementLRU` follow, the last action by action.

- **FeedProofs.** The loops of the texts and of the pipeline are recursive functions; that such a function exists
  is `LoopRuns`, that it keeps what every turn keeps is `TurnByTurn`. `Pick`, the loop that keeps the elements at
  some positions, is characterized by the one increasing enumeration of these positions (`PickInOrder`,
  `OneEnumeration`), hence picking twice is picking once (`PickTwice`); the sort is characterized by the number
  of items ahead of each (`SortedInOrder`). The invariant of the pipeline (`IInv`) says that the query is what
  NormalizeQuery returned, that the input is the sound torrents of the answers, that `seen` is the hashes of those
  scanned, that each counter is the number of first occurrences ruled out for its reason, that the items are the
  first occurrences accepted, and in the end that the feed is ordered and holds those that can be printed. None of
  the properties is inductive without it: what a torrent becomes depends on `seen` being exactly the torrents
  before it. `FirstOccurrencesDecide`, `RejectionsAreAccounted` and `PagesPartitionTheFeed` follow, the last
  because a page is the window of the feed at its offset (`PageIs`) and windows next to each other join
  (`PagesJoin`). `EveryItemIsFoundByItsTitle` rests on the filters: a query that is accepted has read its last
  token (`LastTokenRead`), and filters once known stay (`FiltersStay`). `UnsafeSeasonIsNotReplaced` is about
  ParseSeason alone.
  `TitleTextIsKept` is about the stack of open pairs: `PairsHonest` says that an open pair with a word or a
  number to keep behind it is visible, or a pair opened later and still open is to tell it so when it closes;
  every turn of markEmptyTechnicalPairs keeps that (`TurnHonest`), so a pair that is taken away held nothing but
  tokens, spaces, separators and brackets.

Only model-checked: liveness, which is out of the prover's reach. `HeapOperationsSound` is the run's form of
`HeapsStaySound`, which is proved for heaps of any size.

## Findings

`abandoned_fill`: docs/architecture.md:204-206 says that the cancellation at the last detach prevents
"abandoned cache fills after all callers leave". The client looks at the load's context last right after
decoding; service.go:282-288 then writes the cache without looking again. A caller that leaves in between
abandons the load, and the value is stored all the same. The value is a good one, so the consequence is mild.

`feed_tokens`: docs/title-normalization.md:213 says "Every listed complete token is removed and supplies its
season and/or episode". In `86S02 E03` the expression tried first matches `S02 E03`, which is no complete
token because a digit stands before it (query.go:75); the match is skipped as a whole, and `E03`, which on
its own is one, stays in the text and gives no episode.

`feed_siblings`: docs/integrations/aniliberty.md:223-224 says "Invalid required data causes that torrent to be
omitted and safely logged". That holds for values that validateTorrent refuses. A required field of another
JSON type fails json.Unmarshal inside rawTorrent.UnmarshalJSON (models.go:89) and with it the whole list: the
valid torrents of the same answer are lost, and these are what the run looks for, not the mistyped one.

Observed while modelling, without a run: a positive decimal Retry-After beyond int64 counts as malformed and
gives the local backoff, where one beyond time.Duration is clamped to the largest. docs/architecture.md:156-157
says that "`Retry-After` takes precedence over locally calculated delay", and
docs/integrations/aniliberty.md:265-267 that the client accepts integer seconds and ignores malformed values: the
second can be read either way for such a number, so `RetryWaitedOut` excepts it in words (`Unreadable`) and claims
nothing of it. And the version: a build stamped with a character outside `[A-Za-z0-9._-]` starts, loads its
configuration and is refused by NewClient (client.go:96-101). The release workflow only stamps tags of three
numbers and the Dockerfile's default is `dev`, so it takes a build by hand to get there.

## Not modelled, and why

XML rendering is a pure function from a page to a text; of it Feed has the checks that drop an item
(`Printable`), since they decide which pages there are. The text of fields (dates, sizes, links, escapes,
JSON numbers) is an attribute, valid or with a flaw; a property about it would be about formatting.
SearchReleases' decoding gives the release ids of SearchRequest and nothing else. Method and path routing,
request ids and log wording have no state that interacts with anything. The health check client, the
release script and the container files run outside the process.

## Plan

1. Done: every component that keeps state or decides what is in a feed; every safety property of every passing
   run is proved, in the form the run checks or (`HeapOperationsSound`) a more general one, and so are the
   refinements.
2. Next modules: the release search's decoding; the checks of xml.go that can still fail a render.
3. Next proofs: PagesPartitionFeed for pages that do not begin at a multiple of their length.
