---------------------------- MODULE SearchRequest ----------------------------
(****************************************************************************)
(* One search from the HTTP handler to its reply: serveSearch calls          *)
(* Service.Execute, which loads the release ids of a query, fans out one     *)
(* goroutine per release, collects what they bring and lets the handler      *)
(* write a feed or an error.  All requests share the caches and the loads.   *)
(*                                                                           *)
(* A lookup <<r, k>> is the use request r makes of key k.  The coalescers    *)
(* enter as LoadSharing, the promise Coalescer is shown to keep, with one    *)
(* LoadSharing request per lookup.                                           *)
(****************************************************************************)
EXTENDS Integers, Sequences, FiniteSets, SequencesExt

CONSTANTS
    Requests,     \* HTTP requests for search or tvsearch
    Releases,     \* release ids
    Query,        \* the key of the search load
    Latest,       \* the key of the latest-window load
    Matches,      \* the successful answers of SearchReleases
    IDsOf,        \* the release ids in each, in upstream order
    MaxReleases,  \* Config.MaxReleasesPerSearch
    Torrents,     \* a successful answer of TorrentsByRelease or Latest
    Failed,       \* an error of the client
    None

ASSUME SearchRequestAssumption ==
    /\ IDsOf \in [Matches -> Seq(Releases)]
    /\ Query \notin Releases /\ Latest \notin Releases /\ Query # Latest
    /\ Torrents \notin Matches /\ Failed \notin Matches \cup {Torrents}
    /\ None \notin Matches \cup {Torrents, Failed}
    /\ "cancelled" \notin Matches \cup {Torrents, Failed, None}
    /\ MaxReleases \in Nat \ {0}

Keys    == Releases \cup {Query, Latest}
Lookups == Requests \X Keys

\* What the upstream may answer for a key.
Answers(k) == (IF k = Query THEN Matches ELSE {Torrents}) \cup {Failed}

VARIABLES
    flow,     \* what Execute makes of the parameters of a request
    pc,       \* where its handler is
    ctx,      \* its context: "live", "canceled" or "expired"
    ids,      \* the releases loadSearch fans out to
    lookup,   \* the cache lookup of each use of a key
    served,   \* what a hit returned
    store,    \* the cache entry of each key
    draft,    \* the reply, unless the context is found to have ended
    reply,    \* the reply
    endedAt,  \* history: where the handler was when its context ended
    want, told, members, state, answer   \* the coalescers, see LoadSharing

requestVars == <<flow, pc, ids, draft, reply>>
contextVars == <<ctx, endedAt>>
cacheVars   == <<lookup, served, store>>
sharingVars == <<want, told, members, state, answer>>
vars        == <<requestVars, contextVars, cacheVars, sharingVars>>

Sharing == INSTANCE LoadSharing WITH
    Requests <- Lookups, Keys <- Keys, reply <- told,
    Results <- UNION {Answers(k) : k \in Keys}

Feed(from)  == [kind |-> "feed", from |-> from]
Error(kind) == [kind |-> kind, from |-> << >>]

Init ==
    /\ flow \in [Requests -> {"search", "latest", "invalid"}]
    /\ pc = [r \in Requests |-> "entering"]
    /\ ctx = [r \in Requests |-> "live"]
    /\ ids = [r \in Requests |-> << >>]
    /\ lookup = [b \in Lookups |-> "idle"]
    /\ served = [b \in Lookups |-> None]
    /\ store = [k \in Keys |-> None]
    /\ draft = [r \in Requests |-> None]
    /\ reply = [r \in Requests |-> None]
    /\ endedAt = [r \in Requests |-> None]
    /\ Sharing!Init
    /\ want = [b \in Lookups |-> b[2]]

Goto(r, place) == pc' = [pc EXCEPT ![r] = place]

\* Execute is over; what is left is stopForContext and the writing.
Conclude(r, outcome) ==
    /\ Goto(r, "stopping")
    /\ draft' = [draft EXCEPT ![r] = outcome]

Reply(r, outcome) ==
    /\ Goto(r, "replied")
    /\ reply' = [reply EXCEPT ![r] = outcome]

------------------------------------------------------------------------------
(* One lookup: cachedSearch, cachedTorrents or loadLatest                    *)

\* What the lookup returned, None while it runs; "cancelled" is ctx.Err().
Got(b) == IF lookup[b] = "hit" THEN served[b] ELSE told[b]

Hit(b) ==
    /\ lookup[b] = "new"
    /\ store[b[2]] # None
    /\ lookup' = [lookup EXCEPT ![b] = "hit"]
    /\ served' = [served EXCEPT ![b] = store[b[2]]]
    /\ UNCHANGED <<requestVars, contextVars, store, sharingVars>>

Miss(b) ==
    /\ lookup[b] = "new"
    /\ store[b[2]] = None
    /\ lookup' = [lookup EXCEPT ![b] = "miss"]
    /\ UNCHANGED <<requestVars, contextVars, served, store, sharingVars>>

\* Do refuses a context that is done; one that ends a moment later still
\* joins or starts a load.
EnterSharing(b) ==
    /\ lookup[b] = "miss"
    /\ \/ ctx[b[1]] # "live" /\ Sharing!Refuse(b)
       \/ Sharing!Begin(b)
       \/ \E l \in Lookups : Sharing!Share(b, l)
    /\ UNCHANGED <<requestVars, contextVars, cacheVars>>

\* Mutant of LeaveSharing: the wait for a load cannot be interrupted.
LeaveSharingServedOnly(b) ==
    /\ \E l \in Lookups : Sharing!Deliver(b, l)
    /\ UNCHANGED <<requestVars, contextVars, cacheVars>>

\* Do returns the load's result, or ctx.Err() once the context is done.
LeaveSharing(b) ==
    /\ \E l \in Lookups :
          \/ Sharing!Deliver(b, l)
          \/ ctx[b[1]] # "live" /\ Sharing!Leave(b, l)
    /\ UNCHANGED <<requestVars, contextVars, cacheVars>>

LookupStep(b) == Hit(b) \/ Miss(b) \/ EnterSharing(b) \/ LeaveSharing(b)

------------------------------------------------------------------------------
(* Execute and loadSearch                                                    *)

\* Execute looks at the context, then at the parameters, then loads.
Enter(r) ==
    /\ pc[r] = "entering"
    /\ CASE ctx[r] # "live" ->
                Conclude(r, Error("upstream_failed")) /\ UNCHANGED lookup
         [] ctx[r] = "live" /\ flow[r] = "invalid" ->
                Conclude(r, Error("incorrect_parameter")) /\ UNCHANGED lookup
         [] OTHER ->
                /\ Goto(r, "loading")
                /\ lookup' = [lookup EXCEPT
                       ![<<r, IF flow[r] = "latest" THEN Latest ELSE Query>>] = "new"]
                /\ UNCHANGED draft
    /\ UNCHANGED <<flow, ids, reply, contextVars, served, store, sharingVars>>

\* loadLatest has returned.
LatestLoaded(r) ==
    /\ pc[r] = "loading" /\ flow[r] = "latest"
    /\ Got(<<r, Latest>>) # None
    /\ IF Got(<<r, Latest>>) = Torrents
       THEN Goto(r, "processing") /\ UNCHANGED draft
       ELSE Conclude(r, Error("upstream_failed"))
    /\ UNCHANGED <<flow, ids, reply, contextVars, cacheVars, sharingVars>>

\* The number of places up to place i.
Rank(places, i) == Cardinality({j \in places : j <= i})

\* What a loop that appends keeps of a list: the elements at some places, in
\* their order.
Picked(list, places) ==
    [n \in 1..Cardinality(places) |-> list[CHOOSE i \in places : Rank(places, i) = n]]

\* distinctReleaseIDs: the first occurrence of each id, up to the limit.
Distinct(list) ==
    LET first == {i \in DOMAIN list : \A j \in DOMAIN list : j < i => list[j] # list[i]}
    IN  Picked(list, {i \in first : Rank(first, i) <= MaxReleases})

\* cachedSearch has returned: one goroutine per distinct release is started.
FanOut(r) ==
    /\ pc[r] = "loading" /\ flow[r] = "search"
    /\ Got(<<r, Query>>) # None
    /\ IF Got(<<r, Query>>) \in Matches
       THEN LET list == Distinct(IDsOf[Got(<<r, Query>>)]) IN
            /\ ids' = [ids EXCEPT ![r] = list]
            /\ lookup' = [b \in Lookups |-> IF b[1] = r /\ b[2] \in ToSet(list)
                                            THEN "new" ELSE lookup[b]]
            /\ Goto(r, IF list = << >> THEN "processing" ELSE "waiting")
            /\ UNCHANGED draft
       ELSE Conclude(r, Error("upstream_failed")) /\ UNCHANGED <<ids, lookup>>
    /\ UNCHANGED <<flow, reply, contextVars, served, store, sharingVars>>

\* Mutant of Succeeded: the branches after the first failed one are lost.
SucceededAtFirst(r) ==
    LET failures == {i \in DOMAIN ids[r] : Got(<<r, ids[r][i]>>) # Torrents} IN
    IF failures = {} THEN ids[r]
    ELSE SubSeq(ids[r], 1, (CHOOSE i \in failures : \A j \in failures : i <= j) - 1)

\* The branches that succeeded, in the order of ids.
Succeeded(r) == Picked(ids[r], {i \in DOMAIN ids[r] : Got(<<r, ids[r][i]>>) = Torrents})

\* Mutant of Collect: an ended context is reacted to without waiting for the
\* branches.
CollectImpatient(r) ==
    /\ pc[r] = "waiting"
    /\ ctx[r] # "live" \/ \A k \in ToSet(ids[r]) : Got(<<r, k>>) # None
    /\ IF ctx[r] # "live" \/ Succeeded(r) = << >>
       THEN Conclude(r, Error("upstream_failed"))
       ELSE Goto(r, "processing") /\ UNCHANGED draft
    /\ UNCHANGED <<flow, ids, reply, contextVars, cacheVars, sharingVars>>

\* wg.Wait is over.  The context of the request is looked at before the
\* branches are; one failed branch is left out, all failed is an error.
Collect(r) ==
    /\ pc[r] = "waiting"
    /\ \A k \in ToSet(ids[r]) : Got(<<r, k>>) # None
    /\ IF ctx[r] # "live" \/ Succeeded(r) = << >>
       THEN Conclude(r, Error("upstream_failed"))
       ELSE Goto(r, "processing") /\ UNCHANGED draft
    /\ UNCHANGED <<flow, ids, reply, contextVars, cacheVars, sharingVars>>

\* The rest of Execute only computes, and looks at the context throughout;
\* the last of these looks decides.
Process(r) ==
    /\ pc[r] = "processing"
    /\ Conclude(r, IF ctx[r] # "live" THEN Error("upstream_failed")
                   ELSE Feed(IF flow[r] = "latest" THEN <<Latest>> ELSE Succeeded(r)))
    /\ UNCHANGED <<flow, ids, reply, contextVars, cacheVars, sharingVars>>

------------------------------------------------------------------------------
(* serveSearch after Execute                                                 *)

\* stopForContext reads ctx.Err() twice.  The first read recognises a client
\* that is gone: nothing is written to it.
StopIfCanceled(r) ==
    /\ pc[r] = "stopping"
    /\ IF ctx[r] = "canceled" THEN Reply(r, Error("cancelled"))
       ELSE Goto(r, "rereading") /\ UNCHANGED reply
    /\ UNCHANGED <<flow, ids, draft, contextVars, cacheVars, sharingVars>>

\* Mutant of StopIfExpired: what Execute returned is written in any case.
StopIgnoresDeadline(r) ==
    /\ pc[r] = "rereading"
    /\ Reply(r, draft[r])
    /\ UNCHANGED <<flow, ids, draft, contextVars, cacheVars, sharingVars>>

\* The second recognises a deadline; otherwise the reply is written, also when
\* the client went away between the two reads.
StopIfExpired(r) ==
    /\ pc[r] = "rereading"
    /\ Reply(r, IF ctx[r] = "expired" THEN Error("deadline_exceeded") ELSE draft[r])
    /\ UNCHANGED <<flow, ids, draft, contextVars, cacheVars, sharingVars>>

RequestStep(r) ==
    \/ Enter(r) \/ LatestLoaded(r) \/ FanOut(r) \/ Collect(r) \/ Process(r)
    \/ StopIfCanceled(r) \/ StopIfExpired(r)

------------------------------------------------------------------------------
(* Loads and contexts                                                        *)

\* A load ends, wanted or not; a successful answer is cached before it is
\* published, an error never.
LoadEnds(l, v) ==
    /\ Sharing!Complete(l, v)
    /\ store' = IF v = Failed THEN store ELSE [store EXCEPT ![want[l]] = v]
    /\ UNCHANGED <<requestVars, contextVars, lookup, served>>

\* An entry expires or is evicted.
EntryLost(k) ==
    /\ store[k] # None
    /\ store' = [store EXCEPT ![k] = None]
    /\ UNCHANGED <<requestVars, contextVars, lookup, served, sharingVars>>

\* The client disconnects, the server cancels its root context, or
\* RequestTimeout passes: the first of them is the context's error for good.
ContextEnds(r, why) ==
    /\ pc[r] # "replied"
    /\ ctx[r] = "live"
    /\ ctx' = [ctx EXCEPT ![r] = why]
    /\ endedAt' = [endedAt EXCEPT ![r] = pc[r]]
    /\ UNCHANGED <<requestVars, cacheVars, sharingVars>>

Next ==
    \/ \E r \in Requests :
          \/ RequestStep(r)
          \/ \E why \in {"canceled", "expired"} : ContextEnds(r, why)
    \/ \E b \in Lookups :
          \/ LookupStep(b)
          \/ \E v \in Answers(b[2]) : LoadEnds(b, v)
    \/ \E k \in Keys : EntryLost(k)

Spec == Init /\ [][Next]_vars

\* Handlers and branch goroutines run when they can, and RequestTimeout comes.
\* No load need ever end.
Fairness ==
    /\ \A r \in Requests : WF_vars(RequestStep(r)) /\ WF_vars(ContextEnds(r, "expired"))
    /\ \A b \in Lookups : WF_vars(LookupStep(b))

FairSpec == Spec /\ Fairness

------------------------------------------------------------------------------
(* Properties                                                                *)

\* "Parent cancellation or deadline expiry takes priority over any completed
\* fan-out branches": a feed is never written under a context that has ended,
\* unless the client went away between the two reads of stopForContext.
EndedContextBeatsResults ==
    \A r \in Requests :
        reply[r] # None /\ reply[r].kind = "feed" =>
            endedAt[r] \in {None, "rereading"}

\* A feed leaves a release out only because the upstream failed for it, never
\* because the request's own end cut the branch short; every branch that
\* succeeded is in it once, in the order of the search, however the branches
\* were timed.
PartialFeedIsHonest ==
    \A r \in Requests :
        reply[r] # None /\ reply[r].kind = "feed" /\ flow[r] = "search" =>
            /\ IsInjective(reply[r].from) /\ Len(reply[r].from) <= MaxReleases
            /\ ToSet(reply[r].from) = {k \in ToSet(ids[r]) : Got(<<r, k>>) # Failed}
            /\ \A i, j \in DOMAIN reply[r].from : i < j =>
                  \E p, q \in DOMAIN ids[r] :
                      /\ p < q
                      /\ ids[r][p] = reply[r].from[i] /\ ids[r][q] = reply[r].from[j]
            /\ ids[r] = << >> \/ reply[r].from # << >>

\* A request is completed as upstream_failed only if the upstream did fail,
\* for the one load the reply rests on or for every release of the search; the
\* end of the request's own context is told apart as cancelled or
\* deadline_exceeded.
UpstreamBlamedFairly ==
    \A r \in Requests :
        reply[r] # None /\ reply[r].kind = "upstream_failed" =>
            \/ \E k \in {Query, Latest} : Got(<<r, k>>) = Failed
            \/ /\ ids[r] # << >>
               /\ \A k \in ToSet(ids[r]) : Got(<<r, k>>) = Failed

\* No branch goroutine outlives its request: when the reply is chosen none
\* runs, so none can touch the request's counters or branches afterwards.
NoBranchOutlivesRequest ==
    \A r \in Requests :
        pc[r] \in {"stopping", "rereading", "replied"} =>
            \A k \in Keys : lookup[<<r, k>>] # "idle" => Got(<<r, k>>) # None

\* Every request is answered although no load need ever end.
EveryRequestAnswered == \A r \in Requests : <>(pc[r] = "replied")
==============================================================================
