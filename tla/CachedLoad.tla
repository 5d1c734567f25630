----------------------------- MODULE CachedLoad ------------------------------
(****************************************************************************)
(* cachedSearch, cachedTorrents and loadLatest of internal/service: the same *)
(* code three times, a cache in front of a coalescer in front of the         *)
(* upstream client.  The closure they pass to Do is refined here into its    *)
(* steps; the coalescer itself is EXTENDed unchanged.                        *)
(*                                                                           *)
(* The service uses zero-value coalescers, whose base context is never done, *)
(* so BaseCancelled is not a step here.                                      *)
(****************************************************************************)
EXTENDS Coalescer

CONSTANTS
    Values,    \* successful answers of the upstream
    Failed,    \* the client's error when the upstream is at fault
    Aborted    \* the client's error when the load's context is done

ASSUME ResultsAssumption ==
    /\ Results = Values \cup {Failed, Aborted}
    /\ Failed \notin Values /\ Aborted \notin Values /\ Failed # Aborted

VARIABLES
    lookup,    \* a request's own Get: "new", "hit" or "miss"
    served,    \* what a hit returned
    store,     \* the cache entry of each key, None if absent or expired
    closure,   \* progress of the load closure of each call
    loaded,    \* its local variable loaded
    asked,     \* history: client calls made for a key
    causes     \* history: entries lost, and loads that were abandoned or else failed

cacheVars   == <<lookup, served, store>>
closureVars == <<closure, loaded>>
historyVars == <<asked, causes>>
cachedVars  == <<vars, cacheVars, closureVars, historyVars>>

CachedInit ==
    /\ Init
    /\ lookup = [r \in Requests |-> "new"]
    /\ served = [r \in Requests |-> None]
    /\ store = [k \in Keys |-> None]
    /\ closure = [c \in Requests |-> "none"]
    /\ loaded = [c \in Requests |-> None]
    /\ asked = [k \in Keys |-> 0]
    /\ causes = [k \in Keys |-> 0]

------------------------------------------------------------------------------
(* The calling request                                                       *)

\* Get finds the entry; the coalescer is not involved.
CacheHit(r) ==
    /\ lookup[r] = "new" /\ pc[r] = "idle"
    /\ store[key[r]] # None
    /\ lookup' = [lookup EXCEPT ![r] = "hit"]
    /\ served' = [served EXCEPT ![r] = store[key[r]]]
    /\ UNCHANGED <<vars, store, closureVars, historyVars>>

CacheMiss(r) ==
    /\ lookup[r] = "new" /\ pc[r] = "idle"
    /\ store[key[r]] = None
    /\ lookup' = [lookup EXCEPT ![r] = "miss"]
    /\ UNCHANGED <<vars, served, store, closureVars, historyVars>>

\* Do, except for the steps that also concern the closure.
InsideDo(r) ==
    /\ lookup[r] = "miss"
    /\ Enter(r) \/ Join(r) \/ ReturnResult(r) \/ ObserveCancel(r)
    /\ UNCHANGED <<cacheVars, closureVars, historyVars>>

StartLoad(r) ==
    /\ Start(r)
    /\ closure' = [closure EXCEPT ![r] = "check"]
    /\ UNCHANGED <<cacheVars, loaded, historyVars>>

\* Detaching may abandon the load.  One that has not returned yet leaves its
\* key without a load, which is a cause to ask again.
LeaveLoad(r) ==
    /\ Detach(r)
    /\ LET c == joined[r] IN
       causes' = IF cancelled'[c] # cancelled[c] /\ stage[c] = "loading"
                 THEN [causes EXCEPT ![key[r]] = causes[key[r]] + 1] ELSE causes
    /\ UNCHANGED <<cacheVars, closureVars, asked>>

------------------------------------------------------------------------------
(* The load closure of a call, run without the coalescer's mutex             *)

\* The second Get of the closure hits: what another load stored meanwhile.
SecondHit(c) ==
    /\ closure[c] = "check"
    /\ store[key[c]] # None
    /\ LoadReturns(c, store[key[c]])
    /\ closure' = [closure EXCEPT ![c] = "over"]
    /\ UNCHANGED <<cacheVars, loaded, historyVars>>

\* Mutant of CallClient: the closure does not look at the cache again.
CallClientUnchecked(c) ==
    /\ closure[c] = "check"
    /\ closure' = [closure EXCEPT ![c] = "calling"]
    /\ asked' = [asked EXCEPT ![key[c]] = asked[key[c]] + 1]
    /\ UNCHANGED <<vars, cacheVars, loaded, causes>>

\* It misses: the client is called.
CallClient(c) ==
    /\ closure[c] = "check"
    /\ store[key[c]] = None
    /\ closure' = [closure EXCEPT ![c] = "calling"]
    /\ asked' = [asked EXCEPT ![key[c]] = asked[key[c]] + 1]
    /\ UNCHANGED <<vars, cacheVars, loaded, causes>>

\* The client returns an error; only a done context makes it Aborted.  The
\* failure of an abandoned load is no second cause.
ClientFails(c) ==
    /\ closure[c] = "calling"
    /\ \/ LoadReturns(c, Failed)
       \/ LoadContextDone(c) /\ LoadReturns(c, Aborted)
    /\ closure' = [closure EXCEPT ![c] = "over"]
    /\ causes' = IF cancelled[c] THEN causes
                 ELSE [causes EXCEPT ![key[c]] = causes[key[c]] + 1]
    /\ UNCHANGED <<cacheVars, loaded, asked>>

\* getJSON looks at the context a last time after decoding and returns nil.
ClientAnswers(c, v) ==
    /\ closure[c] = "calling"
    /\ ~LoadContextDone(c)
    /\ loaded' = [loaded EXCEPT ![c] = v]
    /\ closure' = [closure EXCEPT ![c] = "answered"]
    /\ UNCHANGED <<vars, cacheVars, historyVars>>

\* Set, and the closure's return.  The context is not looked at again.
Fill(c) ==
    /\ closure[c] = "answered"
    /\ store' = [store EXCEPT ![key[c]] = loaded[c]]
    /\ LoadReturns(c, loaded[c])
    /\ closure' = [closure EXCEPT ![c] = "over"]
    /\ UNCHANGED <<lookup, served, loaded, historyVars>>

PublishLoad(c) ==
    /\ Finish(c)
    /\ UNCHANGED <<cacheVars, closureVars, historyVars>>

------------------------------------------------------------------------------
(* The environment                                                           *)

\* The entry expires or is evicted by other keys of the bounded cache.
EntryLost(k) ==
    /\ store[k] # None
    /\ store' = [store EXCEPT ![k] = None]
    /\ causes' = [causes EXCEPT ![k] = causes[k] + 1]
    /\ UNCHANGED <<vars, lookup, served, closureVars, asked>>

RequestContextEnds(r) ==
    /\ CtxExpires(r)
    /\ UNCHANGED <<cacheVars, closureVars, historyVars>>

CachedNext ==
    \/ \E r \in Requests :
          \/ CacheHit(r) \/ CacheMiss(r)
          \/ InsideDo(r) \/ StartLoad(r) \/ LeaveLoad(r)
          \/ RequestContextEnds(r)
    \/ \E c \in Requests :
          \/ SecondHit(c) \/ CallClient(c) \/ ClientFails(c)
          \/ \E v \in Values : ClientAnswers(c, v)
          \/ Fill(c) \/ PublishLoad(c)
    \/ \E k \in Keys : EntryLost(k)

CachedSpec == CachedInit /\ [][CachedNext]_cachedVars

\* A goroutine that can run does run: the request inside Do, the closure
\* between its two calls, the publication of what it returned.  Every request
\* context ends (the HTTP handler gives each one a timeout), and the client
\* returns once its context is done.  A client call whose context is not done
\* may hang, and the cache owes nothing.
CachedFairness ==
    \A r \in Requests :
        /\ WF_cachedVars(CacheHit(r) \/ CacheMiss(r))
        /\ WF_cachedVars(InsideDo(r) \/ StartLoad(r) \/ LeaveLoad(r))
        /\ WF_cachedVars(SecondHit(r) \/ CallClient(r) \/ Fill(r) \/ PublishLoad(r))
        /\ WF_cachedVars(LoadContextDone(r) /\ ClientFails(r))
        /\ WF_cachedVars(RequestContextEnds(r))

CachedFairSpec == CachedSpec /\ CachedFairness

------------------------------------------------------------------------------
(* Properties                                                                *)

\* Every variable has its type.
CachedTypeOK ==
    /\ TypeOK
    /\ lookup \in [Requests -> {"new", "hit", "miss"}]
    /\ served \in [Requests -> Values \cup {None}]
    /\ store \in [Keys -> Values \cup {None}]
    /\ closure \in [Requests -> {"none", "check", "calling", "answered", "over"}]
    /\ loaded \in [Requests -> Values \cup {None}]
    /\ asked \in [Keys -> Nat]
    /\ causes \in [Keys -> Nat]

\* No request is answered with the error of a load that was cancelled because
\* other requests went away: only a load nobody waits for is aborted, and
\* nobody joins it after that.
NobodyInheritsAbort == \A r \in Requests : outcome[r] # Aborted

\* The upstream is asked again for a key only with cause: between two calls
\* the entry was lost, a load failed, or a load was abandoned under way; a
\* load that is abandoned and then fails gives cause once.  Concurrent
\* misses alone never double a call, even one that starts a new load just
\* after another filled the cache.
UpstreamAskedOnlyWithCause == \A k \in Keys : asked[k] <= 1 + causes[k]

\* "Preventing abandoned cache fills after all callers leave"
\* (architecture.md): a load stores its value only while somebody waits.
NoAbandonedFill ==
    [][\A c \in Requests :
          closure[c] = "answered" /\ closure'[c] = "over" => ~cancelled[c]]_cachedVars
==============================================================================
