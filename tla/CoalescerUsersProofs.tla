------------------------- MODULE CoalescerUsersProofs -------------------------
(****************************************************************************)
(* Proofs about what is built on the coalescer: the cached load and the      *)
(* retry inside a shared load.  Either implements the coalescer, so the      *)
(* theorems proved of the coalescer hold for it; on top of them, nobody      *)
(* inherits an abort, the upstream is asked again only with cause, and a     *)
(* refused retry concerns those who waited for it.                           *)
(****************************************************************************)
EXTENDS CachedLoad, SharedRetry, CoalescerProofs

------------------------------------------------------------------------------
(* The cached load                                                           *)

\* A load that was aborted has been abandoned, and stays so.
AbortedIsAbandoned ==
    \A c \in Requests : result[c] = Aborted => cancelled[c] /\ Attached(c) = {}

\* The closure has an answer when it is about to store it.
AnsweredHasValue ==
    \A c \in Requests : closure[c] = "answered" => loaded[c] \in Values

CInv ==
    /\ IInv
    /\ CachedTypeOK
    /\ AnsweredHasValue
    /\ ~baseDone
    /\ AbortedIsAbandoned
    /\ NobodyInheritsAbort

\* Values are results, and the aborted result is none of them.
LEMMA ValuesAreResults ==
    /\ Values \subseteq Results /\ Failed \in Results /\ Aborted \in Results
    /\ None \notin Values /\ None # Aborted
    /\ Aborted \notin Values /\ Aborted # Failed /\ Aborted # "cancelled"
  BY ResultsAssumption, NoneAssumption, CancelledAssumption

\* What the closure's steps are to the coalescer.
LEMMA ClosureStep ==
    ASSUME CInv, NEW c \in Requests,
           SecondHit(c) \/ ClientFails(c) \/ Fill(c)
    PROVE  \E v \in Results :
              /\ LoadReturns(c, v)
              /\ v = Aborted => cancelled[c]
  <1>1. CASE SecondHit(c)
    <2>1. key[c] \in Keys
      BY DEF CInv, IInv, TypeOK
    <2>2. store[key[c]] \in Values /\ LoadReturns(c, store[key[c]])
      BY <1>1, <2>1 DEF SecondHit, CInv, CachedTypeOK
    <2> QED
      BY <2>2, ValuesAreResults
  <1>2. CASE ClientFails(c)
    <2>1. LoadContextDone(c) => cancelled[c]
      BY DEF CInv, LoadContextDone
    <2> QED
      BY <1>2, <2>1, ValuesAreResults DEF ClientFails
  <1>3. CASE Fill(c)
    <2>1. loaded[c] \in Values /\ LoadReturns(c, loaded[c])
      BY <1>3 DEF Fill, CInv, AnsweredHasValue
    <2> QED
      BY <2>1, ValuesAreResults
  <1> QED
    BY <1>1, <1>2, <1>3

\* Every step of the cached load is one of the coalescer, or none.
LEMMA StepRefines == CInv /\ [CachedNext]_cachedVars => [Next]_vars
  <1> SUFFICES ASSUME CInv, [CachedNext]_cachedVars PROVE [Next]_vars
    OBVIOUS
  <1>1. ASSUME NEW r \in Requests,
               \/ CacheHit(r) \/ CacheMiss(r) \/ InsideDo(r) \/ StartLoad(r)
               \/ LeaveLoad(r) \/ RequestContextEnds(r)
        PROVE  [Next]_vars
    BY <1>1 DEF CacheHit, CacheMiss, InsideDo, StartLoad, LeaveLoad, RequestContextEnds,
                Next, RequestStep
  <1>2. ASSUME NEW c \in Requests, SecondHit(c) \/ ClientFails(c) \/ Fill(c)
        PROVE  [Next]_vars
    BY <1>2, ClosureStep DEF Next, LoadStep
  <1>3. ASSUME NEW c \in Requests,
               \/ CallClient(c) \/ PublishLoad(c)
               \/ \E v \in Values : ClientAnswers(c, v)
        PROVE  [Next]_vars
    BY <1>3 DEF CallClient, PublishLoad, ClientAnswers, Next, LoadStep
  <1>4. CASE (\E k \in Keys : EntryLost(k)) \/ UNCHANGED cachedVars
    BY <1>4 DEF EntryLost, cachedVars
  <1> QED
    BY <1>1, <1>2, <1>3, <1>4 DEF CachedNext

\* The coalescer never takes back a result or a cancellation, and only joins
\* requests to loads that are neither finished nor cancelled.
LEMMA AbortStays ==
    ASSUME CInv, [CachedNext]_cachedVars
    PROVE  AbortedIsAbandoned'
  <1> SUFFICES ASSUME NEW c \in Requests, result'[c] = Aborted
               PROVE  cancelled'[c] /\ Attached(c)' = {}
    BY DEF AbortedIsAbandoned
  <1>1. [Next]_vars
    BY StepRefines
  <1>2. CASE result[c] = Aborted
    <2>1. cancelled[c] /\ Attached(c) = {}
      BY <1>2 DEF CInv, AbortedIsAbandoned
    <2>2. \A k \in Keys : calls[k] # c
      BY <2>1 DEF CInv, IInv, MapIndexesLiveLoads
    <2>3. stage[c] # "none"
      BY <2>1 DEF CInv, IInv, FreshCallIsEmpty
    <2>4. ASSUME NEW r \in Requests, RequestStep(r)
          PROVE  cancelled'[c] /\ Attached(c)' = {}
      <3>1. key[r] \in Keys /\ pc[c] # "checked"
        BY <2>3 DEF CInv, IInv, TypeOK, CallHasOwner
      <3>2. CASE Enter(r) \/ ReturnResult(r) \/ ObserveCancel(r)
        BY <2>1, <3>2 DEF CInv, IInv, TypeOK, Attached, Enter, ReturnResult,
                          ObserveCancel, callVars
      <3>3. CASE Join(r)
        BY <2>1, <2>2, <3>1, <3>3 DEF CInv, IInv, TypeOK, Attached, Join
      <3>4. CASE Start(r)
        BY <2>1, <3>1, <3>4 DEF CInv, IInv, TypeOK, Attached, Start
      <3>5. CASE Detach(r)
        BY <2>1, <3>5 DEF CInv, IInv, TypeOK, Attached, Detach, RemoveWaiter, callVars
      <3> QED
        BY <2>4, <3>2, <3>3, <3>4, <3>5 DEF RequestStep
    <2>5. ASSUME NEW d \in Requests, LoadStep(d)
          PROVE  cancelled'[c] /\ Attached(c)' = {}
      BY <2>1, <2>5 DEF CInv, IInv, TypeOK, Attached, LoadStep, LoadReturns, Finish,
                        requestVars, callVars
    <2>6. CASE \/ \E r \in Requests : CtxExpires(r)
               \/ BaseCancelled
               \/ UNCHANGED vars
      BY <2>1, <2>6 DEF Attached, CtxExpires, BaseCancelled, vars, requestVars, callVars
    <2> QED
      BY <1>1, <2>4, <2>5, <2>6 DEF Next
  <1>3. CASE result[c] # Aborted
    <2>1. PICK v \in Results : LoadReturns(c, v) /\ (v = Aborted => cancelled[c])
      <3>1. result' # result
        BY <1>3
      <3>2. ASSUME NEW d \in Requests, NEW v \in Results, LoadReturns(d, v)
            PROVE  d = c
        BY <1>3, <3>2 DEF CInv, IInv, TypeOK, LoadReturns
      <3>3. PICK d \in Requests : SecondHit(d) \/ ClientFails(d) \/ Fill(d)
        BY <3>1 DEF CachedNext, CacheHit, CacheMiss, InsideDo, StartLoad, LeaveLoad,
                    RequestContextEnds, CallClient, ClientAnswers, PublishLoad, EntryLost,
                    Enter, Join, Start, ReturnResult, ObserveCancel, Detach, Finish,
                    CtxExpires, cachedVars, vars, loadVars
      <3> QED
        BY <3>2, <3>3, ClosureStep
    <2>2. v = Aborted
      BY <2>1, <1>3 DEF LoadReturns, CInv, IInv, TypeOK
    <2>3. Unfinished(c) /\ cancelled[c]
      BY <2>1, <2>2 DEF LoadReturns, Unfinished
    <2>4. Attached(c) = {}
      BY <2>3 DEF CInv, IInv, CancelledExactlyWhenUnwanted
    <2> QED
      BY <2>1, <2>3, <2>4 DEF LoadReturns, requestVars, callVars, Attached
  <1> QED
    BY <1>2, <1>3

\* A request is only ever answered by a load it was attached to when the load
\* ended, and such a load was not aborted.
LEMMA RepliesStayClean ==
    ASSUME CInv, [CachedNext]_cachedVars
    PROVE  NobodyInheritsAbort'
  <1>1. [Next]_vars
    BY StepRefines
  <1>2. ASSUME NEW r \in Requests, outcome'[r] # outcome[r]
        PROVE  outcome'[r] # Aborted
    <2>1. PICK q \in Requests : Enter(q) \/ ReturnResult(q) \/ Detach(q)
      BY <1>1, <1>2 DEF Next, RequestStep, LoadStep, Join, Start, ObserveCancel,
                        LoadReturns, Finish, CtxExpires, BaseCancelled, vars, requestVars
    <2>2. CASE Enter(q) \/ Detach(q)
      BY <1>2, <2>2, ValuesAreResults DEF CInv, IInv, TypeOK, Enter, Detach
    <2>3. CASE ReturnResult(q)
      <3>1. q = r /\ outcome'[r] = result[joined[r]]
        BY <1>2, <2>3 DEF CInv, IInv, TypeOK, ReturnResult
      <3>2. joined[r] \in Requests /\ r \in Attached(joined[r])
        BY <2>3, <3>1 DEF CInv, IInv, AttachedToCall, ReturnResult, Attached
      <3> QED
        BY <3>1, <3>2 DEF CInv, AbortedIsAbandoned
    <2> QED
      BY <2>1, <2>2, <2>3
  <1> QED
    BY <1>2 DEF CInv, NobodyInheritsAbort

LEMMA CacheTyped ==
    ASSUME CInv, [CachedNext]_cachedVars
    PROVE  CachedTypeOK' /\ AnsweredHasValue' /\ ~baseDone'
  <1> USE DEF cacheVars, closureVars, historyVars
  <1>1. TypeOK'
    BY StepRefines, StepPreserves DEF CInv, IInv
  <1>2. ~baseDone'
    BY DEF CInv, CachedNext, CacheHit, CacheMiss, InsideDo, StartLoad, LeaveLoad,
           RequestContextEnds, SecondHit, CallClient, ClientFails, ClientAnswers, Fill,
           PublishLoad, EntryLost, Enter, Join, Start, ReturnResult, ObserveCancel, Detach,
           LoadReturns, Finish, CtxExpires, cachedVars, vars, ctxVars
  <1>3. key \in [Requests -> Keys]
    BY DEF CInv, IInv, TypeOK
  <1>4. ASSUME NEW r \in Requests,
               \/ CacheHit(r) \/ CacheMiss(r) \/ InsideDo(r) \/ StartLoad(r)
               \/ LeaveLoad(r) \/ RequestContextEnds(r)
        PROVE  CachedTypeOK' /\ AnsweredHasValue'
    <2>1. CASE CacheHit(r) \/ CacheMiss(r)
      BY <1>1, <1>3, <2>1 DEF CInv, CachedTypeOK, AnsweredHasValue, CacheHit, CacheMiss
    <2>2. CASE InsideDo(r) \/ RequestContextEnds(r)
      BY <1>1, <2>2 DEF CInv, CachedTypeOK, AnsweredHasValue, InsideDo, RequestContextEnds
    <2>3. CASE StartLoad(r)
      BY <1>1, <2>3 DEF CInv, CachedTypeOK, AnsweredHasValue, StartLoad
    <2>4. CASE LeaveLoad(r)
      BY <1>1, <1>3, <2>4 DEF CInv, CachedTypeOK, AnsweredHasValue, LeaveLoad
    <2> QED
      BY <1>4, <2>1, <2>2, <2>3, <2>4
  <1>5. ASSUME NEW c \in Requests,
               \/ SecondHit(c) \/ CallClient(c) \/ ClientFails(c) \/ Fill(c)
               \/ PublishLoad(c) \/ \E v \in Values : ClientAnswers(c, v)
        PROVE  CachedTypeOK' /\ AnsweredHasValue'
    <2>1. CASE SecondHit(c) \/ CallClient(c) \/ ClientFails(c)
      BY <1>1, <1>3, <2>1
      DEF CInv, CachedTypeOK, AnsweredHasValue, SecondHit, CallClient, ClientFails
    <2>2. CASE \E v \in Values : ClientAnswers(c, v)
      BY <1>1, <2>2 DEF CInv, CachedTypeOK, AnsweredHasValue, ClientAnswers
    <2>3. CASE Fill(c)
      BY <1>1, <1>3, <2>3 DEF CInv, CachedTypeOK, AnsweredHasValue, Fill
    <2>4. CASE PublishLoad(c)
      BY <1>1, <2>4 DEF CInv, CachedTypeOK, AnsweredHasValue, PublishLoad
    <2> QED
      BY <1>5, <2>1, <2>2, <2>3, <2>4
  <1>6. CASE (\E k \in Keys : EntryLost(k)) \/ UNCHANGED cachedVars
    <2>1. CASE \E k \in Keys : EntryLost(k)
      BY <1>1, <1>2, <2>1 DEF CInv, CachedTypeOK, AnsweredHasValue, EntryLost
    <2>2. CASE UNCHANGED cachedVars
      <3>1. UNCHANGED <<lookup, served, store, closure, loaded, asked, causes>>
        BY <2>2 DEF cachedVars
      <3> QED
        BY <1>1, <1>2, <3>1 DEF CInv, CachedTypeOK, AnsweredHasValue
    <2> QED
      BY <1>6, <2>1, <2>2
  <1> QED
    BY <1>2, <1>4, <1>5, <1>6 DEF CachedNext

LEMMA CachedInitEstablishes == CachedInit => CInv
  <1> SUFFICES ASSUME CachedInit PROVE CInv
    OBVIOUS
  <1>1. IInv
    BY InitEstablishes DEF CachedInit
  <1>2. AbortedIsAbandoned /\ NobodyInheritsAbort
    BY ValuesAreResults DEF CachedInit, Init, AbortedIsAbandoned, NobodyInheritsAbort
  <1>3. CachedTypeOK /\ AnsweredHasValue /\ ~baseDone
    BY <1>1 DEF CachedInit, Init, IInv, CachedTypeOK, AnsweredHasValue
  <1> QED
    BY <1>1, <1>2, <1>3 DEF CInv

LEMMA CachedStepPreserves == CInv /\ [CachedNext]_cachedVars => CInv'
  BY StepRefines, StepPreserves, AbortStays, RepliesStayClean, CacheTyped DEF CInv

LEMMA CachedInductive == CachedSpec => []CInv
  BY CachedInitEstablishes, CachedStepPreserves, PTL DEF CachedSpec

\* By their shape the steps of the cached load are those of the coalescer; that
\* is how the results about the coalescer come to hold in the service.
LEMMA CachedLoadIsCoalescer == CachedSpec => Spec
  <1>1. CachedInit => Init
    BY DEF CachedInit
  <1> QED
    BY <1>1, StepRefines, CachedInductive, PTL DEF CachedSpec, Spec

\* The cached loads of the service keep the promise of load sharing: the cache
\* and the load closure take nothing away from what the coalescer gives.
THEOREM CachedLoadKeepsPromise == CachedSpec => ImplementsLoadSharing
  BY CachedLoadIsCoalescer, CoalescerImplementsPromise

\* No request of the service is told that its context ended because another
\* request's did.
THEOREM AbortsAreNotInherited == CachedSpec => []NobodyInheritsAbort
  <1>1. CInv => NobodyInheritsAbort
    BY DEF CInv
  <1> QED
    BY <1>1, CachedInductive, PTL

------------------------------------------------------------------------------
(* Why the upstream was asked                                                *)

\* The closure runs exactly while load has not returned.
ClosureInStep ==
    \A c \in Requests :
        /\ closure[c] = "none" <=> stage[c] = "none"
        /\ closure[c] \in {"check", "calling", "answered"} <=> stage[c] = "loading"

\* Abandoned loads that may still ask: the cause is counted before the call.
Prepaid(k) == {c \in Requests : key[c] = k /\ cancelled[c] /\ closure[c] = "check"}

\* The value is there or a wanted load is about to bring it: the one call that
\* needs no cause.
InHand(k) ==
    \/ store[k] # None
    \/ \E c \in Requests :
          key[c] = k /\ ~cancelled[c] /\ closure[c] \in {"calling", "answered"}

Credit(k) == IF InHand(k) THEN 1 ELSE 0

\* The calls made, and those that abandoned loads may still make, all have a
\* cause, except for the one whose value is in hand.
CallsHaveCause ==
    \A k \in Keys :
        /\ IsFiniteSet(Prepaid(k))
        /\ asked[k] + Cardinality(Prepaid(k)) <= causes[k] + Credit(k)

UInv == CInv /\ ClosureInStep /\ CallsHaveCause

\* A set of loads that one load enters or leaves.
LEMMA OneMoreOrLess ==
    ASSUME NEW P, IsFiniteSet(P), NEW c
    PROVE  /\ Cardinality(P) \in Nat
           /\ IsFiniteSet(P \cup {c}) /\ Cardinality(P \cup {c}) \in Nat
           /\ Cardinality(P \cup {c}) <= Cardinality(P) + 1
           /\ IsFiniteSet(P \ {c}) /\ Cardinality(P \ {c}) \in Nat
           /\ Cardinality(P \ {c}) <= Cardinality(P)
           /\ c \in P => Cardinality(P \ {c}) = Cardinality(P) - 1
  BY FS_CardinalityType, FS_AddElement, FS_RemoveElement

\* What the steps do to the balance of one key.
LEMMA BalanceKept ==
    ASSUME UInv, NEW k \in Keys, NEW c,
           /\ asked'[k] \in Nat /\ causes'[k] \in Nat
           /\ \/ /\ Prepaid(k)' = Prepaid(k) /\ (InHand(k) => InHand(k)')
                 /\ asked'[k] = asked[k] /\ causes'[k] >= causes[k]
              \/ /\ Prepaid(k)' \in {Prepaid(k), Prepaid(k) \ {c}, Prepaid(k) \cup {c}}
                 /\ Prepaid(k)' = Prepaid(k) \cup {c} => (InHand(k) => InHand(k)')
                 /\ asked'[k] = asked[k] /\ causes'[k] = causes[k] + 1
              \/ /\ Prepaid(k)' = Prepaid(k) \ {c} /\ (InHand(k) => InHand(k)')
                 /\ asked'[k] = asked[k] /\ causes'[k] = causes[k]
              \/ /\ Prepaid(k)' = Prepaid(k) \ {c} /\ c \in Prepaid(k)
                 /\ (InHand(k) => InHand(k)')
                 /\ asked'[k] = asked[k] + 1 /\ causes'[k] = causes[k]
              \/ /\ Prepaid(k)' = Prepaid(k) /\ ~InHand(k) /\ InHand(k)'
                 /\ asked'[k] = asked[k] + 1 /\ causes'[k] = causes[k]
    PROVE  /\ IsFiniteSet(Prepaid(k)')
           /\ asked'[k] + Cardinality(Prepaid(k)') <= causes'[k] + Credit(k)'
  <1> DEFINE P == Prepaid(k)
             Q == Prepaid(k)'
  <1>1. /\ IsFiniteSet(P) /\ asked[k] \in Nat /\ causes[k] \in Nat
        /\ asked[k] + Cardinality(P) <= causes[k] + Credit(k)
    BY DEF UInv, CallsHaveCause, CInv, CachedTypeOK
  <1>2. /\ Credit(k) \in {0, 1} /\ Credit(k)' \in {0, 1}
        /\ (InHand(k) => InHand(k)') => Credit(k) <= Credit(k)'
        /\ ~InHand(k) => Credit(k) = 0
        /\ InHand(k)' => Credit(k)' = 1
    BY DEF Credit
  <1>3. /\ Cardinality(P) \in Nat
        /\ IsFiniteSet(P \cup {c}) /\ Cardinality(P \cup {c}) \in Nat
        /\ Cardinality(P \cup {c}) <= Cardinality(P) + 1
        /\ IsFiniteSet(P \ {c}) /\ Cardinality(P \ {c}) \in Nat
        /\ Cardinality(P \ {c}) <= Cardinality(P)
        /\ c \in P => Cardinality(P \ {c}) = Cardinality(P) - 1
    BY <1>1, OneMoreOrLess
  <1> HIDE DEF P, Q
  <1>4. CASE Q = P
    BY <1>1, <1>2, <1>3, <1>4 DEF P, Q
  <1>5. CASE Q = P \ {c} /\ Q # P
    BY <1>1, <1>2, <1>3, <1>5 DEF P, Q
  <1>6. CASE Q = P \cup {c} /\ Q # P
    BY <1>1, <1>2, <1>3, <1>6 DEF P, Q
  <1> QED
    BY <1>4, <1>5, <1>6 DEF P, Q

\* What a step leaves alone, as far as the balance sees it.
LEMMA Balanced ==
    ASSUME UInv, CachedTypeOK', UNCHANGED <<key, store, asked, causes>>,
           \A c \in Requests :
               /\ cancelled'[c] # cancelled[c] => closure[c] \in {"none", "over"}
               /\ \/ closure'[c] = closure[c]
                  \/ closure[c] = "calling" /\ closure'[c] = "answered"
                  \/ closure[c] = "none" /\ closure'[c] = "check" /\ ~cancelled'[c]
    PROVE  CallsHaveCause'
  <1> SUFFICES ASSUME NEW k \in Keys
               PROVE  /\ IsFiniteSet(Prepaid(k)')
                      /\ asked'[k] + Cardinality(Prepaid(k)') <= causes'[k] + Credit(k)'
    BY DEF CallsHaveCause, Credit
  <1>1. \A c \in Requests :
            closure'[c] \in {"check", "calling", "answered"}
            /\ closure[c] \in {"check", "calling", "answered"} =>
                cancelled'[c] = cancelled[c]
    OBVIOUS
  <1>2. Prepaid(k)' = Prepaid(k)
    BY <1>1 DEF Prepaid
  <1>3. InHand(k) => InHand(k)'
    BY <1>1 DEF InHand
  <1>4. asked'[k] \in Nat /\ causes'[k] \in Nat
    BY DEF CachedTypeOK
  <1> QED
    BY <1>2, <1>3, <1>4, BalanceKept

LEMMA RequestsKeepBalance ==
    ASSUME UInv, CachedTypeOK', NEW r \in Requests,
           \/ CacheHit(r) \/ CacheMiss(r) \/ InsideDo(r) \/ StartLoad(r)
           \/ RequestContextEnds(r)
    PROVE  ClosureInStep' /\ CallsHaveCause'
  <1>1. /\ closure \in [Requests -> {"none", "check", "calling", "answered", "over"}]
        /\ stage \in [Requests -> Stages] /\ cancelled \in [Requests -> BOOLEAN]
    BY DEF UInv, CInv, CachedTypeOK, TypeOK
  <1>2. CASE CacheHit(r) \/ CacheMiss(r) \/ InsideDo(r) \/ RequestContextEnds(r)
    <2>1. UNCHANGED <<key, store, asked, causes, closure, cancelled, stage>>
      BY <1>2 DEF CacheHit, CacheMiss, InsideDo, RequestContextEnds, Enter, Join, ReturnResult,
         ObserveCancel, CtxExpires, vars, requestVars, callVars, loadVars, cacheVars,
         closureVars, historyVars
    <2>2. ClosureInStep'
      BY <2>1 DEF UInv, ClosureInStep
    <2> QED
      BY <2>1, <2>2, Balanced
  <1>3. CASE StartLoad(r)
    <2>1. /\ UNCHANGED <<key, store, asked, causes, cancelled>>
          /\ closure' = [closure EXCEPT ![r] = "check"]
          /\ stage' = [stage EXCEPT ![r] = "loading"] /\ pc[r] = "checked"
      BY <1>3 DEF StartLoad, Start, cacheVars, historyVars
    <2>2. stage[r] = "none" /\ ~cancelled[r]
      BY <2>1 DEF UInv, CInv, IInv, CallHasOwner, FreshCallIsEmpty
    <2>3. closure[r] = "none"
      BY <2>2 DEF UInv, ClosureInStep
    <2>4. ClosureInStep'
      BY <1>1, <2>1 DEF UInv, ClosureInStep
    <2> QED
      BY <1>1, <2>1, <2>2, <2>3, <2>4, Balanced
  <1> QED
    BY <1>2, <1>3

\* The last request to leave abandons the load, which is a cause.
LEMMA LeavingKeepsBalance ==
    ASSUME UInv, CachedTypeOK', NEW r \in Requests, LeaveLoad(r)
    PROVE  ClosureInStep' /\ CallsHaveCause'
  <1> DEFINE c == joined[r]
  <1>1. c \in Requests /\ key[c] = key[r] /\ key[r] \in Keys
    BY DEF UInv, CInv, IInv, TypeOK, AttachedToCall, LeaveLoad, Detach
  <1>2. /\ UNCHANGED <<key, store, asked, closure, stage>>
        /\ causes' = IF cancelled'[c] # cancelled[c] /\ stage[c] = "loading"
                     THEN [causes EXCEPT ![key[c]] = causes[key[c]] + 1] ELSE causes
        /\ cancelled' \in {cancelled, [cancelled EXCEPT ![c] = TRUE]}
    BY <1>1 DEF LeaveLoad, Detach, RemoveWaiter, callVars, loadVars, cacheVars, closureVars
  <1>3. cancelled \in [Requests -> BOOLEAN] /\ causes \in [Keys -> Nat] /\ asked \in [Keys -> Nat]
    BY DEF UInv, CInv, CachedTypeOK, TypeOK
  <1>4. ClosureInStep'
    BY <1>2 DEF UInv, ClosureInStep
  <1>5. CASE cancelled'[c] = cancelled[c] \/ stage[c] # "loading"
    <2>1. causes' = causes
      BY <1>2, <1>5
    <2>2. \A d \in Requests : cancelled'[d] # cancelled[d] => closure[d] \in {"none", "over"}
      <3>1. stage[c] # "loading" => closure[c] \in {"none", "over"}
        BY <1>1 DEF UInv, ClosureInStep, CInv, CachedTypeOK
      <3> QED
        BY <1>1, <1>2, <1>3, <1>5, <3>1
    <2> QED
      BY <1>2, <1>4, <2>1, <2>2, Balanced
  <1>6. CASE cancelled'[c] # cancelled[c] /\ stage[c] = "loading"
    <2>1. /\ ~cancelled[c] /\ cancelled' = [cancelled EXCEPT ![c] = TRUE]
          /\ causes' = [causes EXCEPT ![key[c]] = causes[key[c]] + 1]
      BY <1>1, <1>2, <1>3, <1>6
    <2> HIDE DEF c
    <2>2. ASSUME NEW k \in Keys
          PROVE  /\ IsFiniteSet(Prepaid(k)')
                 /\ asked'[k] + Cardinality(Prepaid(k)') <= causes'[k] + Credit(k)'
      <3>1. /\ asked'[k] = asked[k] /\ asked'[k] \in Nat /\ causes'[k] \in Nat
            /\ k = key[c] => causes'[k] = causes[k] + 1
            /\ k # key[c] => causes'[k] = causes[k]
        <4>1. asked' = asked
          BY <1>2
        <4>2. causes' = [causes EXCEPT ![key[c]] = causes[key[c]] + 1]
          BY <2>1
        <4> QED
          BY <1>3, <4>1, <4>2
      <3>2. CASE k = key[c] /\ closure[c] = "check"
        <4>1. Prepaid(k)' = Prepaid(k) \cup {c}
          BY <1>1, <1>2, <1>3, <2>1, <3>2 DEF Prepaid
        <4>2. InHand(k) => InHand(k)'
          BY <1>1, <1>2, <1>3, <2>1, <3>2 DEF InHand
        <4> QED
          BY <3>1, <3>2, <4>1, <4>2, BalanceKept
      <3>3. CASE k = key[c] /\ closure[c] # "check"
        <4>1. Prepaid(k)' = Prepaid(k)
          BY <1>1, <1>2, <1>3, <2>1, <3>3 DEF Prepaid
        <4>2. Prepaid(k)' = Prepaid(k) \cup {c} => c \in Prepaid(k)
          BY <4>1
        <4>3. c \notin Prepaid(k)
          BY <2>1 DEF Prepaid
        <4> QED
          BY <3>1, <3>3, <4>1, <4>2, <4>3, BalanceKept
      <3>4. CASE k # key[c]
        <4>1. Prepaid(k)' = Prepaid(k)
          BY <1>1, <1>2, <1>3, <2>1, <3>4 DEF Prepaid
        <4>2. InHand(k) => InHand(k)'
          BY <1>1, <1>2, <1>3, <2>1, <3>4 DEF InHand
        <4> QED
          BY <1>3, <3>1, <3>4, <4>1, <4>2, BalanceKept
      <3> QED
        BY <3>2, <3>3, <3>4
    <2>3. CallsHaveCause'
      BY <2>2 DEF CallsHaveCause, Credit
    <2> QED
      BY <1>4, <2>3
  <1> QED
    BY <1>5, <1>6

\* A wanted load calls only if nothing is in hand, an abandoned one is paid
\* for already.
LEMMA CallKeepsBalance ==
    ASSUME UInv, CachedTypeOK', NEW c \in Requests, CallClient(c)
    PROVE  ClosureInStep' /\ CallsHaveCause'
  <1>1. /\ UNCHANGED <<key, store, causes, stage, cancelled>>
        /\ closure[c] = "check" /\ closure' = [closure EXCEPT ![c] = "calling"]
        /\ asked' = [asked EXCEPT ![key[c]] = asked[key[c]] + 1] /\ store[key[c]] = None
    BY DEF CallClient, vars, requestVars, callVars, loadVars, cacheVars
  <1>2. /\ closure \in [Requests -> {"none", "check", "calling", "answered", "over"}]
        /\ key \in [Requests -> Keys] /\ cancelled \in [Requests -> BOOLEAN]
        /\ causes \in [Keys -> Nat] /\ asked \in [Keys -> Nat]
    BY DEF UInv, CInv, CachedTypeOK, TypeOK
  <1>3. ClosureInStep'
    BY <1>1, <1>2 DEF UInv, ClosureInStep
  <1>4. ASSUME NEW d \in Requests, d # c, key[d] = key[c], ~cancelled[d], ~cancelled[c]
        PROVE  closure[d] \notin {"calling", "answered"}
    <2>1. Unfinished(c)
      BY <1>1 DEF UInv, ClosureInStep, Unfinished
    <2>2. calls[key[c]] = c
      BY <1>2, <1>4, <2>1 DEF UInv, CInv, IInv, MapIndexesLiveLoads
    <2>3. ~Unfinished(d)
      BY <1>2, <1>4, <2>2 DEF UInv, CInv, IInv, MapIndexesLiveLoads
    <2> QED
      BY <2>3 DEF UInv, ClosureInStep, Unfinished
  <1>5. ASSUME NEW k \in Keys
        PROVE  /\ IsFiniteSet(Prepaid(k)')
               /\ asked'[k] + Cardinality(Prepaid(k)') <= causes'[k] + Credit(k)'
    <2>1. asked'[k] = (IF k = key[c] THEN asked[k] + 1 ELSE asked[k]) /\ asked'[k] \in Nat
          /\ causes'[k] = causes[k] /\ causes'[k] \in Nat
      BY <1>1, <1>2
    <2>2. CASE k = key[c] /\ cancelled[c]
      <3>1. c \in Prepaid(k) /\ Prepaid(k)' = Prepaid(k) \ {c}
        BY <1>1, <1>2, <2>2 DEF Prepaid
      <3>2. InHand(k) => InHand(k)'
        BY <1>1, <1>2 DEF InHand
      <3> QED
        BY <2>1, <2>2, <3>1, <3>2, BalanceKept
    <2>3. CASE k = key[c] /\ ~cancelled[c]
      <3>1. Prepaid(k)' = Prepaid(k)
        BY <1>1, <1>2, <2>3 DEF Prepaid
      <3>2. ~InHand(k) /\ InHand(k)'
        BY <1>1, <1>2, <1>4, <2>3 DEF InHand
      <3> QED
        BY <2>1, <2>3, <3>1, <3>2, BalanceKept
    <2>4. CASE k # key[c]
      <3>1. Prepaid(k)' = Prepaid(k) /\ (InHand(k) => InHand(k)')
        BY <1>1, <1>2, <2>4 DEF Prepaid, InHand
      <3> QED
        BY <1>2, <2>1, <2>4, <3>1, BalanceKept
    <2> QED
      BY <2>2, <2>3, <2>4
  <1> QED
    BY <1>3, <1>5 DEF CallsHaveCause, Credit

\* The closure returns: a hit and a fill have the value in the cache, the
\* failure of a wanted load is a cause, and an abandoned one was paid for.
LEMMA ReturnKeepsBalance ==
    ASSUME UInv, CachedTypeOK', NEW c \in Requests, SecondHit(c) \/ ClientFails(c) \/ Fill(c)
    PROVE  ClosureInStep' /\ CallsHaveCause'
  <1>1. /\ UNCHANGED <<key, asked, cancelled>>
        /\ closure[c] \in {"check", "calling", "answered"}
        /\ closure' = [closure EXCEPT ![c] = "over"]
        /\ stage' = [stage EXCEPT ![c] = "returned"]
    BY DEF SecondHit, ClientFails, Fill, LoadReturns, requestVars, callVars, historyVars
  <1>2. /\ closure \in [Requests -> {"none", "check", "calling", "answered", "over"}]
        /\ key \in [Requests -> Keys] /\ stage \in [Requests -> Stages]
        /\ causes \in [Keys -> Nat] /\ asked \in [Keys -> Nat]
        /\ store \in [Keys -> Values \cup {None}]
    BY DEF UInv, CInv, CachedTypeOK, TypeOK
  <1>3. ClosureInStep'
    BY <1>1, <1>2 DEF UInv, ClosureInStep
  <1>4. ASSUME NEW k \in Keys
        PROVE  /\ IsFiniteSet(Prepaid(k)')
               /\ asked'[k] + Cardinality(Prepaid(k)') <= causes'[k] + Credit(k)'
    <2>1. asked'[k] = asked[k] /\ asked'[k] \in Nat /\ causes'[k] \in Nat
      BY <1>1, <1>2 DEF CachedTypeOK
    <2>2. Prepaid(k)' = Prepaid(k) \ {c}
      BY <1>1, <1>2 DEF Prepaid
    <2>3. CASE k = key[c] /\ ClientFails(c) /\ ~cancelled[c]
      <3>1. causes'[k] = causes[k] + 1 /\ closure[c] = "calling"
        BY <1>2, <2>3 DEF ClientFails
      <3>2. c \notin Prepaid(k)
        BY <3>1 DEF Prepaid
      <3>3. Prepaid(k)' = Prepaid(k) \cup {c} => c \in Prepaid(k)'
        OBVIOUS
      <3> QED
        BY <2>1, <2>2, <3>1, <3>2, <3>3, BalanceKept
    <2>6. CASE k = key[c] /\ ClientFails(c) /\ cancelled[c]
      <3>1. causes'[k] = causes[k] /\ store' = store
        BY <2>6 DEF ClientFails, cacheVars
      <3>2. InHand(k) => InHand(k)'
        BY <1>1, <1>2, <2>6, <3>1 DEF InHand
      <3> QED
        BY <2>1, <2>2, <3>1, <3>2, BalanceKept
    <2>4. CASE k = key[c] /\ ~ClientFails(c)
      <3>1. causes'[k] = causes[k] /\ InHand(k)'
        <4>1. CASE SecondHit(c)
          BY <2>4, <4>1 DEF SecondHit, InHand, cacheVars, historyVars
        <4>2. CASE Fill(c)
          <5>1. loaded[c] # None
            BY <4>2, ValuesAreResults DEF Fill, UInv, CInv, AnsweredHasValue
          <5> QED
            BY <1>2, <2>4, <4>2, <5>1 DEF Fill, InHand, historyVars
        <4> QED
          BY <2>4, <4>1, <4>2
      <3> QED
        BY <2>1, <2>2, <3>1, BalanceKept
    <2>5. CASE k # key[c]
      <3>1. store'[k] = store[k] /\ causes'[k] = causes[k]
        BY <1>2, <2>5 DEF SecondHit, ClientFails, Fill, cacheVars, historyVars
      <3>2. InHand(k) => InHand(k)'
        BY <1>1, <1>2, <2>5, <3>1 DEF InHand
      <3> QED
        BY <2>1, <2>2, <3>1, <3>2, BalanceKept
    <2> QED
      BY <2>3, <2>4, <2>5, <2>6
  <1> QED
    BY <1>3, <1>4 DEF CallsHaveCause, Credit

LEMMA OthersKeepBalance ==
    ASSUME UInv, CachedTypeOK',
           \/ \E c \in Requests : PublishLoad(c) \/ \E v \in Values : ClientAnswers(c, v)
           \/ \E k \in Keys : EntryLost(k)
           \/ UNCHANGED cachedVars
    PROVE  ClosureInStep' /\ CallsHaveCause'
  <1>1. /\ closure \in [Requests -> {"none", "check", "calling", "answered", "over"}]
        /\ stage \in [Requests -> Stages] /\ cancelled \in [Requests -> BOOLEAN]
        /\ causes \in [Keys -> Nat] /\ asked \in [Keys -> Nat]
        /\ store \in [Keys -> Values \cup {None}]
    BY DEF UInv, CInv, CachedTypeOK, TypeOK
  <1>2. ASSUME NEW c \in Requests, PublishLoad(c)
        PROVE  ClosureInStep' /\ CallsHaveCause'
    <2>1. /\ UNCHANGED <<key, store, asked, causes, closure>>
          /\ cancelled' = [cancelled EXCEPT ![c] = TRUE]
          /\ stage[c] = "returned" /\ stage' = [stage EXCEPT ![c] = "completed"]
      BY <1>2 DEF PublishLoad, Finish, requestVars, cacheVars, closureVars, historyVars
    <2>2. closure[c] = "over"
      BY <1>1, <2>1 DEF UInv, ClosureInStep
    <2>3. ClosureInStep'
      BY <1>1, <2>1 DEF UInv, ClosureInStep
    <2> QED
      BY <1>1, <2>1, <2>2, <2>3, Balanced
  <1>3. ASSUME NEW c \in Requests, NEW v \in Values, ClientAnswers(c, v)
        PROVE  ClosureInStep' /\ CallsHaveCause'
    <2>1. /\ UNCHANGED <<key, store, asked, causes, cancelled, stage>>
          /\ closure[c] = "calling" /\ closure' = [closure EXCEPT ![c] = "answered"]
      BY <1>3 DEF ClientAnswers, vars, requestVars, callVars, loadVars, cacheVars, historyVars
    <2>2. ClosureInStep'
      BY <1>1, <2>1 DEF UInv, ClosureInStep
    <2> QED
      BY <1>1, <2>1, <2>2, Balanced
  <1>4. ASSUME NEW l \in Keys, EntryLost(l)
        PROVE  ClosureInStep' /\ CallsHaveCause'
    <2>1. /\ UNCHANGED <<key, asked, closure, cancelled, stage>>
          /\ store' = [store EXCEPT ![l] = None]
          /\ causes' = [causes EXCEPT ![l] = causes[l] + 1]
      BY <1>4 DEF EntryLost, vars, requestVars, callVars, loadVars, closureVars
    <2>2. ClosureInStep'
      BY <2>1 DEF UInv, ClosureInStep
    <2>3. ASSUME NEW k \in Keys
          PROVE  /\ IsFiniteSet(Prepaid(k)')
                 /\ asked'[k] + Cardinality(Prepaid(k)') <= causes'[k] + Credit(k)'
      <3>1. asked'[k] = asked[k] /\ asked'[k] \in Nat /\ causes'[k] \in Nat
        BY <1>1, <2>1
      <3>2. Prepaid(k)' = Prepaid(k)
        BY <2>1 DEF Prepaid
      <3>3. CASE k = l
        <4>1. Prepaid(k)' # Prepaid(k) \cup {None}
          BY <3>2, NoneAssumption DEF Prepaid
        <4>2. causes'[k] = causes[k] + 1
          BY <1>1, <2>1, <3>3
        <4> QED
          BY <3>1, <3>2, <4>1, <4>2, BalanceKept
      <3>4. CASE k # l
        <4>1. causes'[k] = causes[k] /\ (InHand(k) => InHand(k)')
          BY <1>1, <2>1, <3>4 DEF InHand
        <4> QED
          BY <1>1, <3>1, <3>2, <4>1, BalanceKept
      <3> QED
        BY <3>3, <3>4
    <2> QED
      BY <2>2, <2>3 DEF CallsHaveCause, Credit
  <1>5. CASE UNCHANGED cachedVars
    <2>1. UNCHANGED <<key, store, asked, causes, closure, cancelled, stage>>
      BY <1>5 DEF cachedVars, vars, requestVars, callVars, loadVars, cacheVars, closureVars,
         historyVars
    <2>2. ClosureInStep'
      BY <2>1 DEF UInv, ClosureInStep
    <2> QED
      BY <2>1, <2>2, Balanced
  <1> QED
    BY <1>2, <1>3, <1>4, <1>5

LEMMA BalanceInit == CachedInit => UInv
  <1> SUFFICES ASSUME CachedInit PROVE UInv
    OBVIOUS
  <1>1. CInv
    BY CachedInitEstablishes
  <1>2. ClosureInStep
    BY DEF CachedInit, Init, ClosureInStep
  <1>3. ASSUME NEW k \in Keys
        PROVE  Prepaid(k) = {} /\ asked[k] = 0 /\ causes[k] = 0
    BY DEF CachedInit, Prepaid
  <1>4. CallsHaveCause
    BY <1>3, FS_EmptySet DEF CallsHaveCause, Credit
  <1> QED
    BY <1>1, <1>2, <1>4 DEF UInv

LEMMA BalanceStep == UInv /\ [CachedNext]_cachedVars => UInv'
  <1> SUFFICES ASSUME UInv, [CachedNext]_cachedVars PROVE UInv'
    OBVIOUS
  <1>1. CInv' /\ CachedTypeOK'
    BY CachedStepPreserves DEF UInv, CInv
  <1>2. ClosureInStep' /\ CallsHaveCause'
    BY <1>1, RequestsKeepBalance, LeavingKeepsBalance, CallKeepsBalance, ReturnKeepsBalance,
       OthersKeepBalance DEF CachedNext
  <1> QED
    BY <1>1, <1>2 DEF UInv

\* Every call of the upstream but the first for a key has a cause of its own:
\* concurrent misses never double a call.
THEOREM CallsAreCaused == CachedSpec => []UpstreamAskedOnlyWithCause
  <1>1. UInv => UpstreamAskedOnlyWithCause
    <2> SUFFICES ASSUME UInv, NEW k \in Keys PROVE asked[k] <= 1 + causes[k]
      BY DEF UpstreamAskedOnlyWithCause
    <2>1. Cardinality(Prepaid(k)) \in Nat /\ Credit(k) \in {0, 1}
      BY FS_CardinalityType DEF UInv, CallsHaveCause, Credit
    <2> QED
      BY <2>1 DEF UInv, CallsHaveCause, CInv, CachedTypeOK
  <1> QED
    BY <1>1, BalanceInit, BalanceStep, PTL DEF CachedSpec

------------------------------------------------------------------------------
(* The retry inside a shared load                                            *)

RetryTypeOK ==
    /\ refusal \in [Requests -> WaitEnds \cup {None}]
    /\ witnesses \in [Requests -> Nat]

\* Whoever of the requests attached to a call that was refused a retry could
\* have used it came after the decision; ids are given out in order.
PresentCouldNot ==
    \A c \in Requests : stage[c] \in {"returned", "completed"} /\ result[c] = Refused =>
        /\ witnesses[c] <= nextWaiterID[c]
        /\ \A r \in Attached(c) : CouldUse(r, refusal[c]) => wid[r] > witnesses[c]

\* A refusal that was handed out was decided before.
RefusedIsOver ==
    \A r \in Requests : outcome[r] = Refused =>
        joined[r] \in Requests /\ stage[joined[r]] = "completed" /\ pc[r] = "returned"

RInv ==
    /\ IInv
    /\ RetryTypeOK
    /\ PresentCouldNot
    /\ RefusedIsOver
    /\ RefusalConcernsThePresent

------------------------------------------------------------------------------
(* The coalescer underneath                                                  *)

\* Every step of the retry loop is a step of the coalescer or leaves it alone.
LEMMA RetryRefines == [RetryNext]_allVars => [Next]_vars
  BY RetryAssumption
  DEF RetryNext, Refuse, Retry, Conclude, Share, BaseEnds, Next, LoadStep, allVars

LEMMA BookkeepingKept == RInv /\ [RetryNext]_allVars => IInv'
  BY RetryRefines, StepPreserves DEF RInv

------------------------------------------------------------------------------
(* The steps                                                                 *)

\* What a step that refuses nothing has to respect.
LEMMA Framed ==
    ASSUME RInv, UNCHANGED <<budget, refusal, witnesses>>,
           \A c \in Requests : nextWaiterID'[c] >= nextWaiterID[c],
           \A c \in Requests :
               stage'[c] \in {"returned", "completed"} /\ result'[c] = Refused =>
                   /\ stage[c] \in {"returned", "completed"} /\ result[c] = Refused
                   /\ \A r \in Attached(c)' :
                         \/ r \in Attached(c) /\ wid'[r] = wid[r]
                         \/ wid'[r] > nextWaiterID[c],
           nextWaiterID' \in [Requests -> Nat], wid' \in [Requests -> Nat]
    PROVE  RetryTypeOK' /\ PresentCouldNot'
  <1>1. RetryTypeOK'
    BY DEF RInv, RetryTypeOK
  <1>2. ASSUME NEW c \in Requests,
               stage'[c] \in {"returned", "completed"}, result'[c] = Refused
        PROVE  /\ witnesses'[c] <= nextWaiterID'[c]
               /\ \A r \in Attached(c)' : CouldUse(r, refusal[c])' => wid'[r] > witnesses'[c]
    <2>1. stage[c] \in {"returned", "completed"} /\ result[c] = Refused
      BY <1>2
    <2>2. /\ witnesses[c] <= nextWaiterID[c]
          /\ \A r \in Attached(c) : CouldUse(r, refusal[c]) => wid[r] > witnesses[c]
      BY <2>1 DEF RInv, PresentCouldNot
    <2>3. /\ witnesses[c] \in Nat /\ nextWaiterID[c] \in Nat /\ nextWaiterID'[c] \in Nat
          /\ nextWaiterID'[c] >= nextWaiterID[c]
      BY DEF RInv, RetryTypeOK, IInv, TypeOK
    <2>4. ASSUME NEW r \in Attached(c)', CouldUse(r, refusal[c])'
          PROVE  wid'[r] > witnesses'[c]
      <3>1. CASE r \in Attached(c) /\ wid'[r] = wid[r]
        BY <2>2, <2>4, <3>1 DEF CouldUse
      <3>2. CASE wid'[r] > nextWaiterID[c]
        <4>1. wid'[r] \in Nat
          BY DEF Attached
        <4> QED
          BY <2>2, <2>3, <3>2, <4>1
      <3> QED
        BY <1>2, <2>4, <3>1, <3>2
    <2> QED
      BY <2>2, <2>3, <2>4
  <1>3. PresentCouldNot'
    BY <1>2 DEF PresentCouldNot
  <1> QED
    BY <1>1, <1>3

\* A reply that was given before the step keeps what is said of it.
LEMMA RepliesFramed ==
    ASSUME RInv, UNCHANGED budget,
           \A c \in Requests : stage[c] = "completed" =>
               /\ stage'[c] = "completed"
               /\ refusal'[c] = refusal[c] /\ witnesses'[c] = witnesses[c],
           \A r \in Requests : outcome'[r] = Refused =>
               /\ outcome[r] = Refused /\ pc'[r] = pc[r]
               /\ joined'[r] = joined[r] /\ wid'[r] = wid[r]
    PROVE  RefusedIsOver' /\ RefusalConcernsThePresent'
  BY DEF RInv, RefusedIsOver, RefusalConcernsThePresent, CouldUse

\* The refusal: nobody present could have used the wait.
LEMMA RefusePreserves ==
    ASSUME RInv, NEW c \in Requests, NEW t \in WaitEnds, Refuse(c, t)
    PROVE  RInv'
  <1>1. IInv'
    BY BookkeepingKept DEF RetryNext
  <1>2. t \in Nat /\ stage[c] = "loading" /\ Unfinished(c)
    BY RetryAssumption DEF Refuse, RetryDue, Unfinished
  <1>3. \A r \in Attached(c) : ~CouldUse(r, t)
    BY <1>2, BudgetAdmits DEF RInv, Refuse, CouldUse
  <1>4. /\ UNCHANGED <<budget, nextWaiterID, wid, pc, joined, outcome>>
        /\ stage' = [stage EXCEPT ![c] = "returned"]
        /\ result' = [result EXCEPT ![c] = Refused]
        /\ refusal' = [refusal EXCEPT ![c] = t]
        /\ witnesses' = [witnesses EXCEPT ![c] = nextWaiterID[c]]
    BY DEF Refuse, LoadReturns, requestVars, callVars
  <1>5. /\ stage \in [Requests -> Stages] /\ result \in [Requests -> Results \cup {None}]
        /\ refusal \in [Requests -> WaitEnds \cup {None}]
        /\ witnesses \in [Requests -> Nat] /\ nextWaiterID \in [Requests -> Nat]
    BY DEF RInv, RetryTypeOK, IInv, TypeOK
  <1>6. RetryTypeOK'
    BY <1>4, <1>5 DEF RetryTypeOK
  <1>7. PresentCouldNot'
    <2> SUFFICES ASSUME NEW d \in Requests,
                        stage'[d] \in {"returned", "completed"}, result'[d] = Refused
                 PROVE  /\ witnesses'[d] <= nextWaiterID[d]
                        /\ \A r \in Attached(d) :
                              CouldUse(r, refusal'[d]) => wid[r] > witnesses'[d]
      BY <1>4 DEF PresentCouldNot, Attached, CouldUse
    <2>1. CASE d = c
      BY <1>3, <1>4, <1>5, <2>1
    <2>2. CASE d # c
      BY <1>4, <1>5, <2>2 DEF RInv, PresentCouldNot
    <2> QED
      BY <2>1, <2>2
  <1>8. RefusedIsOver' /\ RefusalConcernsThePresent'
    BY <1>2, <1>4, <1>5, RepliesFramed
  <1> QED
    BY <1>1, <1>6, <1>7, <1>8 DEF RInv

\* A load that ends with anything else.
LEMMA ConcludePreserves ==
    ASSUME RInv, NEW c \in Requests, Conclude(c)
    PROVE  RInv'
  <1>1. IInv'
    BY BookkeepingKept DEF RetryNext
  <1>2. /\ UNCHANGED <<budget, nextWaiterID, wid, pc, joined, outcome, refusal, witnesses>>
        /\ stage[c] = "loading"
        /\ stage' = [stage EXCEPT ![c] = "returned"]
        /\ result' = [result EXCEPT ![c] = Answer]
        /\ Answer # Refused
    BY RetryAssumption DEF Conclude, LoadReturns, requestVars, callVars, retryVars
  <1>3. /\ stage \in [Requests -> Stages] /\ result \in [Requests -> Results \cup {None}]
        /\ nextWaiterID \in [Requests -> Nat] /\ wid \in [Requests -> Nat]
    BY DEF RInv, IInv, TypeOK
  <1>4. \A d \in Requests : Attached(d)' = Attached(d)
    BY <1>2 DEF Attached
  <1>5. RetryTypeOK' /\ PresentCouldNot'
    BY <1>2, <1>3, <1>4, Framed
  <1>6. RefusedIsOver' /\ RefusalConcernsThePresent'
    BY <1>2, <1>3, RepliesFramed
  <1> QED
    BY <1>1, <1>5, <1>6 DEF RInv

\* A request that joins gets an id beyond all that were given out.
LEMMA AttachPreserves ==
    ASSUME RInv, NEW r \in Requests, Share(r), Join(r) \/ Start(r)
    PROVE  RInv'
  <1>1. IInv'
    BY BookkeepingKept DEF RetryNext
  <1>2. PICK c \in Requests :
            /\ AddWaiter(c, r)
            /\ joined' = [joined EXCEPT ![r] = c]
            /\ \/ UNCHANGED stage
               \/ /\ stage[c] \notin {"returned", "completed"}
                  /\ stage' = [stage EXCEPT ![c] = "loading"]
    <2>1. CASE Join(r)
      <3>1. calls[key[r]] \in Requests
        BY <2>1 DEF Join, RInv, IInv, TypeOK
      <3> QED
        BY <2>1, <3>1 DEF Join, loadVars
    <2>2. CASE Start(r)
      <3>1. stage[r] = "none"
        BY <2>2 DEF Start, RInv, IInv, TypeOK, CallHasOwner
      <3> QED
        BY <2>2, <3>1 DEF Start
    <2> QED
      BY <2>1, <2>2
  <1>3. /\ UNCHANGED <<budget, outcome, result, refusal, witnesses>>
        /\ pc' = [pc EXCEPT ![r] = "waiting"] /\ pc[r] = "checked"
    BY DEF Share, Join, Start, loadVars, retryVars
  <1>4. /\ stage \in [Requests -> Stages]
        /\ pc \in [Requests -> {"idle", "checked", "waiting", "leaving", "returned"}]
        /\ joined \in [Requests -> Requests \cup {None}]
        /\ nextWaiterID \in [Requests -> Nat] /\ wid \in [Requests -> Nat]
        /\ nextWaiterID' \in [Requests -> Nat] /\ wid' \in [Requests -> Nat]
    BY <1>1 DEF RInv, IInv, TypeOK
  <1>5. /\ nextWaiterID' = [nextWaiterID EXCEPT ![c] = nextWaiterID[c] + 1]
        /\ wid' = [wid EXCEPT ![r] = nextWaiterID[c] + 1]
    BY <1>2 DEF AddWaiter
  <1>6. \A d \in Requests : nextWaiterID'[d] >= nextWaiterID[d]
    BY <1>4, <1>5
  <1>7. ASSUME NEW d \in Requests, NEW s \in Attached(d)'
        PROVE  \/ s \in Attached(d) /\ wid'[s] = wid[s]
               \/ wid'[s] > nextWaiterID[d]
    BY <1>2, <1>3, <1>4, <1>5 DEF Attached
  <1>8. RetryTypeOK' /\ PresentCouldNot'
    BY <1>2, <1>3, <1>4, <1>6, <1>7, Framed
  <1>9. outcome[r] # Refused
    BY <1>3 DEF RInv, RefusedIsOver
  <1>10. RefusedIsOver' /\ RefusalConcernsThePresent'
    BY <1>2, <1>3, <1>4, <1>5, <1>9, RepliesFramed
  <1> QED
    BY <1>1, <1>8, <1>10 DEF RInv

\* The other steps of a request, of run and of contexts that give nobody a
\* result.
LEMMA OtherPreserves ==
    ASSUME RInv, NEW r \in Requests,
           \/ Share(r) /\ (Enter(r) \/ ObserveCancel(r) \/ Detach(r) \/ Finish(r) \/ CtxExpires(r))
           \/ BaseEnds
           \/ \E t \in WaitEnds : Retry(r, t)
           \/ UNCHANGED allVars
    PROVE  RInv'
  <1>1. IInv'
    BY BookkeepingKept DEF RetryNext, Share
  <1>2. UNCHANGED <<budget, wid, joined, result, refusal, witnesses, nextWaiterID>>
    BY DEF Share, Enter, ObserveCancel, Detach, RemoveWaiter, Finish, CtxExpires, BaseEnds,
       BaseCancelled, Retry, requestVars, callVars, loadVars, retryVars, allVars, vars
  <1>3. /\ stage \in [Requests -> Stages] /\ joined \in [Requests -> Requests \cup {None}]
        /\ pc \in [Requests -> {"idle", "checked", "waiting", "leaving", "returned"}]
        /\ outcome \in [Requests -> Results \cup {None, "cancelled"}]
        /\ nextWaiterID \in [Requests -> Nat] /\ wid \in [Requests -> Nat]
        /\ Refused \in Results /\ Refused # "cancelled"
    BY RetryAssumption, CancelledAssumption DEF RInv, IInv, TypeOK
  <1>4. \/ UNCHANGED stage
        \/ stage[r] = "returned" /\ stage' = [stage EXCEPT ![r] = "completed"]
    <2>1. CASE Share(r) /\ Finish(r)
      BY <2>1 DEF Finish
    <2>2. CASE Share(r) /\ (Enter(r) \/ ObserveCancel(r) \/ Detach(r) \/ CtxExpires(r))
      BY <2>2 DEF Enter, ObserveCancel, Detach, CtxExpires, loadVars
    <2>3. CASE BaseEnds \/ (\E t \in WaitEnds : Retry(r, t)) \/ UNCHANGED allVars
      BY <2>3 DEF BaseEnds, BaseCancelled, Retry, loadVars, allVars, vars
    <2> QED
      BY <2>1, <2>2, <2>3
  <1>5. \/ UNCHANGED <<pc, outcome>>
        \/ pc[r] = "idle" /\ (\E p \in {"checked", "returned"} : pc' = [pc EXCEPT ![r] = p])
           /\ (UNCHANGED outcome \/ outcome' = [outcome EXCEPT ![r] = "cancelled"])
        \/ pc[r] = "waiting" /\ pc' = [pc EXCEPT ![r] = "leaving"] /\ UNCHANGED outcome
        \/ pc[r] = "leaving" /\ pc' = [pc EXCEPT ![r] = "returned"]
           /\ outcome' = [outcome EXCEPT ![r] = "cancelled"]
    BY DEF Share, Enter, ObserveCancel, Detach, Finish, CtxExpires, BaseEnds,
       BaseCancelled, Retry, requestVars, allVars, vars
  <1>6. \A d \in Requests : Attached(d)' \subseteq Attached(d)
    BY <1>2, <1>3, <1>5 DEF Attached
  <1>7. RetryTypeOK' /\ PresentCouldNot'
    BY <1>2, <1>3, <1>4, <1>6, Framed
  <1>8. \A s \in Requests : outcome'[s] = Refused => outcome[s] = Refused /\ pc'[s] = pc[s]
    BY <1>3, <1>5 DEF RInv, RefusedIsOver
  <1>9. RefusedIsOver' /\ RefusalConcernsThePresent'
    BY <1>2, <1>3, <1>4, <1>8, RepliesFramed
  <1> QED
    BY <1>1, <1>7, <1>9 DEF RInv

\* The result of the call is handed out.
LEMMA ReturnPreserves ==
    ASSUME RInv, NEW r \in Requests, Share(r), ReturnResult(r)
    PROVE  RInv'
  <1>1. IInv'
    BY BookkeepingKept DEF RetryNext
  <1>2. /\ UNCHANGED <<budget, wid, joined, stage, result, refusal, witnesses, nextWaiterID>>
        /\ pc[r] = "waiting" /\ stage[joined[r]] = "completed"
        /\ pc' = [pc EXCEPT ![r] = "returned"]
        /\ outcome' = [outcome EXCEPT ![r] = result[joined[r]]]
    BY DEF Share, ReturnResult, callVars, loadVars, retryVars
  <1>3. /\ pc \in [Requests -> {"idle", "checked", "waiting", "leaving", "returned"}]
        /\ outcome \in [Requests -> Results \cup {None, "cancelled"}]
        /\ nextWaiterID \in [Requests -> Nat] /\ wid \in [Requests -> Nat]
    BY DEF RInv, IInv, TypeOK
  <1>4. joined[r] \in Requests /\ r \in Attached(joined[r])
    BY <1>2 DEF RInv, IInv, AttachedToCall, Attached
  <1>5. \A d \in Requests : Attached(d)' \subseteq Attached(d)
    BY <1>2, <1>3 DEF Attached
  <1>6. RetryTypeOK' /\ PresentCouldNot'
    BY <1>2, <1>3, <1>5, Framed
  <1>7. ASSUME NEW s \in Requests, outcome'[s] = Refused
        PROVE  /\ joined[s] \in Requests /\ stage[joined[s]] = "completed" /\ pc'[s] = "returned"
               /\ CouldUse(s, refusal[joined[s]]) => wid[s] > witnesses[joined[s]]
    <2>1. CASE s = r
      <3>1. result[joined[r]] = Refused
        BY <1>2, <1>3, <1>7, <2>1
      <3> QED
        BY <1>2, <1>3, <1>4, <2>1, <3>1 DEF RInv, PresentCouldNot
    <2>2. CASE s # r
      <3>1. outcome[s] = Refused /\ pc'[s] = pc[s]
        BY <1>2, <1>3, <1>7, <2>2
      <3> QED
        BY <3>1 DEF RInv, RefusedIsOver, RefusalConcernsThePresent
    <2> QED
      BY <2>1, <2>2
  <1>8. RefusedIsOver' /\ RefusalConcernsThePresent'
    BY <1>2, <1>7 DEF RefusedIsOver, RefusalConcernsThePresent, CouldUse
  <1> QED
    BY <1>1, <1>6, <1>8 DEF RInv

LEMMA RetryInitEstablishes == RetryInit => RInv
  <1> SUFFICES ASSUME RetryInit PROVE RInv
    OBVIOUS
  <1>1. IInv
    BY InitEstablishes DEF RetryInit
  <1>2. RetryTypeOK
    BY DEF RetryInit, RetryTypeOK
  <1>3. PresentCouldNot /\ RefusedIsOver /\ RefusalConcernsThePresent
    BY RetryAssumption, NoneAssumption
    DEF RetryInit, Init, PresentCouldNot, RefusedIsOver, RefusalConcernsThePresent
  <1> QED
    BY <1>1, <1>2, <1>3 DEF RInv

LEMMA RetryStepPreserves == RInv /\ [RetryNext]_allVars => RInv'
  <1> SUFFICES ASSUME RInv, [RetryNext]_allVars PROVE RInv'
    OBVIOUS
  <1>1. ASSUME NEW c \in Requests, NEW t \in WaitEnds, Refuse(c, t) PROVE RInv'
    BY <1>1, RefusePreserves
  <1>2. ASSUME NEW c \in Requests, Conclude(c) PROVE RInv'
    BY <1>2, ConcludePreserves
  <1>3. ASSUME NEW r \in Requests, Share(r) PROVE RInv'
    BY <1>3, AttachPreserves, ReturnPreserves, OtherPreserves DEF Share, RequestStep
  <1>4. ASSUME NEW c \in Requests, NEW t \in WaitEnds, Retry(c, t) PROVE RInv'
    BY <1>4, OtherPreserves
  <1>5. CASE BaseEnds \/ UNCHANGED allVars
    <2>1. CASE \E r \in Requests : TRUE
      BY <1>5, <2>1, OtherPreserves
    <2>2. CASE Requests = {}
      <3>1. IInv' /\ UNCHANGED <<refusal, witnesses>>
        BY <1>5, BookkeepingKept DEF RetryNext, BaseEnds, retryVars, allVars
      <3> QED
        BY <2>2, <3>1 DEF RInv, RetryTypeOK, PresentCouldNot, RefusedIsOver,
           RefusalConcernsThePresent
    <2> QED
      BY <2>1, <2>2
  <1> QED
    BY <1>1, <1>2, <1>3, <1>4, <1>5 DEF RetryNext

LEMMA RetryInductive == RetrySpec => []RInv
  BY RetryInitEstablishes, RetryStepPreserves, PTL DEF RetrySpec

------------------------------------------------------------------------------
(* The theorems                                                              *)

\* Nobody who was there when a retry was refused could have used it; only a
\* request that came afterwards may inherit a refusal it had the time for.
THEOREM RefusalsConcernThePresent == RetrySpec => []RefusalConcernsThePresent
  <1>1. RInv => RefusalConcernsThePresent
    BY DEF RInv
  <1> QED
    BY <1>1, RetryInductive, PTL
==============================================================================
