--------------------------- MODULE CoalescerProofs ---------------------------
(****************************************************************************)
(* Proofs about the coalescer, for any number of requests, keys, results and *)
(* deadlines.                                                                *)
(****************************************************************************)
EXTENDS CoalescerRefinement, FiniteSetTheorems, WellFoundedInduction, TLAPS

\* The waiter ids of a call are finitely many: they are bounded by
\* nextWaiterID.
LEMMA BudgetsFinite ==
    ASSUME TypeOK, NEW c \in Requests
    PROVE  IsFiniteSet(DOMAIN budgets[c])
  <1>1. /\ nextWaiterID[c] \in Nat
        /\ DOMAIN budgets[c] \in SUBSET Nat
        /\ \A i \in DOMAIN budgets[c] : i <= nextWaiterID[c]
    BY DEF TypeOK
  <1> HIDE DEF TypeOK
  <1> QED
    BY <1>1, FS_BoundedSetOfNaturals, Zenon

\* addWaiter adds one entry under an unused id and counts it.
LEMMA AddWaiterCounts ==
    ASSUME TypeOK, NEW c \in Requests, NEW r \in Requests, AddWaiter(c, r),
           waiters[c] = Cardinality(DOMAIN budgets[c])
    PROVE  /\ wid'[r] \notin DOMAIN budgets[c]
           /\ DOMAIN budgets'[c] = DOMAIN budgets[c] \cup {wid'[r]}
           /\ waiters'[c] = Cardinality(DOMAIN budgets'[c])
  <1>1. wid'[r] = nextWaiterID[c] + 1
    BY DEF AddWaiter, TypeOK
  <1>2. wid'[r] \notin DOMAIN budgets[c]
    BY <1>1 DEF TypeOK
  <1>3. DOMAIN budgets'[c] = DOMAIN budgets[c] \cup {wid'[r]}
    BY <1>1 DEF AddWaiter, TypeOK
  <1>4. waiters'[c] = Cardinality(DOMAIN budgets[c]) + 1
    BY DEF AddWaiter, TypeOK
  <1>5. IsFiniteSet(DOMAIN budgets[c])
    BY BudgetsFinite
  <1>6. Cardinality(DOMAIN budgets[c] \cup {wid'[r]}) = Cardinality(DOMAIN budgets[c]) + 1
    BY <1>2, <1>5, FS_AddElement, Zenon
  <1> QED
    BY <1>2, <1>3, <1>4, <1>6

\* The bookkeeping invariants that only speak of call fields survive a step
\* that leaves these fields and the attached requests alone.
LEMMA BookkeepingFramed ==
    ASSUME WaitersMatchBudgets, FreshCallIsEmpty, CancelledExactlyWhenUnwanted,
           UNCHANGED <<key, budget, joined, wid, waiters, nextWaiterID, budgets>>,
           \A c \in Requests : Unfinished(c)' => Unfinished(c) /\ cancelled'[c] = cancelled[c],
           \A c \in Requests : stage'[c] = "none" => stage[c] = "none" /\ cancelled'[c] = cancelled[c],
           \A c \in Requests : Unfinished(c) => Attached(c)' = Attached(c)
    PROVE  /\ WaitersMatchBudgets'
           /\ FreshCallIsEmpty'
           /\ CancelledExactlyWhenUnwanted'
  <1>1. WaitersMatchBudgets'
    BY DEF WaitersMatchBudgets
  <1>2. FreshCallIsEmpty'
    BY DEF FreshCallIsEmpty
  <1>3. CancelledExactlyWhenUnwanted'
    BY DEF CancelledExactlyWhenUnwanted
  <1> QED
    BY <1>1, <1>2, <1>3

LEMMA EnterPreserves ==
    ASSUME IInv, NEW r \in Requests, Enter(r)
    PROVE  IInv'
  <1>1. TypeOK'
    BY DEF IInv, TypeOK, Enter, callVars, loadVars, ctxVars
  <1>2. \A c \in Requests : Attached(c)' = Attached(c)
    BY DEF IInv, TypeOK, Enter, Attached
  <1>3. AttachedToCall' /\ CallHasOwner' /\ MapIndexesLiveLoads'
    BY DEF IInv, TypeOK, AttachedToCall, CallHasOwner, MapIndexesLiveLoads,
           Unfinished, Enter, callVars, loadVars
  <1>4. /\ WaitersMatchBudgets'
        /\ FreshCallIsEmpty'
        /\ CancelledExactlyWhenUnwanted'
    BY <1>2, BookkeepingFramed DEF IInv, Enter, callVars, loadVars, Unfinished
  <1> QED
    BY <1>1, <1>3, <1>4 DEF IInv

LEMMA ReturnResultPreserves ==
    ASSUME IInv, NEW r \in Requests, ReturnResult(r)
    PROVE  IInv'
  <1>1. TypeOK'
    BY DEF IInv, TypeOK, AttachedToCall, ReturnResult, callVars, loadVars, ctxVars
  <1>2. \A c \in Requests : Unfinished(c) => Attached(c)' = Attached(c)
    BY DEF IInv, TypeOK, ReturnResult, Attached, Unfinished
  <1>3. AttachedToCall' /\ CallHasOwner' /\ MapIndexesLiveLoads'
    BY DEF IInv, TypeOK, AttachedToCall, CallHasOwner, MapIndexesLiveLoads,
           Unfinished, ReturnResult, callVars, loadVars
  <1>4. /\ WaitersMatchBudgets'
        /\ FreshCallIsEmpty'
        /\ CancelledExactlyWhenUnwanted'
    BY <1>2, BookkeepingFramed DEF IInv, ReturnResult, callVars, loadVars, Unfinished
  <1> QED
    BY <1>1, <1>3, <1>4 DEF IInv

LEMMA ObserveCancelPreserves ==
    ASSUME IInv, NEW r \in Requests, ObserveCancel(r)
    PROVE  IInv'
  <1>1. TypeOK'
    BY DEF IInv, TypeOK, ObserveCancel, callVars, loadVars, ctxVars
  <1>2. \A c \in Requests : Attached(c)' = Attached(c)
    BY DEF IInv, TypeOK, ObserveCancel, Attached
  <1>3. AttachedToCall' /\ CallHasOwner' /\ MapIndexesLiveLoads'
    BY DEF IInv, TypeOK, AttachedToCall, CallHasOwner, MapIndexesLiveLoads,
           Unfinished, ObserveCancel, callVars, loadVars
  <1>4. /\ WaitersMatchBudgets'
        /\ FreshCallIsEmpty'
        /\ CancelledExactlyWhenUnwanted'
    BY <1>2, BookkeepingFramed DEF IInv, ObserveCancel, callVars, loadVars, Unfinished
  <1> QED
    BY <1>1, <1>3, <1>4 DEF IInv

LEMMA LoadReturnsPreserves ==
    ASSUME IInv, NEW c \in Requests, NEW v \in Results, LoadReturns(c, v)
    PROVE  IInv'
  <1>1. TypeOK'
    BY DEF IInv, TypeOK, LoadReturns, Stages, requestVars, callVars, ctxVars
  <1>2. \A d \in Requests : Attached(d)' = Attached(d)
    BY DEF LoadReturns, requestVars, Attached
  <1>3. \A d \in Requests : Unfinished(d)' <=> Unfinished(d)
    BY DEF IInv, TypeOK, LoadReturns, Unfinished
  <1>4. AttachedToCall' /\ CallHasOwner'
    BY DEF IInv, TypeOK, AttachedToCall, CallHasOwner, LoadReturns, requestVars
  <1>5. MapIndexesLiveLoads'
    BY <1>3 DEF IInv, MapIndexesLiveLoads, LoadReturns, requestVars, callVars
  <1>6. /\ WaitersMatchBudgets'
        /\ FreshCallIsEmpty'
        /\ CancelledExactlyWhenUnwanted'
    <2>1. \A d \in Requests : stage'[d] = "none" => stage[d] = "none"
      BY DEF IInv, TypeOK, LoadReturns
    <2> QED
      BY <1>2, <1>3, <2>1, BookkeepingFramed
      DEF IInv, LoadReturns, requestVars, callVars
  <1> QED
    BY <1>1, <1>4, <1>5, <1>6 DEF IInv

LEMMA FinishPreserves ==
    ASSUME IInv, NEW c \in Requests, Finish(c)
    PROVE  IInv'
  <1>1. TypeOK'
    BY NoneAssumption DEF IInv, TypeOK, Finish, Stages, requestVars, ctxVars
  <1>2. \A d \in Requests : Attached(d)' = Attached(d)
    BY DEF Finish, requestVars, Attached
  <1>3. \A d \in Requests : Unfinished(d)' <=> Unfinished(d) /\ d # c
    BY DEF IInv, TypeOK, Finish, Unfinished
  <1>4. AttachedToCall' /\ CallHasOwner'
    BY DEF IInv, TypeOK, AttachedToCall, CallHasOwner, Finish, requestVars
  <1>5. MapIndexesLiveLoads'
    BY <1>3, NoneAssumption
    DEF IInv, TypeOK, MapIndexesLiveLoads, Finish, requestVars
  <1>6. /\ WaitersMatchBudgets'
        /\ FreshCallIsEmpty'
        /\ CancelledExactlyWhenUnwanted'
    <2>1. \A d \in Requests : Unfinished(d)' => cancelled'[d] = cancelled[d]
      BY <1>3 DEF IInv, TypeOK, Finish
    <2>2. \A d \in Requests :
             stage'[d] = "none" => stage[d] = "none" /\ cancelled'[d] = cancelled[d]
      BY DEF IInv, TypeOK, Finish
    <2> QED
      BY <1>2, <1>3, <2>1, <2>2, BookkeepingFramed DEF IInv, Finish, requestVars
  <1> QED
    BY <1>1, <1>4, <1>5, <1>6 DEF IInv

\* Joining adds the request to the call the map holds for its key.
LEMMA JoinPreserves ==
    ASSUME IInv, NEW r \in Requests, Join(r)
    PROVE  IInv'
  <1>1. PICK c \in Requests : /\ c = calls[key[r]]
                             /\ key[c] = key[r] /\ Unfinished(c) /\ ~cancelled[c]
    BY DEF IInv, TypeOK, MapIndexesLiveLoads, Join
  <1>2. /\ pc[r] = "checked" /\ AddWaiter(c, r)
        /\ joined' = [joined EXCEPT ![r] = c]
        /\ pc' = [pc EXCEPT ![r] = "waiting"]
        /\ UNCHANGED <<key, budget, outcome, calls, cancelled, stage, result,
                       ctxDone, baseDone>>
    BY <1>1 DEF Join, loadVars, ctxVars
  <1>3. /\ wid'[r] \notin DOMAIN budgets[c]
        /\ DOMAIN budgets'[c] = DOMAIN budgets[c] \cup {wid'[r]}
        /\ waiters'[c] = Cardinality(DOMAIN budgets'[c])
    BY <1>1, <1>2, AddWaiterCounts DEF IInv, WaitersMatchBudgets
  <1>4. /\ \A s \in Requests : s # r => wid'[s] = wid[s]
        /\ \A d \in Requests : d # c =>
              budgets'[d] = budgets[d] /\ waiters'[d] = waiters[d]
        /\ \A i \in DOMAIN budgets[c] : budgets'[c][i] = budgets[c][i]
        /\ budgets'[c][wid'[r]] = budget[r]
    BY <1>1, <1>2, <1>3 DEF IInv, TypeOK, AddWaiter
  <1>5. /\ Attached(c)' = Attached(c) \cup {r}
        /\ r \notin Attached(c)
        /\ \A d \in Requests : d # c =>
              Attached(d)' = Attached(d) /\ r \notin Attached(d)
    BY <1>1, <1>2 DEF IInv, TypeOK, Attached
  <1>6. TypeOK'
    <2>1. /\ nextWaiterID' \in [Requests -> Nat]
          /\ wid' \in [Requests -> Nat]
          /\ waiters' \in [Requests -> Nat]
      BY <1>1, <1>2 DEF IInv, TypeOK, AddWaiter
    <2>2. DOMAIN budgets' = Requests
      BY <1>2 DEF IInv, TypeOK, AddWaiter
    <2>3. ASSUME NEW d \in Requests
          PROVE  /\ DOMAIN budgets'[d] \in SUBSET (1..nextWaiterID'[d])
                 /\ budgets'[d] \in [DOMAIN budgets'[d] -> Budgets]
      <3>1. /\ DOMAIN budgets[d] \in SUBSET (1..nextWaiterID[d])
            /\ budgets[d] \in [DOMAIN budgets[d] -> Budgets]
            /\ nextWaiterID[d] \in Nat /\ budget[r] \in Budgets
        BY DEF IInv, TypeOK
      <3>2. CASE d # c
        BY <1>2, <3>1, <3>2 DEF IInv, TypeOK, AddWaiter
      <3>3. CASE d = c
        <4> DEFINE id == nextWaiterID[c] + 1
        <4>1. /\ budgets'[c] = [i \in DOMAIN budgets[c] \cup {id} |->
                                   IF i = id THEN budget[r] ELSE budgets[c][i]]
              /\ nextWaiterID'[c] = id
          BY <1>1, <1>2 DEF IInv, TypeOK, AddWaiter
        <4>2. DOMAIN budgets[c] \cup {id} \in SUBSET (1..id)
          BY <3>1, <3>3
        <4> HIDE DEF id
        <4> QED
          BY <3>1, <3>3, <4>1, <4>2
      <3> QED
        BY <3>2, <3>3
    <2> QED
      BY <1>1, <1>2, <2>1, <2>2, <2>3 DEF IInv, TypeOK
  <1>7. AttachedToCall'
    BY <1>1, <1>2 DEF IInv, TypeOK, AttachedToCall, Unfinished
  <1>8. CallHasOwner'
    BY <1>1, <1>2 DEF IInv, TypeOK, CallHasOwner
  <1>9. MapIndexesLiveLoads'
    BY <1>2 DEF IInv, MapIndexesLiveLoads, Unfinished
  <1>10. WaitersMatchBudgets'
    <2> SUFFICES ASSUME NEW d \in Requests, Unfinished(d)'
                 PROVE  /\ DOMAIN budgets'[d] = {wid'[s] : s \in Attached(d)'}
                        /\ \A s \in Attached(d)' : budgets'[d][wid'[s]] = budget'[s]
                        /\ \A s, t \in Attached(d)' : wid'[s] = wid'[t] => s = t
                        /\ waiters'[d] = Cardinality(DOMAIN budgets'[d])
      BY DEF WaitersMatchBudgets
    <2>1. /\ DOMAIN budgets[d] = {wid[s] : s \in Attached(d)}
          /\ \A s \in Attached(d) : budgets[d][wid[s]] = budget[s]
          /\ \A s, t \in Attached(d) : wid[s] = wid[t] => s = t
          /\ waiters[d] = Cardinality(DOMAIN budgets[d])
      BY <1>2 DEF IInv, WaitersMatchBudgets, Unfinished
    <2>2. Attached(d) \subseteq Requests
      BY DEF Attached
    <2>3. CASE d # c
      <3>1. /\ budgets'[d] = budgets[d] /\ waiters'[d] = waiters[d]
            /\ Attached(d)' = Attached(d)
        BY <1>4, <1>5, <2>3
      <3>2. \A s \in Attached(d) : wid'[s] = wid[s] /\ budget'[s] = budget[s]
        BY <1>2, <1>4, <1>5, <2>2, <2>3
      <3>3. {wid'[s] : s \in Attached(d)'} = {wid[s] : s \in Attached(d)}
        BY <3>1, <3>2
      <3> QED
        BY <2>1, <3>1, <3>2, <3>3
    <2>4. CASE d = c
      <3>1. \A s \in Attached(c) : wid'[s] = wid[s] /\ s # r
        BY <1>4, <1>5, <2>2, <2>4
      <3>2. DOMAIN budgets'[c] = {wid'[s] : s \in Attached(c)'}
        BY <1>3, <1>5, <2>1, <2>4, <3>1
      <3>3. \A s \in Attached(c)' : budgets'[c][wid'[s]] = budget'[s]
        BY <1>2, <1>4, <1>5, <2>1, <2>4, <3>1
      <3>4. \A s, t \in Attached(c)' : wid'[s] = wid'[t] => s = t
        BY <1>3, <1>5, <2>1, <2>4, <3>1
      <3> QED
        BY <1>3, <2>4, <3>2, <3>3, <3>4
    <2> QED
      BY <2>3, <2>4
  <1>11. FreshCallIsEmpty'
    BY <1>1, <1>2, <1>4 DEF IInv, FreshCallIsEmpty, Unfinished
  <1>12. CancelledExactlyWhenUnwanted'
    BY <1>1, <1>2, <1>5 DEF IInv, CancelledExactlyWhenUnwanted, Unfinished
  <1> QED
    BY <1>6, <1>7, <1>8, <1>9, <1>10, <1>11, <1>12 DEF IInv

\* Starting puts the request alone in a call of its own.
LEMMA StartPreserves ==
    ASSUME IInv, NEW r \in Requests, Start(r)
    PROVE  IInv'
  <1>1. /\ pc[r] = "checked" /\ calls[key[r]] = None /\ AddWaiter(r, r)
        /\ joined' = [joined EXCEPT ![r] = r]
        /\ calls' = [calls EXCEPT ![key[r]] = r]
        /\ stage' = [stage EXCEPT ![r] = "loading"]
        /\ pc' = [pc EXCEPT ![r] = "waiting"]
        /\ UNCHANGED <<key, budget, outcome, cancelled, result, ctxDone, baseDone>>
    BY DEF Start, ctxVars
  <1>2. /\ stage[r] = "none" /\ waiters[r] = 0
        /\ DOMAIN budgets[r] = {} /\ ~cancelled[r]
    BY <1>1 DEF IInv, CallHasOwner, FreshCallIsEmpty
  <1>3. waiters[r] = Cardinality(DOMAIN budgets[r])
    BY <1>2, FS_EmptySet
  <1>4. /\ DOMAIN budgets'[r] = {wid'[r]}
        /\ waiters'[r] = Cardinality(DOMAIN budgets'[r])
    BY <1>1, <1>2, <1>3, AddWaiterCounts DEF IInv
  <1>5. /\ \A s \in Requests : s # r => wid'[s] = wid[s]
        /\ \A d \in Requests : d # r =>
              budgets'[d] = budgets[d] /\ waiters'[d] = waiters[d]
        /\ budgets'[r][wid'[r]] = budget[r]
    BY <1>1, <1>4 DEF IInv, TypeOK, AddWaiter
  <1>6. /\ Attached(r)' = {r}
        /\ \A d \in Requests : d # r => Attached(d)' = Attached(d)
        /\ \A d \in Requests : r \notin Attached(d)
    BY <1>1, <1>2 DEF IInv, TypeOK, AttachedToCall, Attached
  <1>7. TypeOK'
    BY <1>1 DEF IInv, TypeOK, AddWaiter, Budgets, Stages
  <1>8. AttachedToCall'
    BY <1>1 DEF IInv, TypeOK, AttachedToCall
  <1>9. CallHasOwner'
    BY <1>1 DEF IInv, TypeOK, CallHasOwner
  <1>10. MapIndexesLiveLoads'
    BY <1>1, <1>2, NoneAssumption DEF IInv, TypeOK, MapIndexesLiveLoads, Unfinished
  <1>11. WaitersMatchBudgets'
    <2> SUFFICES ASSUME NEW d \in Requests, Unfinished(d)'
                 PROVE  /\ DOMAIN budgets'[d] = {wid'[s] : s \in Attached(d)'}
                        /\ \A s \in Attached(d)' : budgets'[d][wid'[s]] = budget'[s]
                        /\ \A s, t \in Attached(d)' : wid'[s] = wid'[t] => s = t
                        /\ waiters'[d] = Cardinality(DOMAIN budgets'[d])
      BY DEF WaitersMatchBudgets
    <2>1. CASE d = r
      <3>1. {wid'[s] : s \in Attached(r)'} = {wid'[r]}
        BY <1>6
      <3> QED
        BY <1>1, <1>4, <1>5, <1>6, <2>1, <3>1
    <2>2. CASE d # r
      <3>1. /\ DOMAIN budgets[d] = {wid[s] : s \in Attached(d)}
            /\ \A s \in Attached(d) : budgets[d][wid[s]] = budget[s]
            /\ \A s, t \in Attached(d) : wid[s] = wid[t] => s = t
            /\ waiters[d] = Cardinality(DOMAIN budgets[d])
        BY <1>1, <2>2 DEF IInv, TypeOK, WaitersMatchBudgets, Unfinished
      <3>2. \A s \in Attached(d) : wid'[s] = wid[s]
        BY <1>5, <1>6 DEF Attached
      <3>3. /\ budgets'[d] = budgets[d] /\ waiters'[d] = waiters[d]
            /\ Attached(d)' = Attached(d) /\ budget' = budget
        BY <1>1, <1>5, <1>6, <2>2
      <3>4. {wid'[s] : s \in Attached(d)'} = {wid[s] : s \in Attached(d)}
        BY <3>2, <3>3
      <3> QED
        BY <3>1, <3>2, <3>3, <3>4
    <2> QED
      BY <2>1, <2>2
  <1>12. FreshCallIsEmpty'
    BY <1>1, <1>5 DEF IInv, TypeOK, FreshCallIsEmpty
  <1>13. CancelledExactlyWhenUnwanted'
    BY <1>1, <1>2, <1>6 DEF IInv, TypeOK, CancelledExactlyWhenUnwanted, Unfinished
  <1> QED
    BY <1>7, <1>8, <1>9, <1>10, <1>11, <1>12, <1>13 DEF IInv

\* Leaving a completed call changes nothing in it; leaving an unfinished one
\* takes the request's entry out, and the last one cancels the load.
LEMMA DetachPreserves ==
    ASSUME IInv, NEW r \in Requests, Detach(r)
    PROVE  IInv'
  <1>1. PICK c \in Requests : /\ c = joined[r] /\ key[c] = key[r]
                             /\ stage[c] # "none" /\ r \in Attached(c)
    BY DEF IInv, AttachedToCall, Detach, Attached
  <1>2. /\ pc[r] = "leaving"
        /\ pc' = [pc EXCEPT ![r] = "returned"]
        /\ UNCHANGED <<key, budget, joined, wid, stage, result, ctxDone, baseDone>>
    BY DEF Detach, loadVars, ctxVars
  <1>3. /\ Attached(c)' = Attached(c) \ {r}
        /\ \A d \in Requests : d # c => Attached(d)' = Attached(d)
    BY <1>1, <1>2 DEF IInv, TypeOK, Attached
  <1>4. /\ pc' \in [Requests -> {"idle", "checked", "waiting", "leaving", "returned"}]
        /\ outcome' \in [Requests -> Results \cup {None, "cancelled"}]
    BY DEF IInv, TypeOK, Detach
  <1>5. AttachedToCall' /\ CallHasOwner'
    BY <1>2, <1>4 DEF IInv, TypeOK, AttachedToCall, CallHasOwner
  <1>6. CASE stage[c] = "completed"
    <2>1. UNCHANGED <<calls, waiters, nextWaiterID, budgets, cancelled>>
      BY <1>1, <1>6 DEF Detach, callVars
    <2>2. TypeOK'
      BY <1>2, <1>4, <2>1 DEF IInv, TypeOK
    <2>3. MapIndexesLiveLoads'
      BY <1>2, <2>1 DEF IInv, MapIndexesLiveLoads, Unfinished
    <2>4. /\ WaitersMatchBudgets'
          /\ FreshCallIsEmpty'
          /\ CancelledExactlyWhenUnwanted'
      BY <1>2, <1>3, <1>6, <2>1, BookkeepingFramed DEF IInv, Unfinished
    <2> QED
      BY <1>5, <2>2, <2>3, <2>4 DEF IInv
  <1>7. CASE stage[c] # "completed"
    <2>1. Unfinished(c) /\ RemoveWaiter(c, r)
      BY <1>1, <1>7 DEF IInv, TypeOK, Stages, Unfinished, Detach
    <2>2. /\ DOMAIN budgets[c] = {wid[s] : s \in Attached(c)}
          /\ \A s \in Attached(c) : budgets[c][wid[s]] = budget[s]
          /\ \A s, t \in Attached(c) : wid[s] = wid[t] => s = t
          /\ waiters[c] = Cardinality(DOMAIN budgets[c])
      BY <2>1 DEF IInv, WaitersMatchBudgets
    <2>3. wid[r] \in DOMAIN budgets[c]
      BY <1>1, <2>2
    <2>4. /\ IsFiniteSet(DOMAIN budgets[c])
          /\ IsFiniteSet(DOMAIN budgets[c] \ {wid[r]})
          /\ Cardinality(DOMAIN budgets[c] \ {wid[r]}) = Cardinality(DOMAIN budgets[c]) - 1
      BY <2>3, BudgetsFinite, FS_RemoveElement, Zenon DEF IInv
    <2>5. /\ DOMAIN budgets'[c] = DOMAIN budgets[c] \ {wid[r]}
          /\ \A i \in DOMAIN budgets'[c] : budgets'[c][i] = budgets[c][i]
          /\ \A d \in Requests : d # c =>
                budgets'[d] = budgets[d] /\ waiters'[d] = waiters[d]
          /\ waiters'[c] = waiters[c] - 1
          /\ DOMAIN budgets' = Requests
      BY <2>1 DEF RemoveWaiter, IInv, TypeOK
    <2>6. waiters'[c] = Cardinality(DOMAIN budgets'[c]) /\ waiters'[c] \in Nat
      <3>1. waiters'[c] = Cardinality(DOMAIN budgets'[c])
        BY <2>2, <2>4, <2>5
      <3>2. IsFiniteSet(DOMAIN budgets'[c])
        BY <2>4, <2>5
      <3>3. Cardinality(DOMAIN budgets'[c]) \in Nat
        BY <3>2, FS_CardinalityType
      <3> QED
        BY <3>1, <3>3
    <2>7. DOMAIN budgets'[c] = {wid'[s] : s \in Attached(c)'}
      BY <1>1, <1>2, <1>3, <2>2, <2>5
    <2>8. waiters[c] = 1 <=> Attached(c)' = {}
      <3>1. DOMAIN budgets'[c] = {} <=> Attached(c)' = {}
        BY <2>7
      <3>2. waiters'[c] = 0 <=> DOMAIN budgets'[c] = {}
        BY <2>4, <2>5, <2>6, FS_EmptySet, Zenon
      <3>3. waiters[c] = 1 <=> waiters'[c] = 0
        BY <2>1, <2>5 DEF IInv, TypeOK
      <3> QED
        BY <3>1, <3>2, <3>3
    <2>9. ~cancelled[c] /\ calls[key[r]] = c
      BY <1>1, <2>1 DEF IInv, TypeOK, MapIndexesLiveLoads, CancelledExactlyWhenUnwanted
    <2>10. /\ cancelled'[c] <=> Attached(c)' = {}
           /\ \A d \in Requests : d # c => cancelled'[d] = cancelled[d]
           /\ cancelled' \in [Requests -> BOOLEAN]
      BY <2>1, <2>8, <2>9 DEF RemoveWaiter, IInv, TypeOK
    <2>11. calls' = IF cancelled'[c] THEN [calls EXCEPT ![key[r]] = None] ELSE calls
      BY <2>1, <2>8, <2>9, <2>10 DEF RemoveWaiter
    <2>12. TypeOK'
      <3>1. waiters' \in [Requests -> Nat]
        BY <2>1, <2>6 DEF RemoveWaiter, IInv, TypeOK
      <3>2. calls' \in [Keys -> Requests \cup {None}] /\ nextWaiterID' = nextWaiterID
        BY <2>1, <2>11 DEF RemoveWaiter, IInv, TypeOK
      <3>3. ASSUME NEW d \in Requests
            PROVE  /\ DOMAIN budgets'[d] \in SUBSET (1..nextWaiterID'[d])
                   /\ budgets'[d] \in [DOMAIN budgets'[d] -> Budgets]
        BY <2>1, <3>2 DEF RemoveWaiter, IInv, TypeOK
      <3> QED
        BY <1>2, <1>4, <2>5, <2>10, <3>1, <3>2, <3>3 DEF IInv, TypeOK
    <2>13. MapIndexesLiveLoads'
      BY <1>1, <1>2, <2>1, <2>9, <2>10, <2>11, NoneAssumption
      DEF IInv, TypeOK, MapIndexesLiveLoads, Unfinished
    <2>14. WaitersMatchBudgets'
      <3> SUFFICES ASSUME NEW d \in Requests, Unfinished(d)'
                   PROVE  /\ DOMAIN budgets'[d] = {wid'[s] : s \in Attached(d)'}
                          /\ \A s \in Attached(d)' : budgets'[d][wid'[s]] = budget'[s]
                          /\ \A s, t \in Attached(d)' : wid'[s] = wid'[t] => s = t
                          /\ waiters'[d] = Cardinality(DOMAIN budgets'[d])
        BY DEF WaitersMatchBudgets
      <3>1. CASE d # c
        <4>1. /\ DOMAIN budgets[d] = {wid[s] : s \in Attached(d)}
              /\ \A s \in Attached(d) : budgets[d][wid[s]] = budget[s]
              /\ \A s, t \in Attached(d) : wid[s] = wid[t] => s = t
              /\ waiters[d] = Cardinality(DOMAIN budgets[d])
          BY <1>2 DEF IInv, WaitersMatchBudgets, Unfinished
        <4> QED
          BY <1>2, <1>3, <2>5, <3>1, <4>1
      <3>2. CASE d = c
        <4>1. \A s \in Attached(c)' : s \in Attached(c) /\ wid'[s] \in DOMAIN budgets'[c]
          BY <1>3, <2>7
        <4>2. /\ wid' = wid /\ budget' = budget
              /\ \A i \in DOMAIN budgets'[c] : budgets'[c][i] = budgets[c][i]
          BY <1>2, <2>5
        <4>3. \A s \in Attached(c)' : budgets'[c][wid'[s]] = budget'[s]
          <5> SUFFICES ASSUME NEW s \in Attached(c)' PROVE budgets'[c][wid'[s]] = budget'[s]
            OBVIOUS
          <5>1. s \in Attached(c) /\ wid[s] \in DOMAIN budgets'[c]
            BY <4>1, <4>2
          <5> QED
            BY <2>2, <4>2, <5>1
        <4>4. \A s, t \in Attached(c)' : wid'[s] = wid'[t] => s = t
          BY <2>2, <4>1, <4>2
        <4> QED
          BY <2>6, <2>7, <3>2, <4>3, <4>4
      <3> QED
        BY <3>1, <3>2
    <2>15. FreshCallIsEmpty'
      BY <1>1, <1>2, <2>5, <2>10 DEF IInv, FreshCallIsEmpty
    <2>16. CancelledExactlyWhenUnwanted'
      BY <1>2, <1>3, <2>10 DEF IInv, CancelledExactlyWhenUnwanted, Unfinished
    <2> QED
      BY <1>5, <2>12, <2>13, <2>14, <2>15, <2>16 DEF IInv
  <1> QED
    BY <1>6, <1>7

\* The context events change no call.
LEMMA ContextPreserves ==
    ASSUME IInv,
           UNCHANGED <<requestVars, callVars, loadVars>>,
           ctxDone' \in [Requests -> BOOLEAN],
           baseDone' \in BOOLEAN
    PROVE  IInv'
  <1>1. /\ \A c \in Requests : Attached(c)' = Attached(c)
        /\ \A c \in Requests : Unfinished(c)' <=> Unfinished(c)
    BY DEF requestVars, loadVars, Attached, Unfinished
  <1>2. TypeOK'
    BY DEF IInv, TypeOK, requestVars, callVars, loadVars
  <1>3. AttachedToCall' /\ CallHasOwner' /\ MapIndexesLiveLoads'
    BY <1>1 DEF IInv, AttachedToCall, CallHasOwner, MapIndexesLiveLoads,
                requestVars, callVars, loadVars
  <1>4. /\ WaitersMatchBudgets'
        /\ FreshCallIsEmpty'
        /\ CancelledExactlyWhenUnwanted'
    BY <1>1, BookkeepingFramed DEF IInv, requestVars, callVars, loadVars
  <1> QED
    BY <1>2, <1>3, <1>4 DEF IInv

LEMMA InitEstablishes == Init => IInv
  <1> SUFFICES ASSUME Init PROVE IInv
    OBVIOUS
  <1>1. TypeOK
    BY DEF Init, TypeOK, Stages, Budgets
  <1>2. \A c \in Requests : stage[c] = "none" /\ ~Unfinished(c)
    BY DEF Init, Unfinished
  <1>3. AttachedToCall /\ CallHasOwner /\ FreshCallIsEmpty
    BY DEF Init, AttachedToCall, CallHasOwner, FreshCallIsEmpty
  <1>4. MapIndexesLiveLoads
    BY <1>2, NoneAssumption DEF Init, MapIndexesLiveLoads
  <1>5. WaitersMatchBudgets /\ CancelledExactlyWhenUnwanted
    BY <1>2 DEF WaitersMatchBudgets, CancelledExactlyWhenUnwanted
  <1> QED
    BY <1>1, <1>3, <1>4, <1>5 DEF IInv

LEMMA StepPreserves == IInv /\ [Next]_vars => IInv'
  <1> SUFFICES ASSUME IInv, [Next]_vars PROVE IInv'
    OBVIOUS
  <1>1. ASSUME NEW r \in Requests, RequestStep(r) PROVE IInv'
    BY <1>1, EnterPreserves, JoinPreserves, StartPreserves,
       ReturnResultPreserves, ObserveCancelPreserves, DetachPreserves
    DEF RequestStep
  <1>2. ASSUME NEW c \in Requests, LoadStep(c) PROVE IInv'
    BY <1>2, LoadReturnsPreserves, FinishPreserves DEF LoadStep
  <1>3. ASSUME NEW r \in Requests, CtxExpires(r) PROVE IInv'
    BY <1>3, ContextPreserves DEF CtxExpires, IInv, TypeOK
  <1>4. CASE BaseCancelled
    BY <1>4, ContextPreserves DEF BaseCancelled, IInv, TypeOK
  <1>5. CASE UNCHANGED vars
    BY <1>5, ContextPreserves DEF vars, ctxVars, IInv, TypeOK
  <1> QED
    BY <1>1, <1>2, <1>3, <1>4, <1>5 DEF Next

\* The inductive invariant holds in every reachable state of the coalescer:
\* the map, the waiter counts and the budgets always agree with the requests
\* that are really waiting.
THEOREM BookkeepingCorrect == Spec => []IInv
  BY InitEstablishes, StepPreserves, PTL DEF Spec

\* Every variable has its type; in particular call.waiters never goes below
\* zero.
THEOREM TypeCorrect == Spec => []TypeOK
  <1>1. IInv => TypeOK
    BY DEF IInv
  <1> QED
    BY <1>1, BookkeepingCorrect, PTL

\* However many requests race, at most one wanted load runs for a key.
THEOREM LoadsAreCoalesced == Spec => []OneLiveLoadPerKey
  <1>1. IInv => OneLiveLoadPerKey
    BY DEF IInv, TypeOK, MapIndexesLiveLoads, OneLiveLoadPerKey
  <1> QED
    BY <1>1, BookkeepingCorrect, PTL

\* A request that leaves never cancels a load another request waits for, and
\* the last one to leave never leaves an uncancelled load behind.
THEOREM SiblingsSurvive == Spec => []CancelledExactlyWhenUnwanted
  <1>1. IInv => CancelledExactlyWhenUnwanted
    BY DEF IInv
  <1> QED
    BY <1>1, BookkeepingCorrect, PTL

\* A request that shares a load shares a live one for its own key.
THEOREM JoinersGetLiveLoads == Spec => JoinsOnlyLiveLoads
  <1> DEFINE JoinsLive ==
        \A r \in Requests :
            pc[r] = "checked" /\ pc'[r] = "waiting" /\ joined'[r] # r =>
                Unfinished(joined'[r]) /\ ~cancelled[joined'[r]] /\ key[joined'[r]] = key[r]
  <1>1. ASSUME IInv, Next, NEW r \in Requests,
               pc[r] = "checked", pc'[r] = "waiting", joined'[r] # r
        PROVE  Unfinished(joined'[r]) /\ ~cancelled[joined'[r]] /\ key[joined'[r]] = key[r]
    <2>1. Join(r)
      BY <1>1 DEF Next, RequestStep, LoadStep, Enter, Join, Start, ReturnResult,
                  ObserveCancel, Detach, LoadReturns, Finish, CtxExpires,
                  BaseCancelled, requestVars, IInv, TypeOK
    <2>2. key[r] \in Keys /\ calls \in [Keys -> Requests \cup {None}]
      BY <1>1 DEF IInv, TypeOK
    <2>3. joined'[r] = calls[key[r]] /\ calls[key[r]] # None
      BY <1>1, <2>1 DEF Join, IInv, TypeOK
    <2>4. calls[key[r]] \in Requests
      BY <2>2, <2>3
    <2> QED
      BY <2>2, <2>3, <2>4, <1>1 DEF IInv, MapIndexesLiveLoads
  <1>2. IInv /\ [Next]_vars => [JoinsLive]_vars
    BY <1>1
  <1>3. Spec => [][JoinsLive]_vars
    BY <1>2, BookkeepingCorrect, PTL DEF Spec
  <1> QED
    BY <1>3 DEF JoinsOnlyLiveLoads

------------------------------------------------------------------------------
(* The budget                                                                *)

\* A finite set of instants has a latest one: a smallest set without would
\* leave a smaller one behind when an element is taken out.
LEMMA LatestExists ==
    ASSUME NEW S \in SUBSET Nat, IsFiniteSet(S), S # {}
    PROVE  \E m \in S : \A x \in S : x <= m
  <1> DEFINE Latest(X, m) == \A x \in X : x <= m
             Bad(X)       == /\ X # {} /\ IsFiniteSet(X)
                             /\ \A m \in X : ~Latest(X, m)
             Sizes        == {n \in Nat : \E X \in SUBSET Nat : Bad(X) /\ Cardinality(X) = n}
             Less         == OpToRel(<, Nat)
  <1>1. IsWellFoundedOn(Less, Nat)
    BY NatLessThanWellFounded
  <1>2. \A i, j \in Nat : i < j => <<i, j>> \in Less
    BY DEF OpToRel
  <1> HIDE DEF Less
  <1>3. ASSUME Sizes # {} PROVE FALSE
    <2>1. Sizes \subseteq Nat
      OBVIOUS
    <2> HIDE DEF Sizes
    <2>2. \E n \in Sizes : \A k \in Sizes : ~(<<k, n>> \in Less)
      BY <1>1, <1>3, <2>1, WFMin
    <2>3. PICK n \in Sizes : \A k \in Sizes : <<k, n>> \notin Less
      BY <2>2, Zenon
    <2>4. PICK X \in SUBSET Nat : Bad(X) /\ Cardinality(X) = n
      BY <2>3 DEF Sizes
    <2>5. PICK y \in X : TRUE
      BY <2>4
    <2> DEFINE Y == X \ {y}
    <2>6. /\ IsFiniteSet(Y) /\ Cardinality(Y) = n - 1
          /\ n \in Nat /\ n - 1 \in Nat
      <3>1. IsFiniteSet(Y) /\ Cardinality(Y) = Cardinality(X) - 1
        BY <2>4, <2>5, FS_RemoveElement
      <3>2. Cardinality(Y) \in Nat /\ Cardinality(X) \in Nat
        BY <2>4, <3>1, FS_CardinalityType
      <3> QED
        BY <2>4, <3>1, <3>2
    <2>7. CASE Y = {}
      <3>1. X = {y}
        BY <2>5, <2>7
      <3> QED
        BY <2>4, <2>5, <3>1
    <2>8. CASE Y # {} /\ \E m \in Y : Latest(Y, m)
      <3>1. PICK m \in Y : Latest(Y, m)
        BY <2>8
      <3>2. m \in Nat /\ y \in Nat /\ m \in X
        BY <2>4, <2>5, <3>1
      <3>3. CASE y <= m
        BY <2>4, <3>1, <3>2, <3>3
      <3>4. CASE m <= y
        <4>1. \A x \in X : x \in Nat /\ (x = y \/ x <= m)
          BY <2>4, <3>1
        <4>2. Latest(X, y)
          BY <3>2, <3>4, <4>1
        <4> QED
          BY <2>4, <2>5, <4>2
      <3> QED
        BY <3>2, <3>3, <3>4
    <2>9. CASE Bad(Y)
      <3>1. n - 1 \in Sizes
        BY <2>4, <2>6, <2>9 DEF Sizes
      <3>2. <<n - 1, n>> \in Less
        BY <1>2, <2>6
      <3> QED
        BY <2>3, <3>1, <3>2
    <2> QED
      BY <2>6, <2>7, <2>8, <2>9
  <1>4. ~Bad(S)
    <2>1. Cardinality(S) \in Nat
      BY FS_CardinalityType
    <2> QED
      BY <1>3, <2>1
  <1> QED
    BY <1>4

\* Max of a set that has a latest element is one.
LEMMA MaxIsLatest ==
    ASSUME NEW S \in SUBSET Nat, IsFiniteSet(S), S # {}
    PROVE  Max(S) \in S /\ \A x \in S : x <= Max(S)
  <1>1. \E m \in S : \A x \in S : m >= x
    BY LatestExists
  <1> QED
    BY <1>1 DEF Max

\* The budget of an unfinished call, at any instant: a wait that ends then
\* fits if and only if the base and somebody present could use it.
LEMMA BudgetAdmits ==
    ASSUME IInv, NEW c \in Requests, Unfinished(c), NEW t \in Nat
    PROVE  Fits(t, EffectiveDeadline(c)) <=>
               /\ Fits(t, BaseDeadline)
               /\ Attached(c) = {} \/ \E r \in Attached(c) : Fits(t, budget[r])
  <1> DEFINE B == {budgets[c][i] : i \in DOMAIN budgets[c]}
  <1>1. /\ DOMAIN budgets[c] = {wid[r] : r \in Attached(c)}
        /\ \A r \in Attached(c) : budgets[c][wid[r]] = budget[r]
    BY DEF IInv, WaitersMatchBudgets
  <1>2. B = {budget[r] : r \in Attached(c)}
    BY <1>1
  <1>3. B \subseteq Nat \cup {NoDeadline} /\ NoDeadline \notin Nat
    <2>1. budgets[c] \in [DOMAIN budgets[c] -> Budgets]
      BY DEF IInv, TypeOK
    <2>2. Budgets \subseteq Nat \cup {NoDeadline} /\ NoDeadline \notin Nat
      BY DeadlineAssumption DEF Budgets
    <2> QED
      BY <2>1, <2>2
  <1>4. IsFiniteSet(B)
    <2>1. IsFiniteSet(DOMAIN budgets[c])
      BY BudgetsFinite DEF IInv
    <2>2. budgets[c] \in Surjection(DOMAIN budgets[c], B)
      <3>1. budgets[c] \in [DOMAIN budgets[c] -> Budgets]
        BY DEF IInv, TypeOK
      <3>2. budgets[c] \in [DOMAIN budgets[c] -> B]
        BY <3>1
      <3> QED
        BY <3>2 DEF Surjection
    <2> QED
      BY <2>1, <2>2, FS_Surjection
  <1>5. BaseDeadline \in Nat \cup {NoDeadline}
    BY DeadlineAssumption
  <1>6. budgets[c] = << >> <=> Attached(c) = {}
    <2>1. budgets[c] \in [DOMAIN budgets[c] -> Budgets]
      BY DEF IInv, TypeOK
    <2>2. DOMAIN budgets[c] = {} => budgets[c] = [i \in {} |-> NoDeadline]
      BY <2>1
    <2>3. [i \in {} |-> NoDeadline] = << >> /\ DOMAIN << >> = {}
      OBVIOUS
    <2> QED
      BY <1>1, <2>2, <2>3
  <1>7. WaitersBounded(c) <=> Attached(c) # {} /\ NoDeadline \notin B
    BY <1>6 DEF WaitersBounded
  <1>8. CASE Attached(c) = {} \/ NoDeadline \in B
    <2>1. ~WaitersBounded(c)
      BY <1>7, <1>8
    <2>2. EffectiveDeadline(c) = BaseDeadline
      BY <2>1 DEF EffectiveDeadline
    <2>3. Attached(c) = {} \/ \E r \in Attached(c) : Fits(t, budget[r])
      BY <1>2, <1>8 DEF Fits
    <2> QED
      BY <2>2, <2>3
  <1>9. CASE Attached(c) # {} /\ NoDeadline \notin B
    <2>1. WaitersBounded(c)
      BY <1>7, <1>9
    <2>2. B \in SUBSET Nat /\ B # {}
      BY <1>2, <1>3, <1>9
    <2>3. LatestBudget(c) = Max(B)
      BY DEF LatestBudget
    <2>4. LatestBudget(c) \in B /\ \A x \in B : x <= LatestBudget(c)
      BY <1>4, <2>2, <2>3, MaxIsLatest
    <2>5. (\E r \in Attached(c) : Fits(t, budget[r])) <=> t <= LatestBudget(c)
      <3>1. (\E r \in Attached(c) : Fits(t, budget[r])) <=> \E x \in B : t <= x
        BY <1>2, <1>9 DEF Fits
      <3>2. (\E x \in B : t <= x) <=> t <= LatestBudget(c)
        BY <2>2, <2>4
      <3> QED
        BY <3>1, <3>2
    <2>6. LatestBudget(c) \in Nat /\ LatestBudget(c) # NoDeadline
      BY <1>3, <2>2, <2>4
    <2>7. Fits(t, EffectiveDeadline(c)) <=> Fits(t, BaseDeadline) /\ t <= LatestBudget(c)
      BY <1>3, <1>5, <2>1, <2>6 DEF EffectiveDeadline, Fits
    <2> QED
      BY <1>9, <2>5, <2>7
  <1> QED
    BY <1>8, <1>9

\* A retrying load is given the time of the base context and of whoever of
\* the requests still waiting has most, at every moment of every race.
THEOREM BudgetIsThatOfTheWaiters == Spec => []AdmitsWhatSomeWaiterCanUse
  <1>1. Instants \subseteq Nat
    <2>1. \A t \in Instants : \E d \in Deadlines \cup ({BaseDeadline} \ {NoDeadline}) :
              t = d \/ t = d + 1
      BY DEF Instants
    <2> QED
      BY <2>1, DeadlineAssumption
  <1>2. IInv => AdmitsWhatSomeWaiterCanUse
    BY <1>1, BudgetAdmits DEF AdmitsWhatSomeWaiterCanUse
  <1> QED
    BY <1>2, BookkeepingCorrect, PTL

------------------------------------------------------------------------------
(* The coalescer implements LoadSharing: the initial states map to initial    *)
(* states, every step to a step or a stutter.                                *)

\* Only DoShared's return gives a request a reply.
RepliesOnReturn == \A r \in Requests : pc[r] # "returned" => outcome[r] = None

\* A load that has returned has a result.
LoadsHaveResults == \A c \in Requests : stage[c] = "returned" => result[c] \in Results

PInv == IInv /\ RepliesOnReturn /\ LoadsHaveResults

LEMMA PInvInit == Init => PInv
  BY InitEstablishes DEF Init, PInv, RepliesOnReturn, LoadsHaveResults

LEMMA PInvStep == PInv /\ [Next]_vars => PInv'
  <1> SUFFICES ASSUME PInv, [Next]_vars PROVE PInv'
    OBVIOUS
  <1>1. IInv'
    BY StepPreserves DEF PInv
  <1>2. /\ pc \in [Requests -> {"idle", "checked", "waiting", "leaving", "returned"}]
        /\ outcome \in [Requests -> Results \cup {None, "cancelled"}]
        /\ stage \in [Requests -> Stages] /\ result \in [Requests -> Results \cup {None}]
    BY DEF PInv, IInv, TypeOK
  <1>3. ASSUME NEW r \in Requests, RequestStep(r)
        PROVE  RepliesOnReturn' /\ LoadsHaveResults'
    BY <1>2, <1>3 DEF PInv, RepliesOnReturn, LoadsHaveResults, RequestStep, Enter, Join, Start,
       ReturnResult, ObserveCancel, Detach, loadVars
  <1>4. ASSUME NEW c \in Requests, LoadStep(c)
        PROVE  RepliesOnReturn' /\ LoadsHaveResults'
    BY <1>2, <1>4 DEF PInv, RepliesOnReturn, LoadsHaveResults, LoadStep, LoadReturns, Finish,
       requestVars
  <1>5. ASSUME UNCHANGED <<requestVars, loadVars>>
        PROVE  RepliesOnReturn' /\ LoadsHaveResults'
    BY <1>5 DEF PInv, RepliesOnReturn, LoadsHaveResults, requestVars, loadVars
  <1>6. ASSUME \/ \E r \in Requests : CtxExpires(r)
               \/ BaseCancelled
               \/ UNCHANGED vars
        PROVE  UNCHANGED <<requestVars, loadVars>>
    BY <1>6 DEF CtxExpires, BaseCancelled, vars
  <1> QED
    BY <1>1, <1>3, <1>4, <1>5, <1>6 DEF Next, PInv

LEMMA PInvariance == Spec => []PInv
  BY PInvInit, PInvStep, PTL DEF Spec

------------------------------------------------------------------------------
(* The mapping                                                               *)

LEMMA AbstractStates ==
    ASSUME PInv, NEW c \in Requests
    PROVE  /\ Promise!Running(c) <=> Unfinished(c)
           /\ Promise!Wanted(c) <=> Attached(c) # {}
           /\ abstractState[c] = "none" <=> stage[c] = "none"
           /\ abstractState[c] = "done" <=> stage[c] = "completed"
  <1>1. stage[c] \in {"none", "loading", "returned", "completed"}
    BY DEF PInv, IInv, TypeOK, Stages
  <1>2. abstractState[c] = StateOf[stage[c]]
    BY DEF abstractState
  <1> QED
    BY <1>1, <1>2 DEF StateOf, Unfinished, Promise!Running, Promise!Wanted, abstractMembers

\* A request before the locked section is not placed yet.
LEMMA UnplacedIsUnserved ==
    ASSUME PInv, NEW r \in Requests, pc[r] \in {"idle", "checked"}
    PROVE  Promise!Unserved(r)
  BY DEF PInv, RepliesOnReturn, Promise!Unserved, abstractMembers, Attached

LEMMA MappingFramed ==
    ASSUME UNCHANGED <<stage, result>>
    PROVE  abstractState' = abstractState /\ abstractAnswer' = abstractAnswer
  BY DEF abstractState, abstractAnswer

LEMMA MembersFramed ==
    ASSUME \A c \in Requests : Attached(c)' = Attached(c)
    PROVE  abstractMembers' = abstractMembers
  BY DEF abstractMembers

LEMMA EnterMaps ==
    ASSUME PInv, NEW r \in Requests, Enter(r)
    PROVE  Promise!Refuse(r) \/ UNCHANGED Promise!vars
  <1>1. UNCHANGED <<key, joined, stage, result>> /\ pc[r] = "idle"
    BY DEF Enter, loadVars
  <1>2. \A c \in Requests : Attached(c)' = Attached(c)
    BY DEF PInv, IInv, TypeOK, Enter, Attached
  <1>3. /\ abstractState' = abstractState /\ abstractAnswer' = abstractAnswer
        /\ abstractMembers' = abstractMembers
    BY <1>1, <1>2, MappingFramed, MembersFramed
  <1>4. CASE ctxDone[r]
    BY <1>1, <1>3, <1>4, UnplacedIsUnserved DEF Enter, Promise!Refuse
  <1>5. CASE ~ctxDone[r]
    BY <1>1, <1>3, <1>5 DEF Enter, Promise!vars
  <1> QED
    BY <1>4, <1>5

LEMMA JoinMaps ==
    ASSUME PInv, NEW r \in Requests, Join(r)
    PROVE  \E l \in Requests : Promise!Share(r, l)
  <1>1. /\ key[r] \in Keys /\ calls \in [Keys -> Requests \cup {None}]
        /\ pc \in [Requests -> {"idle", "checked", "waiting", "leaving", "returned"}]
        /\ joined \in [Requests -> Requests \cup {None}]
    BY DEF PInv, IInv, TypeOK
  <1>2. PICK l \in Requests : l = calls[key[r]]
    BY <1>1 DEF Join
  <1>3. /\ pc[r] = "checked" /\ pc' = [pc EXCEPT ![r] = "waiting"]
        /\ joined' = [joined EXCEPT ![r] = l]
        /\ UNCHANGED <<key, outcome, stage, result>>
    BY <1>2 DEF Join, loadVars
  <1>4. key[l] = key[r] /\ Unfinished(l) /\ ~cancelled[l]
    BY <1>1, <1>2 DEF PInv, IInv, MapIndexesLiveLoads
  <1>5. Attached(l) # {}
    BY <1>4 DEF PInv, IInv, CancelledExactlyWhenUnwanted
  <1>6. abstractMembers' = [abstractMembers EXCEPT ![l] = @ \cup {r}]
    <2>1. Attached(l)' = Attached(l) \cup {r}
      BY <1>1, <1>3 DEF Attached
    <2>2. \A d \in Requests : d # l => Attached(d)' = Attached(d)
      BY <1>1, <1>3 DEF Attached
    <2> QED
      BY <2>1, <2>2 DEF abstractMembers
  <1>7. abstractState' = abstractState /\ abstractAnswer' = abstractAnswer
    BY <1>3, MappingFramed
  <1>8. Promise!Unserved(r) /\ Promise!Running(l) /\ Promise!Wanted(l)
    BY <1>3, <1>4, <1>5, AbstractStates, UnplacedIsUnserved
  <1> QED
    BY <1>3, <1>4, <1>6, <1>7, <1>8 DEF Promise!Share

LEMMA StartMaps ==
    ASSUME PInv, NEW r \in Requests, Start(r)
    PROVE  Promise!Begin(r)
  <1>1. /\ key[r] \in Keys /\ stage \in [Requests -> Stages]
        /\ pc \in [Requests -> {"idle", "checked", "waiting", "leaving", "returned"}]
        /\ joined \in [Requests -> Requests \cup {None}]
    BY DEF PInv, IInv, TypeOK
  <1>2. /\ pc[r] = "checked" /\ pc' = [pc EXCEPT ![r] = "waiting"]
        /\ joined' = [joined EXCEPT ![r] = r]
        /\ stage' = [stage EXCEPT ![r] = "loading"]
        /\ UNCHANGED <<key, outcome, result>>
        /\ calls[key[r]] = None
    BY DEF Start
  <1>3. stage[r] = "none"
    BY <1>1, <1>2 DEF PInv, IInv, CallHasOwner
  <1>4. \A l \in Requests : ~(Promise!Running(l) /\ Promise!Wanted(l) /\ key[l] = key[r])
    <2> SUFFICES ASSUME NEW l \in Requests, Unfinished(l), Attached(l) # {}, key[l] = key[r]
                 PROVE  FALSE
      BY AbstractStates
    <2>1. ~cancelled[l]
      BY DEF PInv, IInv, CancelledExactlyWhenUnwanted
    <2>2. calls[key[r]] = l
      BY <1>1, <2>1 DEF PInv, IInv, MapIndexesLiveLoads
    <2> QED
      BY <1>2, <2>2, NoneAssumption
  <1>5. Attached(r) = {}
    BY <1>3 DEF PInv, IInv, AttachedToCall, Attached
  <1>6. abstractMembers' = [abstractMembers EXCEPT ![r] = {r}]
    <2>1. Attached(r)' = {r}
      BY <1>1, <1>2, <1>5 DEF Attached
    <2>2. \A d \in Requests : d # r => Attached(d)' = Attached(d)
      BY <1>1, <1>2 DEF Attached
    <2> QED
      BY <2>1, <2>2 DEF abstractMembers
  <1>7. abstractState' = [abstractState EXCEPT ![r] = "running"]
    BY <1>1, <1>2 DEF abstractState, StateOf, Unfinished
  <1>8. abstractAnswer' = abstractAnswer
    BY <1>1, <1>2, <1>3 DEF abstractAnswer
  <1>9. abstractState[r] = "none" /\ Promise!Unserved(r)
    BY <1>2, <1>3, AbstractStates, UnplacedIsUnserved
  <1> QED
    BY <1>2, <1>4, <1>6, <1>7, <1>8, <1>9 DEF Promise!Begin

\* A request that leaves its call, with the result or without.
LEMMA DepartureMaps ==
    ASSUME PInv, NEW r \in Requests, pc[r] \in {"waiting", "leaving"},
           pc' = [pc EXCEPT ![r] = "returned"], UNCHANGED <<joined, stage, result>>
    PROVE  /\ joined[r] \in Requests /\ r \in abstractMembers[joined[r]]
           /\ abstractMembers' = [abstractMembers EXCEPT ![joined[r]] = @ \ {r}]
           /\ abstractState' = abstractState /\ abstractAnswer' = abstractAnswer
  <1>1. pc \in [Requests -> {"idle", "checked", "waiting", "leaving", "returned"}]
    BY DEF PInv, IInv, TypeOK
  <1>2. PICK l \in Requests : l = joined[r] /\ r \in Attached(l)
    BY DEF PInv, IInv, AttachedToCall, Attached
  <1>3. /\ Attached(l)' = Attached(l) \ {r}
        /\ \A d \in Requests : d # l => Attached(d)' = Attached(d)
    BY <1>1, <1>2 DEF Attached
  <1> QED
    BY <1>2, <1>3, MappingFramed DEF abstractMembers

LEMMA ReturnMaps ==
    ASSUME PInv, NEW r \in Requests, ReturnResult(r)
    PROVE  \E l \in Requests : Promise!Deliver(r, l)
  <1>1. /\ UNCHANGED <<key, joined, stage, result>>
        /\ pc[r] = "waiting" /\ pc' = [pc EXCEPT ![r] = "returned"]
        /\ stage[joined[r]] = "completed"
        /\ outcome' = [outcome EXCEPT ![r] = result[joined[r]]]
    BY DEF ReturnResult, loadVars
  <1>2. joined[r] \in Requests
    BY <1>1, DepartureMaps
  <1>3. abstractState[joined[r]] = "done" /\ abstractAnswer[joined[r]] = result[joined[r]]
    BY <1>1, <1>2, AbstractStates DEF abstractAnswer
  <1>4. Promise!Deliver(r, joined[r])
    BY <1>1, <1>3, DepartureMaps DEF Promise!Deliver
  <1> QED
    BY <1>2, <1>4

LEMMA DetachMaps ==
    ASSUME PInv, NEW r \in Requests, Detach(r)
    PROVE  \E l \in Requests : Promise!Leave(r, l)
  <1>1. /\ UNCHANGED <<key, joined, stage, result>>
        /\ pc[r] = "leaving" /\ pc' = [pc EXCEPT ![r] = "returned"]
        /\ outcome' = [outcome EXCEPT ![r] = "cancelled"]
    BY DEF Detach, loadVars
  <1>2. joined[r] \in Requests
    BY <1>1, DepartureMaps
  <1>3. Promise!Leave(r, joined[r])
    BY <1>1, DepartureMaps DEF Promise!Leave
  <1> QED
    BY <1>2, <1>3

LEMMA FinishMaps ==
    ASSUME PInv, NEW c \in Requests, Finish(c)
    PROVE  \E v \in Results : Promise!Complete(c, v)
  <1>1. /\ stage \in [Requests -> Stages] /\ stage[c] = "returned"
        /\ stage' = [stage EXCEPT ![c] = "completed"]
        /\ UNCHANGED <<key, outcome, pc, joined, result>>
    BY DEF PInv, IInv, TypeOK, Finish, requestVars
  <1>2. result[c] \in Results
    BY <1>1 DEF PInv, LoadsHaveResults
  <1>3. abstractMembers' = abstractMembers
    BY <1>1, MembersFramed DEF Attached
  <1>4. abstractState' = [abstractState EXCEPT ![c] = "done"]
    BY <1>1 DEF abstractState, StateOf, Unfinished
  <1>5. abstractAnswer' = [abstractAnswer EXCEPT ![c] = result[c]]
    BY <1>1 DEF abstractAnswer
  <1>6. Promise!Running(c)
    BY <1>1, AbstractStates DEF Unfinished
  <1>7. Promise!Complete(c, result[c])
    BY <1>1, <1>3, <1>4, <1>5, <1>6 DEF Promise!Complete
  <1> QED
    BY <1>2, <1>7

\* Steps of which the promise sees nothing.
LEMMA HiddenSteps ==
    ASSUME PInv, NEW r \in Requests, ObserveCancel(r) \/ \E v \in Results : LoadReturns(r, v)
    PROVE  UNCHANGED Promise!vars
  <1>1. UNCHANGED <<key, outcome>>
    BY DEF ObserveCancel, LoadReturns, requestVars
  <1>2. \A c \in Requests : Attached(c)' = Attached(c)
    BY DEF PInv, IInv, TypeOK, ObserveCancel, LoadReturns, requestVars, Attached
  <1>3. abstractState' = abstractState
    BY DEF PInv, IInv, TypeOK, ObserveCancel, LoadReturns, loadVars, abstractState, StateOf, Stages
  <1>4. abstractAnswer' = abstractAnswer
    BY DEF PInv, IInv, TypeOK, ObserveCancel, LoadReturns, loadVars, abstractAnswer
  <1> QED
    BY <1>1, <1>2, <1>3, <1>4, MembersFramed DEF Promise!vars

LEMMA ContextStepsHidden ==
    ASSUME UNCHANGED <<requestVars, loadVars>>
    PROVE  UNCHANGED Promise!vars
  <1>1. UNCHANGED <<key, outcome, pc, joined, stage, result>>
    BY DEF requestVars, loadVars
  <1> QED
    BY <1>1, MappingFramed, MembersFramed DEF Promise!vars, Attached

LEMMA StepsMap == PInv /\ [Next]_vars => [Promise!Next]_(Promise!vars)
  <1> SUFFICES ASSUME PInv, [Next]_vars PROVE Promise!Next \/ UNCHANGED Promise!vars
    OBVIOUS
  <1>1. ASSUME NEW r \in Requests, RequestStep(r)
        PROVE  Promise!Next \/ UNCHANGED Promise!vars
    BY <1>1, EnterMaps, JoinMaps, StartMaps, ReturnMaps, DetachMaps, HiddenSteps
    DEF RequestStep, Promise!Next
  <1>2. ASSUME NEW c \in Requests, LoadStep(c)
        PROVE  Promise!Next \/ UNCHANGED Promise!vars
    BY <1>2, FinishMaps, HiddenSteps DEF LoadStep, Promise!Next
  <1>3. ASSUME \/ \E r \in Requests : CtxExpires(r)
               \/ BaseCancelled
               \/ UNCHANGED vars
        PROVE  UNCHANGED Promise!vars
    BY <1>3, ContextStepsHidden DEF CtxExpires, BaseCancelled, vars
  <1> QED
    BY <1>1, <1>2, <1>3 DEF Next

LEMMA InitMaps == Init => Promise!Init
  <1> SUFFICES ASSUME Init PROVE Promise!Init
    OBVIOUS
  <1>1. \A c \in Requests : Attached(c) = {} /\ stage[c] = "none"
    BY DEF Init, Attached
  <1>2. /\ abstractMembers = [c \in Requests |-> {}]
        /\ abstractState = [c \in Requests |-> "none"]
        /\ abstractAnswer = [c \in Requests |-> None]
    BY <1>1 DEF abstractMembers, abstractState, StateOf, abstractAnswer
  <1> QED
    BY <1>2 DEF Init, Promise!Init

\* The map, the counters, the waiter ids and the channel together keep the
\* promise: requests for a key share one load for as long as somebody wants
\* it, and are told its answer or the end of their own context.
THEOREM CoalescerImplementsPromise == Spec => ImplementsLoadSharing
  BY InitMaps, StepsMap, PInvariance, PTL DEF Spec, ImplementsLoadSharing, Promise!Spec
==============================================================================
