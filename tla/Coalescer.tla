------------------------------ MODULE Coalescer ------------------------------
(****************************************************************************)
(* internal/cache/coalescer.go: concurrent loads of one key are collapsed    *)
(* into one call that all interested requests wait for.                      *)
(*                                                                           *)
(* A request is one invocation of DoShared.  A call record of the Go code is *)
(* named by the request that created it, so "c" below is both a call and the *)
(* request whose DoShared found no entry for its key; DoShared reports       *)
(* shared = TRUE to r exactly when joined[r] # r.  One section under         *)
(* coalescer.mu is one action; everything outside the mutex (the context     *)
(* check, the select, the load itself) is an action of its own.              *)
(****************************************************************************)
EXTENDS Integers, FiniteSets, FiniteSetsExt

CONSTANTS
    Requests,      \* invocations of DoShared, hence also the possible calls
    Keys,          \* coalescing keys
    Results,       \* what a load may return: a value or an error, opaque here
    Deadlines,     \* instants a request's context may expire at
    NoDeadline,    \* the context has no deadline (bounded = false)
    BaseDeadline,  \* deadline of the base context of the load contexts
    None           \* a nil map entry, a result or reply not there yet

ASSUME NoneAssumption == None \notin Requests \cup Results
ASSUME DeadlineAssumption ==
    /\ Deadlines \subseteq Nat
    /\ NoDeadline \notin Nat
    /\ BaseDeadline \in Nat \cup {NoDeadline}
ASSUME CancelledAssumption == "cancelled" \notin Results /\ None # "cancelled"

VARIABLES
    pc,            \* where each request is inside DoShared
    key,           \* the key it asks for
    budget,        \* the deadline of its context
    ctxDone,       \* its context is cancelled or expired
    joined,        \* "current" of its DoShared: the call it waits for
    wid,           \* its waiterID in that call
    outcome,       \* what DoShared returned to it
    calls,         \* coalescer.calls
    waiters,       \* call.waiters
    nextWaiterID,  \* call.nextWaiterID
    budgets,       \* call.budgets: waiterID -> deadline
    cancelled,     \* call.cancel was called
    stage,         \* progress of the goroutine run of the call
    result,        \* what load returned; readable by waiters once completed
    baseDone       \* the base context is done

requestVars == <<pc, key, budget, joined, wid, outcome>>
callVars    == <<calls, waiters, nextWaiterID, budgets, cancelled>>
loadVars    == <<stage, result>>
ctxVars     == <<ctxDone, baseDone>>
vars        == <<requestVars, callVars, loadVars, ctxVars>>

Budgets == Deadlines \cup {NoDeadline}
Stages  == {"none", "loading", "returned", "completed"}

\* A request between taking part in a call and leaving it.
Attached(c) == {r \in Requests : pc[r] \in {"waiting", "leaving"} /\ joined[r] = c}

\* The goroutine of the call has not yet entered its final locked section.
Unfinished(c) == stage[c] \in {"loading", "returned"}

\* The context handed to the load is done.
LoadContextDone(c) == cancelled[c] \/ baseDone

Init ==
    /\ pc = [r \in Requests |-> "idle"]
    /\ key \in [Requests -> Keys]
    /\ budget \in [Requests -> Budgets]
    /\ ctxDone = [r \in Requests |-> FALSE]
    /\ joined = [r \in Requests |-> None]
    /\ wid = [r \in Requests |-> 0]
    /\ outcome = [r \in Requests |-> None]
    /\ calls = [k \in Keys |-> None]
    /\ waiters = [c \in Requests |-> 0]
    /\ nextWaiterID = [c \in Requests |-> 0]
    /\ budgets = [c \in Requests |-> [i \in {} |-> NoDeadline]]
    /\ cancelled = [c \in Requests |-> FALSE]
    /\ stage = [c \in Requests |-> "none"]
    /\ result = [c \in Requests |-> None]
    /\ baseDone = FALSE

------------------------------------------------------------------------------
(* DoShared, one request                                                     *)

\* DoShared is entered: a context that is already done is refused at once,
\* without touching the map.
Enter(r) ==
    /\ pc[r] = "idle"
    /\ IF ctxDone[r]
       THEN /\ pc' = [pc EXCEPT ![r] = "returned"]
            /\ outcome' = [outcome EXCEPT ![r] = "cancelled"]
       ELSE /\ pc' = [pc EXCEPT ![r] = "checked"]
            /\ UNCHANGED outcome
    /\ UNCHANGED <<key, budget, joined, wid, callVars, loadVars, ctxVars>>

\* addWaiter: the context's deadline is recorded under a fresh waiter id.
AddWaiter(c, r) ==
    LET id == nextWaiterID[c] + 1 IN
    /\ nextWaiterID' = [nextWaiterID EXCEPT ![c] = id]
    /\ wid' = [wid EXCEPT ![r] = id]
    /\ budgets' = [budgets EXCEPT ![c] =
           [i \in DOMAIN budgets[c] \cup {id} |->
               IF i = id THEN budget[r] ELSE budgets[c][i]]]
    /\ waiters' = [waiters EXCEPT ![c] = waiters[c] + 1]

\* The locked section of DoShared, there is a call for the key: join it.
Join(r) ==
    /\ pc[r] = "checked"
    /\ calls[key[r]] # None
    /\ joined' = [joined EXCEPT ![r] = calls[key[r]]]
    /\ AddWaiter(calls[key[r]], r)
    /\ pc' = [pc EXCEPT ![r] = "waiting"]
    /\ UNCHANGED <<key, budget, outcome, calls, cancelled, loadVars, ctxVars>>

\* The locked section of DoShared, there is none: create it, start its load.
Start(r) ==
    /\ pc[r] = "checked"
    /\ calls[key[r]] = None
    /\ joined' = [joined EXCEPT ![r] = r]
    /\ calls' = [calls EXCEPT ![key[r]] = r]
    /\ AddWaiter(r, r)
    /\ stage' = [stage EXCEPT ![r] = "loading"]
    /\ pc' = [pc EXCEPT ![r] = "waiting"]
    /\ UNCHANGED <<key, budget, outcome, cancelled, result, ctxVars>>

\* Mutant of ReturnResult: a waiter reads the result as soon as load has
\* returned, before done is closed.
ReturnResultEarly(r) ==
    /\ pc[r] = "waiting"
    /\ stage[joined[r]] \in {"returned", "completed"}
    /\ pc' = [pc EXCEPT ![r] = "returned"]
    /\ outcome' = [outcome EXCEPT ![r] = result[joined[r]]]
    /\ UNCHANGED <<key, budget, joined, wid, callVars, loadVars, ctxVars>>

\* The select takes <-current.done.
ReturnResult(r) ==
    /\ pc[r] = "waiting"
    /\ stage[joined[r]] = "completed"
    /\ pc' = [pc EXCEPT ![r] = "returned"]
    /\ outcome' = [outcome EXCEPT ![r] = result[joined[r]]]
    /\ UNCHANGED <<key, budget, joined, wid, callVars, loadVars, ctxVars>>

\* Mutant of ObserveCancel: a waiter looks at its context only when the load
\* is over.
ObserveCancelLate(r) ==
    /\ pc[r] = "waiting"
    /\ ctxDone[r] /\ stage[joined[r]] = "completed"
    /\ pc' = [pc EXCEPT ![r] = "leaving"]
    /\ UNCHANGED <<key, budget, joined, wid, outcome, callVars, loadVars, ctxVars>>

\* The select takes <-ctx.Done(), which it may do even when done is closed
\* too; detach has not got the mutex yet.
ObserveCancel(r) ==
    /\ pc[r] = "waiting"
    /\ ctxDone[r]
    /\ pc' = [pc EXCEPT ![r] = "leaving"]
    /\ UNCHANGED <<key, budget, joined, wid, outcome, callVars, loadVars, ctxVars>>

\* Mutants of RemoveWaiter: the request that started the load takes it down,
RemoveStarterCancels(c, r) ==
    /\ budgets' = [budgets EXCEPT ![c] =
           [i \in DOMAIN budgets[c] \ {wid[r]} |-> budgets[c][i]]]
    /\ waiters' = [waiters EXCEPT ![c] = waiters[c] - 1]
    /\ IF waiters[c] = 1 \/ r = c
       THEN /\ calls' = IF calls[key[r]] = c
                        THEN [calls EXCEPT ![key[r]] = None] ELSE calls
            /\ cancelled' = [cancelled EXCEPT ![c] = TRUE]
       ELSE UNCHANGED <<calls, cancelled>>
    /\ UNCHANGED nextWaiterID

\* the budget of a request that left keeps counting,
RemoveWaiterKeepsBudget(c, r) ==
    /\ waiters' = [waiters EXCEPT ![c] = waiters[c] - 1]
    /\ IF waiters[c] = 1
       THEN /\ calls' = IF calls[key[r]] = c
                        THEN [calls EXCEPT ![key[r]] = None] ELSE calls
            /\ cancelled' = [cancelled EXCEPT ![c] = TRUE]
       ELSE UNCHANGED <<calls, cancelled>>
    /\ UNCHANGED <<budgets, nextWaiterID>>

\* the cancelled load stays in the map,
RemoveWaiterKeepsEntry(c, r) ==
    /\ budgets' = [budgets EXCEPT ![c] =
           [i \in DOMAIN budgets[c] \ {wid[r]} |-> budgets[c][i]]]
    /\ waiters' = [waiters EXCEPT ![c] = waiters[c] - 1]
    /\ cancelled' = [cancelled EXCEPT ![c] = cancelled[c] \/ waiters[c] = 1]
    /\ UNCHANGED <<calls, nextWaiterID>>

\* the last waiter forgets to cancel the load.
RemoveWaiterNoCancel(c, r) ==
    /\ budgets' = [budgets EXCEPT ![c] =
           [i \in DOMAIN budgets[c] \ {wid[r]} |-> budgets[c][i]]]
    /\ waiters' = [waiters EXCEPT ![c] = waiters[c] - 1]
    /\ calls' = IF waiters[c] = 1 /\ calls[key[r]] = c
                THEN [calls EXCEPT ![key[r]] = None] ELSE calls
    /\ UNCHANGED <<cancelled, nextWaiterID>>

\* detach of an unfinished call: the last waiter to leave removes the call
\* from the map and cancels its load.
RemoveWaiter(c, r) ==
    /\ budgets' = [budgets EXCEPT ![c] =
           [i \in DOMAIN budgets[c] \ {wid[r]} |-> budgets[c][i]]]
    /\ waiters' = [waiters EXCEPT ![c] = waiters[c] - 1]
    /\ IF waiters[c] = 1
       THEN /\ calls' = IF calls[key[r]] = c
                        THEN [calls EXCEPT ![key[r]] = None] ELSE calls
            /\ cancelled' = [cancelled EXCEPT ![c] = TRUE]
       ELSE UNCHANGED <<calls, cancelled>>
    /\ UNCHANGED nextWaiterID

\* detach, and the return of ctx.Err() after it.
Detach(r) ==
    /\ pc[r] = "leaving"
    /\ IF stage[joined[r]] = "completed"
       THEN UNCHANGED callVars
       ELSE RemoveWaiter(joined[r], r)
    /\ pc' = [pc EXCEPT ![r] = "returned"]
    /\ outcome' = [outcome EXCEPT ![r] = "cancelled"]
    /\ UNCHANGED <<key, budget, joined, wid, loadVars, ctxVars>>

------------------------------------------------------------------------------
(* run, the goroutine of one call                                            *)

\* load returns; the mutex is not held.  The load may return anything, also
\* after its context was cancelled.
LoadReturns(c, v) ==
    /\ stage[c] = "loading"
    /\ stage' = [stage EXCEPT ![c] = "returned"]
    /\ result' = [result EXCEPT ![c] = v]
    /\ UNCHANGED <<requestVars, callVars, ctxVars>>

\* Mutant of Finish: an abandoned load drops whatever its key maps to now.
FinishDropsSuccessor(c) ==
    /\ stage[c] = "returned"
    /\ stage' = [stage EXCEPT ![c] = "completed"]
    /\ calls' = [calls EXCEPT ![key[c]] = None]
    /\ cancelled' = [cancelled EXCEPT ![c] = TRUE]
    /\ UNCHANGED <<requestVars, waiters, nextWaiterID, budgets, result, ctxVars>>

\* The locked section of run: publish, drop the map entry if it is still
\* this call's, close done, cancel.
Finish(c) ==
    /\ stage[c] = "returned"
    /\ stage' = [stage EXCEPT ![c] = "completed"]
    /\ calls' = IF calls[key[c]] = c
                THEN [calls EXCEPT ![key[c]] = None] ELSE calls
    /\ cancelled' = [cancelled EXCEPT ![c] = TRUE]
    /\ UNCHANGED <<requestVars, waiters, nextWaiterID, budgets, result, ctxVars>>

------------------------------------------------------------------------------
(* Contexts                                                                  *)

\* A request's own context is cancelled by its client or its deadline passes.
CtxExpires(r) ==
    /\ pc[r] # "returned"
    /\ ~ctxDone[r]
    /\ ctxDone' = [ctxDone EXCEPT ![r] = TRUE]
    /\ UNCHANGED <<requestVars, callVars, loadVars, baseDone>>

\* The base context given to NewCoalescer is cancelled.
BaseCancelled ==
    /\ ~baseDone
    /\ baseDone' = TRUE
    /\ UNCHANGED <<requestVars, callVars, loadVars, ctxDone>>

RequestStep(r) ==
    \/ Enter(r)
    \/ Join(r)
    \/ Start(r)
    \/ ReturnResult(r)
    \/ ObserveCancel(r)
    \/ Detach(r)

LoadStep(c) ==
    \/ \E v \in Results : LoadReturns(c, v)
    \/ Finish(c)

Next ==
    \/ \E r \in Requests : RequestStep(r) \/ LoadStep(r) \/ CtxExpires(r)
    \/ BaseCancelled

Spec == Init /\ [][Next]_vars

------------------------------------------------------------------------------
(* EffectiveDeadline: the budget a retrying load reads from its context      *)

LatestBudget(c) == Max({budgets[c][i] : i \in DOMAIN budgets[c]})

WaitersBounded(c) ==
    /\ budgets[c] # << >>
    /\ \A i \in DOMAIN budgets[c] : budgets[c][i] # NoDeadline

EffectiveDeadline(c) ==
    CASE /\ BaseDeadline # NoDeadline
         /\ ~WaitersBounded(c) \/ BaseDeadline < LatestBudget(c) -> BaseDeadline
      [] /\ WaitersBounded(c)
         /\ BaseDeadline = NoDeadline \/ LatestBudget(c) <= BaseDeadline -> LatestBudget(c)
      [] OTHER -> NoDeadline

\* waitForRetry starts a wait that ends at t only if this holds.
Fits(t, deadline) == deadline = NoDeadline \/ t <= deadline

\* The instants at which two deadlines can be told apart.
Instants == UNION {{d, d + 1} : d \in Deadlines \cup ({BaseDeadline} \ {NoDeadline})}

------------------------------------------------------------------------------
(* What the environment and the scheduler owe                                *)

\* A goroutine that can run does run, every request context ends (the HTTP
\* handler gives each one a timeout) and a load whose context is done
\* returns.  Nothing is assumed of a load whose context is not done.
Fairness ==
    \A r \in Requests :
        /\ WF_vars(RequestStep(r))
        /\ WF_vars(CtxExpires(r))
        /\ WF_vars(LoadContextDone(r) /\ \E v \in Results : LoadReturns(r, v))
        /\ WF_vars(Finish(r))

FairSpec == Spec /\ Fairness

------------------------------------------------------------------------------
(* Properties                                                                *)

\* Every variable has its type.
TypeOK ==
    /\ pc \in [Requests -> {"idle", "checked", "waiting", "leaving", "returned"}]
    /\ key \in [Requests -> Keys]
    /\ budget \in [Requests -> Budgets]
    /\ ctxDone \in [Requests -> BOOLEAN]
    /\ joined \in [Requests -> Requests \cup {None}]
    /\ wid \in [Requests -> Nat]
    /\ outcome \in [Requests -> Results \cup {None, "cancelled"}]
    /\ calls \in [Keys -> Requests \cup {None}]
    /\ waiters \in [Requests -> Nat]
    /\ nextWaiterID \in [Requests -> Nat]
    /\ DOMAIN budgets = Requests
    /\ \A c \in Requests :
          /\ DOMAIN budgets[c] \in SUBSET (1..nextWaiterID[c])
          /\ budgets[c] \in [DOMAIN budgets[c] -> Budgets]
    /\ cancelled \in [Requests -> BOOLEAN]
    /\ stage \in [Requests -> Stages]
    /\ result \in [Requests -> Results \cup {None}]
    /\ baseDone \in BOOLEAN

\* At most one load that somebody still wants runs for a key: what the
\* coalescer is for.  An abandoned load may overlap its replacement.
OneLiveLoadPerKey ==
    \A c, d \in Requests :
        /\ Unfinished(c) /\ ~cancelled[c]
        /\ Unfinished(d) /\ ~cancelled[d]
        /\ key[c] = key[d]
        => c = d

\* "A caller's cancellation only detaches that caller": an unfinished load is
\* cancelled exactly when its last request has left, never under a sibling
\* and never kept running for nobody.
CancelledExactlyWhenUnwanted ==
    \A c \in Requests : Unfinished(c) => (cancelled[c] <=> Attached(c) = {})

\* A request never joins a call whose load is already cancelled or published,
\* so nobody is answered with the failure of a load abandoned before it came.
JoinsOnlyLiveLoads ==
    [][\A r \in Requests :
          pc[r] = "checked" /\ pc'[r] = "waiting" /\ joined'[r] # r =>
              LET c == joined'[r] IN
              Unfinished(c) /\ ~cancelled[c] /\ key[c] = key[r]]_vars

\* The budget a load sees admits a retry exactly when the base context and at
\* least one request still waiting could use its answer.
AdmitsWhatSomeWaiterCanUse ==
    \A c \in Requests : Unfinished(c) =>
        \A t \in Instants :
            Fits(t, EffectiveDeadline(c)) <=>
                /\ Fits(t, BaseDeadline)
                /\ Attached(c) = {} \/ \E r \in Attached(c) : Fits(t, budget[r])

\* Every DoShared returns, even if the load it waits for hangs.
EveryRequestReturns ==
    \A r \in Requests : pc[r] = "checked" ~> pc[r] = "returned"

\* No goroutine is left behind: every load ends, because it is cancelled once
\* all its requests have left.
EveryLoadEnds ==
    \A c \in Requests : stage[c] = "loading" ~> stage[c] = "completed"

------------------------------------------------------------------------------
(* The inductive invariant                                                   *)

\* An attached request waits for a call that was started for its key.
AttachedToCall ==
    \A r \in Requests : pc[r] \in {"waiting", "leaving"} =>
        /\ joined[r] \in Requests
        /\ stage[joined[r]] # "none"
        /\ key[joined[r]] = key[r]

\* A call belongs to a request that has passed the locked section.
CallHasOwner ==
    \A c \in Requests : stage[c] # "none" => pc[c] \notin {"idle", "checked"}

\* The map holds exactly the live loads, each under its key.
MapIndexesLiveLoads ==
    \A k \in Keys, c \in Requests :
        calls[k] = c <=> key[c] = k /\ Unfinished(c) /\ ~cancelled[c]

\* The bookkeeping of an unfinished call is that of its attached requests:
\* each has an entry of its own with its deadline, and there are no others.
WaitersMatchBudgets ==
    \A c \in Requests : Unfinished(c) =>
        /\ DOMAIN budgets[c] = {wid[r] : r \in Attached(c)}
        /\ \A r \in Attached(c) : budgets[c][wid[r]] = budget[r]
        /\ \A r, s \in Attached(c) : wid[r] = wid[s] => r = s
        /\ waiters[c] = Cardinality(DOMAIN budgets[c])

\* A call that was never started has no trace.
FreshCallIsEmpty ==
    \A c \in Requests : stage[c] = "none" =>
        /\ waiters[c] = 0
        /\ budgets[c] = << >>
        /\ ~cancelled[c]

IInv ==
    /\ TypeOK
    /\ AttachedToCall
    /\ CallHasOwner
    /\ MapIndexesLiveLoads
    /\ WaitersMatchBudgets
    /\ FreshCallIsEmpty
    /\ CancelledExactlyWhenUnwanted
==============================================================================
