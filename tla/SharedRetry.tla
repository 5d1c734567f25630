----------------------------- MODULE SharedRetry ------------------------------
(****************************************************************************)
(* The retry of a shared load: getJSON (internal/anilibria/client.go) runs   *)
(* inside a call of the coalescer and asks the call's context, through       *)
(* EffectiveDeadline, whether the wait before the next attempt fits the      *)
(* budgets of the requests that wait at that moment.  EffectiveDeadline      *)
(* holds the coalescer's mutex, run publishes under it later: between the    *)
(* two, requests leave and join.                                             *)
(*                                                                           *)
(* The coalescer is EXTENDed unchanged.  There is no clock: a wait ends at an *)
(* instant that is compared with deadlines, a context may be done any time.  *)
(****************************************************************************)
EXTENDS Coalescer

CONSTANTS
    Answer,       \* what a load returns in the end, a value or its last error
    Refused,      \* the error of a load whose next wait did not fit
    WaitEnds,     \* instants at which the wait before a retry may end
    MaxAttempts   \* maxAttempts of the client

ASSUME RetryAssumption ==
    /\ {Answer, Refused} \subseteq Results /\ Answer # Refused
    /\ WaitEnds \subseteq Nat
    /\ MaxAttempts \in Nat \ {0}

VARIABLES
    repeats,      \* attempts the load of each call has made beyond its first
    refusal,      \* history: the end of the wait it was refused, None before
    witnesses     \* history: the waiter ids given out when it was refused

retryVars == <<repeats, refusal, witnesses>>
allVars   == <<vars, retryVars>>

RetryInit ==
    /\ Init
    /\ repeats = [c \in Requests |-> 0]
    /\ refusal = [c \in Requests |-> None]
    /\ witnesses = [c \in Requests |-> 0]

------------------------------------------------------------------------------
(* The loop of getJSON inside the load of call c                             *)

\* An attempt ended with a retriable status and is not the last; the wait
\* before the next would end at t.
RetryDue(c, t) ==
    /\ stage[c] = "loading"
    /\ repeats[c] + 1 < MaxAttempts
    /\ t \in WaitEnds

\* Mutant of Refuse: the budget is that of the request that started the
\* load.
RefuseForStarter(c, t) ==
    /\ RetryDue(c, t)
    /\ ~Fits(t, budget[c])
    /\ LoadReturns(c, Refused)
    /\ refusal' = [refusal EXCEPT ![c] = t]
    /\ witnesses' = [witnesses EXCEPT ![c] = nextWaiterID[c]]
    /\ UNCHANGED repeats

\* waitForRetry refuses the wait against the deadline of this moment.
Refuse(c, t) ==
    /\ RetryDue(c, t)
    /\ ~Fits(t, EffectiveDeadline(c))
    /\ LoadReturns(c, Refused)
    /\ refusal' = [refusal EXCEPT ![c] = t]
    /\ witnesses' = [witnesses EXCEPT ![c] = nextWaiterID[c]]
    /\ UNCHANGED repeats

\* It fits: the wait begins, and the next attempt comes after it.
Retry(c, t) ==
    /\ RetryDue(c, t)
    /\ Fits(t, EffectiveDeadline(c))
    /\ repeats' = [repeats EXCEPT ![c] = repeats[c] + 1]
    /\ UNCHANGED <<vars, refusal, witnesses>>

\* The load ends otherwise: an answer, an error that is not repeated, the
\* last attempt, or a context found done.
Conclude(c) ==
    /\ LoadReturns(c, Answer)
    /\ UNCHANGED retryVars

\* The coalescer's own steps.
Share(r) ==
    /\ RequestStep(r) \/ Finish(r) \/ CtxExpires(r)
    /\ UNCHANGED retryVars

BaseEnds ==
    /\ BaseCancelled
    /\ UNCHANGED retryVars

RetryNext ==
    \/ \E c \in Requests :
          \/ \E t \in WaitEnds : Refuse(c, t) \/ Retry(c, t)
          \/ Conclude(c)
          \/ Share(c)
    \/ BaseEnds

RetrySpec == RetryInit /\ [][RetryNext]_allVars

------------------------------------------------------------------------------
(* Properties                                                                *)

\* The wait that ends at t would have been of use to r.
CouldUse(r, t) == Fits(t, BaseDeadline) /\ Fits(t, budget[r])

\* A request is answered with a refusal it had the budget for only if it
\* joined after the refusal was decided: whoever waited at that moment, and
\* nobody who had left by then, decided it.
RefusalConcernsThePresent ==
    \A r \in Requests :
        LET c == joined[r] IN
        outcome[r] = Refused /\ CouldUse(r, refusal[c]) => wid[r] > witnesses[c]
==============================================================================
