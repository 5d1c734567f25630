----------------------------- MODULE LoadSharing -----------------------------
(****************************************************************************)
(* What the coalescer promises, without mutex, map, waiter ids or counters:  *)
(* requests for a key share one running load as long as somebody wants it.   *)
(****************************************************************************)
CONSTANTS Requests, Keys, Results, None

VARIABLES
    want,     \* the key a request asks for
    reply,    \* what a request was told: None, a result, or "cancelled"
    members,  \* the requests that wait for a load
    state,    \* "none", "running" or "done", per load
    answer    \* the result of a load that is done

vars == <<want, reply, members, state, answer>>

Running(l) == state[l] = "running"

\* Somebody waits for the load.
Wanted(l) == members[l] # {}

\* The request has not been placed with a load and has no reply.
Unserved(r) == reply[r] = None /\ \A l \in Requests : r \notin members[l]

Init ==
    /\ want \in [Requests -> Keys]
    /\ reply = [r \in Requests |-> None]
    /\ members = [l \in Requests |-> {}]
    /\ state = [l \in Requests |-> "none"]
    /\ answer = [l \in Requests |-> None]

\* A request whose context is done on arrival is turned away.
Refuse(r) ==
    /\ Unserved(r)
    /\ reply' = [reply EXCEPT ![r] = "cancelled"]
    /\ UNCHANGED <<want, members, state, answer>>

\* A request starts a load only if no wanted load runs for its key.
Begin(r) ==
    /\ Unserved(r)
    /\ state[r] = "none"
    /\ \A l \in Requests : ~(Running(l) /\ Wanted(l) /\ want[l] = want[r])
    /\ state' = [state EXCEPT ![r] = "running"]
    /\ members' = [members EXCEPT ![r] = {r}]
    /\ UNCHANGED <<want, reply, answer>>

\* A request joins a load that runs for its key and is wanted.
Share(r, l) ==
    /\ Unserved(r)
    /\ Running(l) /\ Wanted(l) /\ want[l] = want[r]
    /\ members' = [members EXCEPT ![l] = @ \cup {r}]
    /\ UNCHANGED <<want, reply, state, answer>>

\* A member gives up, whatever the load does.
Leave(r, l) ==
    /\ r \in members[l]
    /\ members' = [members EXCEPT ![l] = @ \ {r}]
    /\ reply' = [reply EXCEPT ![r] = "cancelled"]
    /\ UNCHANGED <<want, state, answer>>

\* A load ends, wanted or not.
Complete(l, v) ==
    /\ Running(l)
    /\ state' = [state EXCEPT ![l] = "done"]
    /\ answer' = [answer EXCEPT ![l] = v]
    /\ UNCHANGED <<want, reply, members>>

\* A member gets the answer of the load it waits for.
Deliver(r, l) ==
    /\ r \in members[l]
    /\ state[l] = "done"
    /\ members' = [members EXCEPT ![l] = @ \ {r}]
    /\ reply' = [reply EXCEPT ![r] = answer[l]]
    /\ UNCHANGED <<want, state, answer>>

Next ==
    \E r \in Requests :
        \/ Refuse(r)
        \/ Begin(r)
        \/ \E v \in Results : Complete(r, v)
        \/ \E l \in Requests : Share(r, l) \/ Leave(r, l) \/ Deliver(r, l)

Spec == Init /\ [][Next]_vars
==============================================================================
