------------------------- MODULE CoalescerRefinement -------------------------
(****************************************************************************)
(* The refinement mapping from the coalescer to the promise it makes.        *)
(****************************************************************************)
EXTENDS Coalescer

\* What is left of the stages of a load: whether it runs and whether it ended.
StateOf ==
    [none |-> "none", loading |-> "running", returned |-> "running", completed |-> "done"]

abstractState == [c \in Requests |-> StateOf[stage[c]]]

abstractAnswer ==
    [c \in Requests |-> IF stage[c] = "completed" THEN result[c] ELSE None]

abstractMembers == [c \in Requests |-> Attached(c)]

Promise == INSTANCE LoadSharing WITH
    want    <- key,
    reply   <- outcome,
    members <- abstractMembers,
    state   <- abstractState,
    answer  <- abstractAnswer

\* The coalescer implements load sharing: the mutex-protected map, the waiter
\* counter and the done channel give every request what LoadSharing promises.
ImplementsLoadSharing == Promise!Spec
==============================================================================
