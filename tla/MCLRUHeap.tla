------------------------------ MODULE MCLRUHeap ------------------------------
EXTENDS LRUHeap, TLC

\* Six entries are the fewest on which a removal has to sift up: the last
\* element, which takes the free place, must come from another subtree.
MaxHeap == 6
Instants == 1..4

\* The heap of n entries that are named by their places.
Heap(n) == [items |-> [p \in 1..n |-> p], index |-> [e \in 1..MaxHeap |-> IF e <= n THEN e - 1 ELSE -1]]

\* Push, Fix and Remove keep every sound heap sound, whichever entry they
\* concern and whatever its new time is.  LRUHeap reaches only shallow heaps,
\* so all heaps of up to six entries are tried here, once.
HeapOperationsSound ==
    entries = {} /\ now = 0 =>
        \A n \in 0..MaxHeap : \A time \in [1..MaxHeap -> Instants] :
            (Ordered(Heap(n), time) /\ \A e \in (n + 1)..MaxHeap : time[e] = 1) =>
                /\ \A e \in 1..n : Sound(HeapRemove(Heap(n), time, e - 1), time)
                /\ \A e \in 1..n, t \in Instants :
                      LET moved == [time EXCEPT ![e] = t]
                      IN  Sound(HeapFix(Heap(n), moved, e - 1), moved)
                /\ n < MaxHeap => \A t \in Instants :
                      LET pushed == [time EXCEPT ![n + 1] = t]
                      IN  Sound(HeapPush(Heap(n), pushed, n + 1), pushed)
==============================================================================
