----------------------------- MODULE ExpiryHeap ------------------------------
(****************************************************************************)
(* container/heap on the expiryHeap of internal/cache/lru.go.                *)
(*                                                                           *)
(* A heap is a record: items is the slice (position p of the Go slice is     *)
(* items[p + 1]), index is the heapIndex field of every entry, -1 outside    *)
(* the heap.  time is the expiresAt of every entry.  Positions below are     *)
(* those of the Go code, from 0.                                             *)
(****************************************************************************)
EXTENDS Integers, Sequences, SequencesExt

At(h, p) == h.items[p + 1]
Size(h)  == Len(h.items)

Less(h, time, p, q) == time[At(h, p)] < time[At(h, q)]

\* Swap keeps both heapIndex fields right.
Swap(h, p, q) ==
    [items |-> [h.items EXCEPT ![p + 1] = At(h, q), ![q + 1] = At(h, p)],
     index |-> [h.index EXCEPT ![At(h, q)] = p, ![At(h, p)] = q]]

\* Push appends, Pop takes the last off.
PushLast(h, e) ==
    [items |-> Append(h.items, e), index |-> [h.index EXCEPT ![e] = Size(h)]]

PopLast(h) ==
    [items |-> Front(h.items), index |-> [h.index EXCEPT ![Last(h.items)] = -1]]

\* One turn of the loop in heap.up, on a heap and the position of the element
\* that is sifted: it changes places with its parent if it expires earlier.
ClimbOnce(s, time) ==
    LET parent == (s.at - 1) \div 2 IN
    IF s.at = 0 \/ ~Less(s.heap, time, s.at, parent) THEN s
    ELSE [heap |-> Swap(s.heap, s.at, parent), at |-> parent]

\* heap.up: sift the element at position p towards the root, which it reaches
\* in p turns at most.
Up(h, time, p) ==
    LET turn[n \in 0..p] ==
            IF n = 0 THEN [heap |-> h, at |-> p] ELSE ClimbOnce(turn[n - 1], time)
    IN  turn[p].heap

\* The smaller child of p among the first n positions.
SmallerChild(h, time, p, n) ==
    LET left == 2 * p + 1 IN
    IF left + 1 < n /\ Less(h, time, left + 1, left) THEN left + 1 ELSE left

\* One turn of the loop in heap.down, among the first n positions.
SinkOnce(s, time, n) ==
    LET child == SmallerChild(s.heap, time, s.at, n) IN
    IF 2 * s.at + 1 >= n \/ ~Less(s.heap, time, child, s.at) THEN s
    ELSE [heap |-> Swap(s.heap, child, s.at), at |-> child]

\* heap.down: sift the element at p towards the leaves of the first n, which
\* it reaches in n turns at most.
Down(h, time, p, n) ==
    LET turn[m \in 0..n] ==
            IF m = 0 THEN [heap |-> h, at |-> p] ELSE SinkOnce(turn[m - 1], time, n)
    IN  turn[n].heap

\* Mutant of Sift: the element moved to position p is only sifted down.
SiftDownOnly(h, time, p, n) == Down(h, time, p, n)

\* "if !down(...) { up(...) }": up only when down did not move the element.
Sift(h, time, p, n) ==
    LET moved == Down(h, time, p, n) IN
    IF moved # h THEN moved ELSE Up(h, time, p)

HeapPush(h, time, e) == Up(PushLast(h, e), time, Size(h))

HeapFix(h, time, p) == Sift(h, time, p, Size(h))

HeapRemove(h, time, p) ==
    LET n == Size(h) - 1 IN
    PopLast(IF n = p THEN h ELSE Sift(Swap(h, p, n), time, p, n))

------------------------------------------------------------------------------
(* What a heap has to be                                                     *)

\* No entry expires before its parent in the tree.
Ordered(h, time) ==
    \A p \in 1..(Size(h) - 1) : ~Less(h, time, p, (p - 1) \div 2)

\* heapIndex of an entry is its position, -1 when it has none.
IndexAgrees(h) ==
    /\ \A p \in 0..(Size(h) - 1) : h.index[At(h, p)] = p
    /\ \A e \in DOMAIN h.index : h.index[e] # -1 => e \in ToSet(h.items)

Entries(h) == ToSet(h.items)

Sound(h, time) == Ordered(h, time) /\ IndexAgrees(h) /\ IsInjective(h.items)
==============================================================================
