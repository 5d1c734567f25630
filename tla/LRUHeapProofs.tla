----------------------------- MODULE LRUHeapProofs ----------------------------
(****************************************************************************)
(* What LRUHeap promises for any keys, values, capacity and ttls, and what   *)
(* container/heap's sifting does to heaps of any size.                       *)
(****************************************************************************)
EXTENDS LRUHeap, FiniteSetTheorems, NaturalsInduction, SequenceTheorems, TLAPS

------------------------------------------------------------------------------
(* Loops: functions that are defined turn by turn                            *)

\* A set of numbers that is not empty has a least one.
LEMMA LeastExists ==
    ASSUME NEW S \in SUBSET Nat, S # {}
    PROVE  \E m \in S : \A x \in S : m <= x
  <1> DEFINE Before == OpToRel(<, Nat)
  <1>1. IsWellFoundedOn(Before, Nat)
    BY NatLessThanWellFounded
  <1>2. \A i, j \in Nat : i < j => <<i, j>> \in Before
    BY DEF OpToRel
  <1> HIDE DEF Before
  <1>3. \E m \in S : \A x \in S : ~(<<x, m>> \in Before)
    BY <1>1, WFMin
  <1>4. PICK m \in S : \A x \in S : <<x, m>> \notin Before
    BY <1>3, Zenon
  <1>5. \A x \in S : m <= x
    <2>1. m \in Nat /\ \A x \in S : x \in Nat
      OBVIOUS
    <2>2. \A x \in S : ~(x < m)
      BY <1>2, <1>4, <2>1, Zenon
    <2> QED
      BY <2>1, <2>2
  <1> QED
    BY <1>5

\* f takes N turns from s on, within S.
Runs(f, N, S, step, s) ==
    f \in [0..N -> S] /\ f[0] = s /\ \A n \in 1..N : f[n] = step[f[n - 1]]

\* A loop whose turns lead from states to states runs for any number of
\* turns: the least number it could not run for would be one more than one it
\* can.
LEMMA LoopRuns ==
    ASSUME NEW N \in Nat, NEW S, NEW step \in [S -> S], NEW s \in S
    PROVE  \E f : Runs(f, N, S, step, s)
  <1> DEFINE Has(k)  == \E f \in [0..k -> S] : f[0] = s /\ \A n \in 1..k : f[n] = step[f[n - 1]]
             Lacking == {k \in 0..N : ~Has(k)}
  <1>1. Has(0)
    <2> DEFINE f == [n \in 0..0 |-> s]
    <2>1. f \in [0..0 -> S] /\ f[0] = s /\ \A n \in 1..0 : f[n] = step[f[n - 1]]
      OBVIOUS
    <2> QED
      BY <2>1
  <1>2. ASSUME NEW k \in 1..N, Has(k - 1) PROVE Has(k)
    <2>1. PICK g \in [0..(k - 1) -> S] : g[0] = s /\ \A n \in 1..(k - 1) : g[n] = step[g[n - 1]]
      BY <1>2
    <2> DEFINE f == [n \in 0..k |-> IF n = k THEN step[g[k - 1]] ELSE g[n]]
    <2>2. k \in Nat /\ k - 1 \in 0..(k - 1) /\ 0 \in 0..k /\ 0 # k
      OBVIOUS
    <2>3. f \in [0..k -> S]
      <3>1. step[g[k - 1]] \in S
        BY <2>2
      <3>2. \A n \in 0..k : n # k => g[n] \in S
        BY <2>2
      <3> QED
        BY <3>1, <3>2
    <2>4. f[0] = s
      BY <2>1, <2>2
    <2>5. ASSUME NEW n \in 1..k PROVE f[n] = step[f[n - 1]]
      <3>1. n - 1 \in 0..k /\ n - 1 # k /\ n \in 0..k
        BY <2>2
      <3>2. f[n - 1] = g[n - 1]
        BY <3>1
      <3>3. CASE n = k
        BY <3>1, <3>2, <3>3
      <3>4. CASE n # k
        <4>1. n \in 1..(k - 1)
          BY <2>2, <3>4
        <4>2. g[n] = step[g[n - 1]]
          BY <2>1, <4>1
        <4>3. f[n] = g[n]
          BY <3>1, <3>4
        <4> QED
          BY <3>2, <4>2, <4>3
      <3> QED
        BY <3>3, <3>4
    <2> HIDE DEF f
    <2> QED
      BY <2>3, <2>4, <2>5
  <1> HIDE DEF Has
  <1>3. Lacking = {}
    <2> SUFFICES ASSUME Lacking # {} PROVE FALSE
      OBVIOUS
    <2>1. PICK k \in Lacking : \A j \in Lacking : k <= j
      <3>1. Lacking \in SUBSET Nat
        OBVIOUS
      <3> QED
        BY <3>1, LeastExists
    <2>2. k # 0 /\ k \in 0..N
      BY <1>1
    <2>3. k \in 1..N /\ k - 1 \in 0..N /\ ~(k <= k - 1)
      BY <2>2
    <2>4. Has(k - 1)
      BY <2>1, <2>3
    <2> QED
      BY <1>2, <2>3, <2>4
  <1>4. Has(N)
    BY <1>3
  <1> QED
    BY <1>4 DEF Has, Runs

\* What holds before the first turn and is carried from turn to turn holds at
\* the end.
LEMMA LoopKeeps ==
    ASSUME NEW N \in Nat, NEW I, NEW f, f[0] \in I[0],
           \A n \in 1..N : f[n - 1] \in I[n - 1] => f[n] \in I[n]
    PROVE  f[N] \in I[N]
  <1> DEFINE Broken == {n \in 0..N : f[n] \notin I[n]}
  <1> SUFFICES ASSUME Broken # {} PROVE FALSE
    OBVIOUS
  <1>1. PICK n \in Broken : \A m \in Broken : n <= m
    <2>1. Broken \in SUBSET Nat
      OBVIOUS
    <2> QED
      BY <2>1, LeastExists
  <1>2. n # 0 /\ n \in 0..N
    OBVIOUS
  <1>3. n \in 1..N /\ n - 1 \in 0..N /\ ~(n <= n - 1)
    BY <1>2
  <1>4. f[n - 1] \in I[n - 1]
    BY <1>1, <1>3
  <1> QED
    BY <1>3, <1>4

------------------------------------------------------------------------------
(* Heaps                                                                     *)

Parent(q) == (q - 1) \div 2

LEMMA Parents ==
    /\ \A q \in Nat : q > 0 =>
          Parent(q) \in Nat /\ Parent(q) < q /\ (q = 2 * Parent(q) + 1 \/ q = 2 * Parent(q) + 2)
    /\ \A p \in Nat : Parent(2 * p + 1) = p /\ Parent(2 * p + 2) = p
  BY DEF Parent

\* A heap of entries from E whose entries know their places.
Heaps(E)     == [items : Seq(E), index : [E -> Int]]
Placed(h, E) == h \in Heaps(E) /\ IsInjective(h.items) /\ IndexAgrees(h)

LEMMA HeapFacts ==
    ASSUME NEW E, NEW h, Placed(h, E)
    PROVE  /\ h = [items |-> h.items, index |-> h.index]
           /\ h.items \in Seq(E) /\ h.index \in [E -> Int]
           /\ Size(h) \in Nat /\ DOMAIN h.items = 1..Size(h)
           /\ \A p \in 0..(Size(h) - 1) : At(h, p) \in E /\ h.index[At(h, p)] = p
           /\ \A p, q \in 0..(Size(h) - 1) : At(h, p) = At(h, q) => p = q
           /\ Entries(h) = {At(h, p) : p \in 0..(Size(h) - 1)} /\ Entries(h) \subseteq E
           /\ \A e \in E : h.index[e] # -1 => e \in Entries(h)
  <1>1. h \in [items : Seq(E), index : [E -> Int]]
    BY DEF Placed, Heaps
  <1> DEFINE Lists == Seq(E)
  <1>2. Lists = Seq(E)
    OBVIOUS
  <1> HIDE DEF Lists
  <1>3. /\ h = [items |-> h.items, index |-> h.index]
        /\ h.items \in Lists /\ h.index \in [E -> Int]
    BY <1>1, <1>2
  <1>4. h.items \in Seq(E) /\ Size(h) \in Nat /\ DOMAIN h.items = 1..Size(h)
    BY <1>2, <1>3 DEF Size
  <1>5. \A p \in 0..(Size(h) - 1) : At(h, p) \in E /\ h.index[At(h, p)] = p /\ p + 1 \in 1..Size(h)
    BY <1>4 DEF At, Placed, IndexAgrees
  <1>6. \A p, q \in 0..(Size(h) - 1) : At(h, p) = At(h, q) => p = q
    BY <1>5
  <1>7. Entries(h) = {At(h, p) : p \in 0..(Size(h) - 1)}
    <2>1. \A i \in 1..Size(h) : i - 1 \in 0..(Size(h) - 1) /\ At(h, i - 1) = h.items[i]
      BY <1>4 DEF At
    <2>2. \A p \in 0..(Size(h) - 1) : At(h, p) = h.items[p + 1]
      BY DEF At
    <2>3. Entries(h) = {h.items[i] : i \in 1..Size(h)}
      BY <1>4 DEF Entries, ToSet
    <2>4. \A i \in 1..Size(h) : \E p \in 0..(Size(h) - 1) : At(h, p) = h.items[i]
      BY <2>1
    <2>5. \A p \in 0..(Size(h) - 1) : \E i \in 1..Size(h) : h.items[i] = At(h, p)
      BY <1>5, <2>2
    <2> QED
      BY <2>3, <2>4, <2>5
  <1>8. Entries(h) \subseteq E
    BY <1>5, <1>7
  <1>9. \A e \in E : h.index[e] # -1 => e \in Entries(h)
    BY <1>3 DEF Placed, IndexAgrees, Entries
  <1> QED
    BY <1>3, <1>4, <1>5, <1>6, <1>7, <1>8, <1>9

\* The converse: what has to be shown of a heap.
LEMMA PlacedByFacts ==
    ASSUME NEW E, NEW h, h = [items |-> h.items, index |-> h.index],
           h.items \in Seq(E), h.index \in [E -> Int],
           \A p \in 0..(Size(h) - 1) : h.index[At(h, p)] = p,
           \A e \in E : h.index[e] # -1 => \E p \in 0..(Size(h) - 1) : At(h, p) = e
    PROVE  Placed(h, E)
  <1>1. Size(h) \in Nat /\ DOMAIN h.items = 1..Size(h) /\ DOMAIN h.index = E
    BY DEF Size
  <1>2. h \in Heaps(E)
    <2> DEFINE Lists == Seq(E)
    <2>1. Lists = Seq(E)
      OBVIOUS
    <2> HIDE DEF Lists
    <2>2. [items |-> h.items, index |-> h.index] \in [items : Lists, index : [E -> Int]]
      BY <2>1
    <2> QED
      BY <2>1, <2>2 DEF Heaps
  <1>3. \A i \in 1..Size(h) : h.index[h.items[i]] = i - 1
    <2>1. \A i \in 1..Size(h) : i - 1 \in 0..(Size(h) - 1) /\ At(h, i - 1) = h.items[i]
      BY <1>1 DEF At
    <2> QED
      BY <2>1
  <1>4. IsInjective(h.items)
    <2>1. \A i, j \in 1..Size(h) : h.items[i] = h.items[j] => i = j
      BY <1>1, <1>3
    <2> QED
      BY <1>1, <2>1 DEF IsInjective
  <1>5. IndexAgrees(h)
    <2>1. \A e \in E : h.index[e] # -1 => e \in ToSet(h.items)
      <3>1. \A p \in 0..(Size(h) - 1) : p + 1 \in DOMAIN h.items
        BY <1>1
      <3> QED
        BY <3>1 DEF ToSet, At
    <2> QED
      BY <1>1, <2>1 DEF IndexAgrees
  <1> QED
    BY <1>2, <1>4, <1>5 DEF Placed

\* Swap keeps the entries in their places.
LEMMA SwapKeeps ==
    ASSUME NEW E, NEW h, Placed(h, E), NEW p \in 0..(Size(h) - 1), NEW q \in 0..(Size(h) - 1)
    PROVE  /\ Placed(Swap(h, p, q), E) /\ Size(Swap(h, p, q)) = Size(h)
           /\ Entries(Swap(h, p, q)) = Entries(h)
           /\ \A r \in 0..(Size(h) - 1) :
                 At(Swap(h, p, q), r) =
                    IF r = p THEN At(h, q) ELSE IF r = q THEN At(h, p) ELSE At(h, r)
  <1> DEFINE g == Swap(h, p, q)
             n == Size(h)
  <1>1. /\ h.items \in Seq(E) /\ h.index \in [E -> Int]
        /\ n \in Nat /\ DOMAIN h.items = 1..n
        /\ \A r \in 0..(n - 1) : At(h, r) \in E /\ h.index[At(h, r)] = r
        /\ \A r, s \in 0..(n - 1) : At(h, r) = At(h, s) => r = s
        /\ Entries(h) = {At(h, r) : r \in 0..(n - 1)} /\ Entries(h) \subseteq E
        /\ \A e \in E : h.index[e] # -1 => e \in Entries(h)
    BY HeapFacts
  <1>2. /\ g = [items |-> g.items, index |-> g.index]
        /\ g.items = [h.items EXCEPT ![p + 1] = At(h, q), ![q + 1] = At(h, p)]
        /\ g.index = [h.index EXCEPT ![At(h, q)] = p, ![At(h, p)] = q]
    BY DEF Swap
  <1> HIDE DEF g, n
  <1>3. p \in 0..(n - 1) /\ q \in 0..(n - 1) /\ p + 1 \in 1..n /\ q + 1 \in 1..n
    BY <1>1 DEF n
  <1>4. g.items \in Seq(E) /\ Len(g.items) = n /\ DOMAIN g.items = 1..n
    <2>1. At(h, p) \in E /\ At(h, q) \in E
      BY <1>1, <1>3
    <2>2. n = Len(h.items)
      BY DEF n, Size
    <2> QED
      BY <1>1, <1>2, <1>3, <2>1, <2>2
  <1>5. Size(g) = n
    BY <1>4 DEF Size
  <1>6. \A r \in 0..(n - 1) :
           At(g, r) = IF r = p THEN At(h, q) ELSE IF r = q THEN At(h, p) ELSE At(h, r)
    <2> SUFFICES ASSUME NEW r \in 0..(n - 1)
                 PROVE  At(g, r) = IF r = p THEN At(h, q) ELSE IF r = q THEN At(h, p) ELSE At(h, r)
      OBVIOUS
    <2>1. r + 1 \in 1..n /\ (r + 1 = p + 1 <=> r = p) /\ (r + 1 = q + 1 <=> r = q)
      <3>1. n \in Nat
        BY <1>1
      <3>2. p \in Nat /\ q \in Nat /\ r \in Nat /\ r < n
        BY <1>3, <3>1
      <3> QED
        BY <3>1, <3>2
    <2>2. g.items[r + 1] = IF r + 1 = q + 1 THEN At(h, p)
                           ELSE IF r + 1 = p + 1 THEN At(h, q) ELSE h.items[r + 1]
      BY <1>1, <1>2, <1>3, <2>1
    <2> QED
      BY <2>1, <2>2 DEF At
  <1>7. g.index \in [E -> Int] /\ \A e \in E :
           g.index[e] = IF e = At(h, p) THEN q ELSE IF e = At(h, q) THEN p ELSE h.index[e]
    BY <1>1, <1>2, <1>3
  <1>8. ASSUME NEW r \in 0..(n - 1)
        PROVE  At(g, r) \in E /\ g.index[At(g, r)] = r
    BY <1>1, <1>3, <1>6, <1>7
  <1>9. \A r \in 0..(n - 1) : \E s \in 0..(n - 1) : At(g, s) = At(h, r)
    BY <1>3, <1>6
  <1>10. \A r \in 0..(n - 1) : \E s \in 0..(n - 1) : At(g, r) = At(h, s)
    BY <1>3, <1>6
  <1>11. \A e \in E : g.index[e] # -1 => \E r \in 0..(n - 1) : At(g, r) = e
    <2> SUFFICES ASSUME NEW e \in E, g.index[e] # -1
                 PROVE  \E r \in 0..(n - 1) : At(g, r) = e
      OBVIOUS
    <2>1. e \in Entries(h)
      BY <1>1, <1>3, <1>7
    <2> QED
      BY <1>1, <1>9, <2>1
  <1>12. Placed(g, E)
    <2>1. /\ \A r \in 0..(Size(g) - 1) : g.index[At(g, r)] = r
          /\ \A e \in E : g.index[e] # -1 => \E r \in 0..(Size(g) - 1) : At(g, r) = e
      BY <1>5, <1>8, <1>11
    <2> QED
      BY <1>2, <1>4, <1>7, <2>1, PlacedByFacts
  <1>13. Entries(g) = {At(g, r) : r \in 0..(n - 1)}
    BY <1>5, <1>12, HeapFacts
  <1>14. Entries(g) = Entries(h)
    BY <1>1, <1>9, <1>10, <1>13
  <1> QED
    BY <1>5, <1>6, <1>12, <1>14 DEF g, n

------------------------------------------------------------------------------
(* Sifting up                                                                *)

\* Ordered, as far as the first n positions go.
OrderedTo(h, time, n) == \A q \in 1..(n - 1) : ~Less(h, time, q, Parent(q))

\* Only the entry at p may expire before its parent, and it may not have
\* children that do.
UpReady(h, time, p, n) ==
    \A q \in 1..(n - 1) :
        /\ q # p => ~Less(h, time, q, Parent(q))
        /\ Parent(q) = p /\ p > 0 => ~Less(h, time, q, Parent(p))

\* A turn of up moves the one place where the order is in doubt to the parent.
LEMMA ClimbKeeps ==
    ASSUME NEW E, NEW time \in [E -> Int], NEW h, Placed(h, E),
           NEW n \in 0..Size(h), NEW p \in 0..(n - 1), p # 0,
           UpReady(h, time, p, n), Less(h, time, p, Parent(p))
    PROVE  LET g == Swap(h, p, Parent(p)) IN
           /\ Placed(g, E) /\ Size(g) = Size(h) /\ Entries(g) = Entries(h)
           /\ Parent(p) \in 0..(p - 1) /\ UpReady(g, time, Parent(p), n)
           /\ \A q \in n..(Size(h) - 1) : At(g, q) = At(h, q)
  <1> DEFINE m    == Parent(p)
             g    == Swap(h, p, m)
             t(q) == time[At(h, q)]
             u(q) == time[At(g, q)]
  <1>1. /\ Size(h) \in Nat /\ n \in Nat /\ n <= Size(h) /\ p \in Nat /\ p > 0 /\ p < n
        /\ \A q \in 0..(Size(h) - 1) : At(h, q) \in E
    BY HeapFacts
  <1>2. m \in Nat /\ m < p
    BY <1>1, Parents
  <1>3. /\ p \in 0..(Size(h) - 1) /\ m \in 0..(Size(h) - 1)
        /\ \A q \in 0..(n - 1) : q \in 0..(Size(h) - 1)
    BY <1>1, <1>2
  <1> HIDE DEF m
  <1>4. /\ Placed(g, E) /\ Size(g) = Size(h) /\ Entries(g) = Entries(h)
        /\ \A q \in 0..(Size(h) - 1) :
              At(g, q) = IF q = p THEN At(h, m) ELSE IF q = m THEN At(h, p) ELSE At(h, q)
    <2>1. m \in 0..(Size(h) - 1)
      BY <1>3
    <2> QED
      BY <1>3, <2>1, SwapKeeps, SMTT(30)
  <1>5. \A q \in n..(Size(h) - 1) : At(g, q) = At(h, q)
    BY <1>1, <1>2, <1>4
  <1> HIDE DEF g
  <1>6. /\ \A q \in 0..(n - 1) : t(q) \in Int
        /\ \A q \in 0..(n - 1) : u(q) = IF q = p THEN t(m) ELSE IF q = m THEN t(p) ELSE t(q)
    BY <1>1, <1>3, <1>4
  <1>7. /\ \A q \in 1..(n - 1) : q # p => ~(t(q) < t(Parent(q)))
        /\ \A q \in 1..(n - 1) : Parent(q) = p => ~(t(q) < t(m))
        /\ t(p) < t(m)
    BY <1>1 DEF UpReady, Less, m
  <1>8. \A q \in 1..(n - 1) : Parent(q) \in 0..(n - 1) /\ Parent(q) < q /\ q \in 0..(n - 1)
    BY <1>1, Parents
  <1> HIDE DEF t, u
  <1>9. p \in 0..(n - 1) /\ m \in 0..(n - 1) /\ m # p
    BY <1>1, <1>2
  <1>10. ASSUME NEW q \in 1..(n - 1), q # m
         PROVE  ~(u(q) < u(Parent(q)))
    <2>1. t(q) \in Int /\ t(p) \in Int /\ t(m) \in Int /\ t(Parent(q)) \in Int
      BY <1>6, <1>8, <1>9
    <2>2. u(q) = (IF q = p THEN t(m) ELSE t(q))
      BY <1>6, <1>8, <1>10
    <2>3. u(Parent(q)) = IF Parent(q) = p THEN t(m) ELSE IF Parent(q) = m THEN t(p) ELSE t(Parent(q))
      BY <1>6, <1>8
    <2>4. CASE q = p
      <3>1. Parent(q) = m /\ m # p
        BY <1>9, <2>4 DEF m
      <3> QED
        BY <1>7, <2>1, <2>2, <2>3, <2>4, <3>1
    <2>5. CASE q # p
      <3>1. ~(t(q) < t(Parent(q))) /\ (Parent(q) = p => ~(t(q) < t(m)))
        BY <1>7, <2>5
      <3> QED
        BY <1>7, <2>1, <2>2, <2>3, <2>5, <3>1
    <2> QED
      BY <2>4, <2>5
  <1>11. ASSUME NEW q \in 1..(n - 1), Parent(q) = m, m > 0
         PROVE  ~(u(q) < u(Parent(m)))
    <2>1. m \in 1..(n - 1)
      BY <1>9, <1>11
    <2>2. Parent(m) \in 0..(n - 1) /\ Parent(m) # m /\ Parent(m) # p
      BY <1>2, <1>8, <2>1
    <2>3. u(Parent(m)) = t(Parent(m)) /\ t(Parent(m)) \in Int
      BY <1>6, <2>2
    <2>4. ~(t(m) < t(Parent(m))) /\ t(m) \in Int
      BY <1>6, <1>7, <1>9, <2>1
    <2>5. q # m /\ q \in 0..(n - 1) /\ t(q) \in Int
      BY <1>6, <1>8, <1>11
    <2>6. u(q) = IF q = p THEN t(m) ELSE t(q)
      BY <1>6, <2>5
    <2>7. q # p => ~(t(q) < t(m))
      BY <1>7, <1>11
    <2> QED
      BY <2>3, <2>4, <2>5, <2>6, <2>7
  <1>12. UpReady(g, time, m, n)
    BY <1>10, <1>11 DEF UpReady, Less, u
  <1>13. m \in 0..(p - 1)
    BY <1>1, <1>2
  <1> QED
    BY <1>4, <1>5, <1>12, <1>13 DEF g, m

\* up ends in order if only its entry was out of order.
LEMMA UpSound ==
    ASSUME NEW E, NEW time \in [E -> Int], NEW h, Placed(h, E),
           NEW n \in 0..Size(h), NEW p \in 0..(n - 1), UpReady(h, time, p, n)
    PROVE  LET g == Up(h, time, p) IN
           /\ Placed(g, E) /\ Size(g) = Size(h) /\ Entries(g) = Entries(h)
           /\ OrderedTo(g, time, n)
           /\ \A q \in n..(Size(h) - 1) : At(g, q) = At(h, q)
  <1> DEFINE Sifting(g) == /\ Placed(g, E) /\ Size(g) = Size(h) /\ Entries(g) = Entries(h)
                           /\ \A q \in n..(Size(h) - 1) : At(g, q) = At(h, q)
             States   == {s \in [heap : Heaps(E), at : Nat] :
                             Sifting(s.heap) /\ s.at \in 0..p /\ UpReady(s.heap, time, s.at, n)}
             Stuck(s) == s.at = 0 \/ ~Less(s.heap, time, s.at, Parent(s.at))
             begin    == [heap |-> h, at |-> p]
             Turns(f) == [i \in 0..p |-> IF i = 0 THEN begin ELSE ClimbOnce(f[i - 1], time)]
             turn     == CHOOSE f : f = Turns(f)
             I        == [i \in 0..p |-> {s \in States : s.at <= p - i \/ Stuck(s)}]
             step     == [s \in States |-> ClimbOnce(s, time)]
  <1>1. p \in Nat /\ n \in Nat /\ p < n /\ n <= Size(h) /\ Size(h) \in Nat
    BY HeapFacts
  <1>2. begin \in States
    <2>1. begin \in [heap : Heaps(E), at : Nat] /\ begin.heap = h /\ begin.at = p
      BY <1>1 DEF Placed
    <2> QED
      BY <1>1, <2>1
  <1>3. ASSUME NEW s \in States
        PROVE  /\ ClimbOnce(s, time) \in States
               /\ Stuck(s) => ClimbOnce(s, time) = s
               /\ ~Stuck(s) => ClimbOnce(s, time).at < s.at
    <2>1. /\ s \in [heap : Heaps(E), at : Nat] /\ Sifting(s.heap) /\ s.at \in 0..p
          /\ UpReady(s.heap, time, s.at, n)
      OBVIOUS
    <2>2. CASE Stuck(s)
      <3>1. ClimbOnce(s, time) = s
        BY <2>2 DEF ClimbOnce, Parent
      <3> QED
        BY <2>2, <3>1
    <2>3. CASE ~Stuck(s)
      <3> DEFINE g == Swap(s.heap, s.at, Parent(s.at))
      <3>1. ClimbOnce(s, time) = [heap |-> g, at |-> Parent(s.at)]
        BY <2>3 DEF ClimbOnce, Parent
      <3>2. s.at # 0 /\ Less(s.heap, time, s.at, Parent(s.at))
        BY <2>3
      <3>3. n \in 0..Size(s.heap) /\ s.at \in 0..(n - 1)
        BY <1>1, <2>1
      <3>4. /\ Placed(g, E) /\ Size(g) = Size(s.heap) /\ Entries(g) = Entries(s.heap)
            /\ Parent(s.at) \in 0..(s.at - 1) /\ UpReady(g, time, Parent(s.at), n)
            /\ \A q \in n..(Size(s.heap) - 1) : At(g, q) = At(s.heap, q)
        BY <2>1, <3>2, <3>3, ClimbKeeps
      <3> HIDE DEF g
      <3>5. Sifting(g)
        BY <2>1, <3>4
      <3>6. Parent(s.at) \in 0..p /\ Parent(s.at) \in Nat /\ Parent(s.at) < s.at
        BY <1>1, <2>1, <3>4
      <3>7. g \in Heaps(E)
        BY <3>4 DEF Placed
      <3> HIDE DEF Sifting
      <3>8. [heap |-> g, at |-> Parent(s.at)] \in States
        BY <3>4, <3>5, <3>6, <3>7
      <3> QED
        BY <2>3, <3>1, <3>6, <3>8
    <2> QED
      BY <2>2, <2>3
  <1> HIDE DEF begin
  <1>4. turn = Turns(turn)
    <2>1. step \in [States -> States] /\ \A s \in States : step[s] = ClimbOnce(s, time)
      BY <1>3
    <2> HIDE DEF step, States
    <2>2. PICK f \in [0..p -> States] : f[0] = begin /\ \A i \in 1..p : f[i] = step[f[i - 1]]
      <3>1. \E f : Runs(f, p, States, step, begin)
        BY <1>1, <1>2, <2>1, LoopRuns
      <3> QED
        BY <3>1 DEF Runs
    <2>3. \A i \in 0..p : f[i] = IF i = 0 THEN begin ELSE ClimbOnce(f[i - 1], time)
      <3>1. ASSUME NEW i \in 1..p
            PROVE  f[i] = ClimbOnce(f[i - 1], time)
        <4>1. i - 1 \in 0..p
          BY <1>1
        <4> QED
          BY <2>1, <2>2, <4>1
      <3>2. \A i \in 0..p : i # 0 => i \in 1..p
        BY <1>1
      <3> QED
        BY <2>2, <3>1, <3>2
    <2>4. f = [i \in 0..p |-> f[i]]
      OBVIOUS
    <2>5. f = Turns(f)
      BY <2>3, <2>4
    <2> QED
      BY <2>5
  <1>5. Up(h, time, p) = turn[p].heap
    BY DEF Up, begin
  <1> HIDE DEF turn
  <1>6. turn[0] = begin /\ \A i \in 1..p : turn[i] = ClimbOnce(turn[i - 1], time)
    <2>1. \A i \in 0..p : turn[i] = IF i = 0 THEN begin ELSE ClimbOnce(turn[i - 1], time)
      BY <1>4
    <2>2. 0 \in 0..p /\ \A i \in 1..p : i \in 0..p /\ i # 0
      BY <1>1
    <2> QED
      BY <2>1, <2>2
  <1>7. turn[p] \in I[p]
    <2>1. \A i \in 0..p : I[i] = {s \in States : s.at <= p - i \/ Stuck(s)}
      OBVIOUS
    <2>2. turn[0] \in I[0]
      <3>1. 0 \in 0..p /\ begin.at = p /\ p <= p - 0
        BY <1>1 DEF begin
      <3> HIDE DEF States, Stuck
      <3> QED
        BY <1>2, <1>6, <2>1, <3>1
    <2>3. ASSUME NEW i \in 1..p, turn[i - 1] \in I[i - 1]
          PROVE  turn[i] \in I[i]
      <3> DEFINE s == turn[i - 1]
                 r == ClimbOnce(s, time)
      <3>1. i - 1 \in 0..p /\ i \in 0..p /\ i \in Nat
        BY <1>1
      <3>2. s \in States /\ (s.at <= p - (i - 1) \/ Stuck(s)) /\ turn[i] = r
        BY <1>6, <2>1, <2>3, <3>1
      <3>3. r \in States /\ (Stuck(s) => r = s) /\ (~Stuck(s) => r.at < s.at)
        BY <1>3, <3>2
      <3>4. s.at \in Nat /\ r.at \in Nat
        BY <3>2, <3>3
      <3>5. r.at <= p - i \/ Stuck(r)
        <4>1. CASE Stuck(s)
          <5> HIDE DEF Stuck, r, s
          <5> QED
            BY <3>3, <4>1
        <4>2. CASE ~Stuck(s)
          <5> HIDE DEF Stuck, r, s
          <5> QED
            BY <1>1, <3>1, <3>2, <3>3, <3>4, <4>2
        <4> QED
          BY <4>1, <4>2
      <3> HIDE DEF States, Stuck, r
      <3> QED
        BY <2>1, <3>1, <3>2, <3>3, <3>5
    <2> HIDE DEF I
    <2> QED
      BY <1>1, <2>2, <2>3, LoopKeeps
  <1> DEFINE s == turn[p]
  <1>8. s \in States /\ (s.at <= p - p \/ Stuck(s))
    <2>1. p \in 0..p
      BY <1>1
    <2> HIDE DEF States, Stuck
    <2> QED
      BY <1>7, <2>1
  <1>9. Stuck(s) /\ Sifting(s.heap) /\ UpReady(s.heap, time, s.at, n) /\ s.at \in Nat
    BY <1>1, <1>8
  <1>10. OrderedTo(s.heap, time, n)
    <2>1. ASSUME NEW q \in 1..(n - 1) PROVE ~Less(s.heap, time, q, Parent(q))
      <3>1. CASE q = s.at
        BY <1>9, <3>1
      <3>2. CASE q # s.at
        BY <1>9, <3>2 DEF UpReady
      <3> QED
        BY <3>1, <3>2
    <2> QED
      BY <2>1 DEF OrderedTo
  <1> QED
    BY <1>5, <1>9, <1>10

------------------------------------------------------------------------------
(* Sifting down                                                              *)

\* SmallerChild is a child that no child of p expires before.
LEMMA SmallerChildFirst ==
    ASSUME NEW E, NEW time \in [E -> Int], NEW h, Placed(h, E),
           NEW n \in 0..Size(h), NEW p \in Nat, 2 * p + 1 < n
    PROVE  LET c == SmallerChild(h, time, p, n) IN
           /\ c \in (p + 1)..(n - 1) /\ Parent(c) = p
           /\ \A q \in 1..(n - 1) : Parent(q) = p => ~Less(h, time, q, c)
  <1> DEFINE l == 2 * p + 1
             c == SmallerChild(h, time, p, n)
  <1>1. /\ n \in Nat /\ l \in Nat /\ l < n /\ l + 1 = 2 * p + 2 /\ Size(h) \in Nat /\ n <= Size(h)
        /\ \A q \in 0..(Size(h) - 1) : At(h, q) \in E
    BY HeapFacts
  <1>2. \A q \in 0..(n - 1) : time[At(h, q)] \in Int
    BY <1>1
  <1>3. c = IF l + 1 < n /\ Less(h, time, l + 1, l) THEN l + 1 ELSE l
    BY DEF SmallerChild
  <1>4. Parent(l) = p /\ Parent(l + 1) = p
    BY <1>1, Parents
  <1>5. l \in (p + 1)..(n - 1) /\ (l + 1 < n => l + 1 \in (p + 1)..(n - 1))
    BY <1>1
  <1>6. \A q \in 1..(n - 1) : Parent(q) = p => q = l \/ (q = l + 1 /\ l + 1 < n)
    <2> SUFFICES ASSUME NEW q \in 1..(n - 1), Parent(q) = p
                 PROVE  q = l \/ (q = l + 1 /\ l + 1 < n)
      OBVIOUS
    <2>1. q \in Nat /\ q > 0 /\ q < n
      BY <1>1
    <2>2. q = 2 * p + 1 \/ q = 2 * p + 2
      BY <2>1, Parents
    <2> QED
      BY <1>1, <2>1, <2>2
  <1> HIDE DEF l, c
  <1>7. c \in (p + 1)..(n - 1) /\ Parent(c) = p
    BY <1>3, <1>4, <1>5
  <1>8. ASSUME NEW q \in 1..(n - 1), Parent(q) = p
        PROVE  ~Less(h, time, q, c)
    <2>1. q = l \/ (q = l + 1 /\ l + 1 < n)
      BY <1>6, <1>8
    <2>2. time[At(h, l)] \in Int /\ (l + 1 < n => time[At(h, l + 1)] \in Int)
      BY <1>1, <1>2
    <2>3. CASE l + 1 < n /\ Less(h, time, l + 1, l)
      <3>1. c = l + 1 /\ time[At(h, l + 1)] < time[At(h, l)]
        BY <1>3, <2>3 DEF Less
      <3> QED
        BY <2>1, <2>2, <2>3, <3>1 DEF Less
    <2>4. CASE ~(l + 1 < n /\ Less(h, time, l + 1, l))
      <3>1. c = l /\ (l + 1 < n => ~(time[At(h, l + 1)] < time[At(h, l)]))
        BY <1>3, <2>4 DEF Less
      <3> QED
        BY <2>1, <2>2, <3>1 DEF Less
    <2> QED
      BY <2>3, <2>4
  <1> QED
    BY <1>7, <1>8 DEF c

\* While an entry is sifted down from p it may expire after its children; it
\* may expire before its parent as long as it has not moved.
SinkReady(h, time, p, at, n) ==
    \A q \in 1..(n - 1) :
        /\ Parent(q) # at /\ ~(q = p /\ at = p) => ~Less(h, time, q, Parent(q))
        /\ Parent(q) = at /\ at > 0 => ~Less(h, time, q, Parent(at))

\* A turn of down moves the doubt to the smaller child.
LEMMA SinkKeeps ==
    ASSUME NEW E, NEW time \in [E -> Int], NEW h, Placed(h, E),
           NEW n \in 0..Size(h), NEW p \in Nat, NEW at \in p..(n - 1),
           SinkReady(h, time, p, at, n), 2 * at + 1 < n,
           NEW c, c = SmallerChild(h, time, at, n), Less(h, time, c, at)
    PROVE  /\ Placed(Swap(h, c, at), E) /\ Size(Swap(h, c, at)) = Size(h)
           /\ Entries(Swap(h, c, at)) = Entries(h)
           /\ c \in (at + 1)..(n - 1) /\ SinkReady(Swap(h, c, at), time, p, c, n)
           /\ \A q \in n..(Size(h) - 1) : At(Swap(h, c, at), q) = At(h, q)
  <1> DEFINE g    == Swap(h, c, at)
             t(q) == time[At(h, q)]
             u(q) == time[At(g, q)]
  <1>1. /\ Size(h) \in Nat /\ n \in Nat /\ n <= Size(h) /\ at \in Nat /\ p <= at /\ at < n
        /\ \A q \in 0..(Size(h) - 1) : At(h, q) \in E
    BY HeapFacts
  <1>2. /\ c \in (at + 1)..(n - 1) /\ Parent(c) = at
        /\ \A q \in 1..(n - 1) : Parent(q) = at => ~Less(h, time, q, c)
    BY <1>1, SmallerChildFirst
  <1>3. /\ c \in 0..(Size(h) - 1) /\ at \in 0..(Size(h) - 1)
        /\ \A q \in 0..(n - 1) : q \in 0..(Size(h) - 1)
    BY <1>1, <1>2
  <1>4. /\ Placed(g, E) /\ Size(g) = Size(h) /\ Entries(g) = Entries(h)
        /\ \A q \in 0..(Size(h) - 1) :
              At(g, q) = IF q = c THEN At(h, at) ELSE IF q = at THEN At(h, c) ELSE At(h, q)
    BY <1>3, SwapKeeps, SMTT(30)
  <1>5. \A q \in n..(Size(h) - 1) : At(g, q) = At(h, q)
    BY <1>1, <1>2, <1>4
  <1> HIDE DEF g
  <1>6. /\ \A q \in 0..(n - 1) : t(q) \in Int
        /\ \A q \in 0..(n - 1) : u(q) = IF q = c THEN t(at) ELSE IF q = at THEN t(c) ELSE t(q)
    BY <1>1, <1>3, <1>4
  <1>7. /\ \A q \in 1..(n - 1) : Parent(q) # at /\ q # at => ~(t(q) < t(Parent(q)))
        /\ \A q \in 1..(n - 1) : Parent(q) = at /\ at > 0 => ~(t(q) < t(Parent(at)))
        /\ \A q \in 1..(n - 1) : Parent(q) = at => ~(t(q) < t(c))
        /\ t(c) < t(at)
    BY <1>1, <1>2 DEF SinkReady, Less
  <1>8. \A q \in 1..(n - 1) : Parent(q) \in 0..(n - 1) /\ Parent(q) < q /\ q \in 0..(n - 1)
    BY <1>1, Parents
  <1> HIDE DEF t, u
  <1>9. c \in 0..(n - 1) /\ at \in 0..(n - 1) /\ c # at /\ c \in 1..(n - 1) /\ c # p
    BY <1>1, <1>2
  <1>10. ASSUME NEW q \in 1..(n - 1), Parent(q) # c
         PROVE  ~(u(q) < u(Parent(q)))
    <2>1. t(q) \in Int /\ t(c) \in Int /\ t(at) \in Int /\ t(Parent(q)) \in Int
      BY <1>6, <1>8, <1>9
    <2>2. u(q) = IF q = c THEN t(at) ELSE IF q = at THEN t(c) ELSE t(q)
      BY <1>6, <1>8
    <2>3. u(Parent(q)) = IF Parent(q) = at THEN t(c) ELSE t(Parent(q))
      BY <1>6, <1>8, <1>10
    <2>4. CASE q = c
      BY <1>2, <1>7, <1>9, <2>1, <2>2, <2>3, <2>4
    <2>5. CASE q = at
      <3>1. at > 0 /\ Parent(at) # at /\ at # c
        BY <1>8, <1>9, <2>5
      <3>2. ~(t(c) < t(Parent(at)))
        BY <1>2, <1>7, <1>9, <3>1
      <3> QED
        BY <2>1, <2>2, <2>3, <2>5, <3>1, <3>2
    <2>6. CASE q # c /\ q # at /\ Parent(q) = at
      BY <1>7, <2>1, <2>2, <2>3, <2>6
    <2>7. CASE q # c /\ q # at /\ Parent(q) # at
      BY <1>7, <2>1, <2>2, <2>3, <2>7
    <2> QED
      BY <2>4, <2>5, <2>6, <2>7
  <1>11. ASSUME NEW q \in 1..(n - 1), Parent(q) = c
         PROVE  ~(u(q) < u(Parent(c)))
    <2>1. q # c /\ q # at /\ c # at
      BY <1>2, <1>8, <1>9, <1>11
    <2>2. u(q) = t(q) /\ u(Parent(c)) = t(c)
      BY <1>2, <1>6, <1>8, <1>9, <2>1
    <2> QED
      BY <1>7, <1>11, <2>1, <2>2
  <1>12. SinkReady(g, time, p, c, n)
    BY <1>10, <1>11 DEF SinkReady, Less, u
  <1> QED
    BY <1>2, <1>4, <1>5, <1>12 DEF g

\* down ends in order, or it has moved nothing and up may have to.
LEMMA DownSound ==
    ASSUME NEW E, NEW time \in [E -> Int], NEW h, Placed(h, E),
           NEW n \in 0..Size(h), NEW p \in 0..(n - 1), SinkReady(h, time, p, p, n)
    PROVE  LET g == Down(h, time, p, n) IN
           /\ Placed(g, E) /\ Size(g) = Size(h) /\ Entries(g) = Entries(h)
           /\ \A q \in n..(Size(h) - 1) : At(g, q) = At(h, q)
           /\ OrderedTo(g, time, n) \/ (g = h /\ UpReady(h, time, p, n))
  <1> DEFINE Sifting(g) == /\ Placed(g, E) /\ Size(g) = Size(h) /\ Entries(g) = Entries(h)
                           /\ \A q \in n..(Size(h) - 1) : At(g, q) = At(h, q)
             States   == {s \in [heap : Heaps(E), at : Nat] :
                             /\ Sifting(s.heap) /\ s.at \in p..(n - 1)
                             /\ SinkReady(s.heap, time, p, s.at, n)
                             /\ s.at = p => s.heap = h}
             Child(s) == SmallerChild(s.heap, time, s.at, n)
             Stuck(s) == 2 * s.at + 1 >= n \/ ~Less(s.heap, time, Child(s), s.at)
             begin    == [heap |-> h, at |-> p]
             Turns(f) == [i \in 0..n |-> IF i = 0 THEN begin ELSE SinkOnce(f[i - 1], time, n)]
             turn     == CHOOSE f : f = Turns(f)
             I        == [i \in 0..n |-> {s \in States : s.at >= p + i \/ Stuck(s)}]
             step     == [s \in States |-> SinkOnce(s, time, n)]
  <1>1. p \in Nat /\ n \in Nat /\ p < n /\ n <= Size(h) /\ Size(h) \in Nat
    BY HeapFacts
  <1>2. begin \in States
    <2>1. begin \in [heap : Heaps(E), at : Nat] /\ begin.heap = h /\ begin.at = p
      BY <1>1 DEF Placed
    <2> QED
      BY <1>1, <2>1
  <1>3. ASSUME NEW s \in States
        PROVE  /\ SinkOnce(s, time, n) \in States
               /\ Stuck(s) => SinkOnce(s, time, n) = s
               /\ ~Stuck(s) => SinkOnce(s, time, n).at > s.at
    <2>1. /\ s \in [heap : Heaps(E), at : Nat] /\ Sifting(s.heap) /\ s.at \in p..(n - 1)
          /\ SinkReady(s.heap, time, p, s.at, n)
      OBVIOUS
    <2>2. CASE Stuck(s)
      <3>1. SinkOnce(s, time, n) = s
        BY <2>2 DEF SinkOnce
      <3> QED
        BY <2>2, <3>1
    <2>3. CASE ~Stuck(s)
      <3> DEFINE c == Child(s)
                 g == Swap(s.heap, c, s.at)
      <3>1. SinkOnce(s, time, n) = [heap |-> g, at |-> c]
        BY <2>3 DEF SinkOnce
      <3>2. 2 * s.at + 1 < n /\ Less(s.heap, time, c, s.at)
        BY <1>1, <2>1, <2>3
      <3>3. n \in 0..Size(s.heap) /\ p \in Nat /\ c = SmallerChild(s.heap, time, s.at, n)
        BY <1>1, <2>1
      <3> HIDE DEF c
      <3>4. /\ Placed(g, E) /\ Size(g) = Size(s.heap) /\ Entries(g) = Entries(s.heap)
            /\ c \in (s.at + 1)..(n - 1) /\ SinkReady(g, time, p, c, n)
            /\ \A q \in n..(Size(s.heap) - 1) : At(g, q) = At(s.heap, q)
        BY <2>1, <3>2, <3>3, SinkKeeps
      <3> HIDE DEF g
      <3>5. Sifting(g)
        BY <2>1, <3>4
      <3>6. c \in p..(n - 1) /\ c \in Nat /\ c > s.at /\ c # p
        BY <1>1, <2>1, <3>4
      <3>7. g \in Heaps(E)
        BY <3>4 DEF Placed
      <3> HIDE DEF Sifting
      <3>8. [heap |-> g, at |-> c] \in States
        BY <3>4, <3>5, <3>6, <3>7
      <3> QED
        BY <2>3, <3>1, <3>6, <3>8
    <2> QED
      BY <2>2, <2>3
  <1> HIDE DEF begin
  <1>4. turn = Turns(turn)
    <2>1. step \in [States -> States] /\ \A s \in States : step[s] = SinkOnce(s, time, n)
      BY <1>3
    <2> HIDE DEF step, States
    <2>2. PICK f \in [0..n -> States] : f[0] = begin /\ \A i \in 1..n : f[i] = step[f[i - 1]]
      <3>1. \E f : Runs(f, n, States, step, begin)
        BY <1>1, <1>2, <2>1, LoopRuns
      <3> QED
        BY <3>1 DEF Runs
    <2>3. \A i \in 0..n : f[i] = IF i = 0 THEN begin ELSE SinkOnce(f[i - 1], time, n)
      <3>1. ASSUME NEW i \in 1..n
            PROVE  f[i] = SinkOnce(f[i - 1], time, n)
        <4>1. i - 1 \in 0..n
          BY <1>1
        <4> QED
          BY <2>1, <2>2, <4>1
      <3>2. \A i \in 0..n : i # 0 => i \in 1..n
        BY <1>1
      <3> QED
        BY <2>2, <3>1, <3>2
    <2>4. f = [i \in 0..n |-> f[i]]
      OBVIOUS
    <2>5. f = Turns(f)
      BY <2>3, <2>4
    <2> QED
      BY <2>5
  <1>5. Down(h, time, p, n) = turn[n].heap
    BY DEF Down, begin
  <1> HIDE DEF turn
  <1>6. turn[0] = begin /\ \A i \in 1..n : turn[i] = SinkOnce(turn[i - 1], time, n)
    <2>1. \A i \in 0..n : turn[i] = IF i = 0 THEN begin ELSE SinkOnce(turn[i - 1], time, n)
      BY <1>4
    <2>2. 0 \in 0..n /\ \A i \in 1..n : i \in 0..n /\ i # 0
      BY <1>1
    <2> QED
      BY <2>1, <2>2
  <1>7. turn[n] \in I[n]
    <2>1. \A i \in 0..n : I[i] = {s \in States : s.at >= p + i \/ Stuck(s)}
      OBVIOUS
    <2>2. turn[0] \in I[0]
      <3>1. 0 \in 0..n /\ begin.at = p /\ p >= p + 0
        BY <1>1 DEF begin
      <3> HIDE DEF States, Stuck
      <3> QED
        BY <1>2, <1>6, <2>1, <3>1
    <2>3. ASSUME NEW i \in 1..n, turn[i - 1] \in I[i - 1]
          PROVE  turn[i] \in I[i]
      <3> DEFINE s == turn[i - 1]
                 r == SinkOnce(s, time, n)
      <3>1. i - 1 \in 0..n /\ i \in 0..n /\ i \in Nat
        BY <1>1
      <3>2. s \in States /\ (s.at >= p + (i - 1) \/ Stuck(s)) /\ turn[i] = r
        BY <1>6, <2>1, <2>3, <3>1
      <3>3. r \in States /\ (Stuck(s) => r = s) /\ (~Stuck(s) => r.at > s.at)
        BY <1>3, <3>2
      <3>4. s.at \in Nat /\ r.at \in Nat
        BY <3>2, <3>3
      <3>5. r.at >= p + i \/ Stuck(r)
        <4>1. CASE Stuck(s)
          <5> HIDE DEF Stuck, r, s
          <5> QED
            BY <3>3, <4>1
        <4>2. CASE ~Stuck(s)
          <5> HIDE DEF Stuck, r, s
          <5> QED
            BY <1>1, <3>1, <3>2, <3>3, <3>4, <4>2
        <4> QED
          BY <4>1, <4>2
      <3> HIDE DEF States, Stuck, r
      <3> QED
        BY <2>1, <3>1, <3>2, <3>3, <3>5
    <2> HIDE DEF I
    <2> QED
      BY <1>1, <2>2, <2>3, LoopKeeps
  <1> DEFINE s == turn[n]
  <1>8. s \in States /\ (s.at >= p + n \/ Stuck(s))
    <2>1. n \in 0..n
      BY <1>1
    <2> HIDE DEF States, Stuck
    <2> QED
      BY <1>7, <2>1
  <1>9. /\ Sifting(s.heap) /\ SinkReady(s.heap, time, p, s.at, n) /\ s.at \in p..(n - 1)
        /\ s.at = p => s.heap = h
    BY <1>8
  <1>10. Stuck(s)
    <2>1. ~(s.at >= p + n)
      BY <1>1, <1>9
    <2> QED
      BY <1>8, <2>1
  <1>11. ASSUME NEW q \in 1..(n - 1), Parent(q) = s.at
         PROVE  ~Less(s.heap, time, q, s.at)
    <2>1. 2 * s.at + 1 < n /\ s.at \in Nat
      <3>1. s.at \in Nat
        BY <1>1, <1>9
      <3>2. q \in Nat /\ q > 0 /\ q < n
        BY <1>1
      <3>3. q = 2 * s.at + 1 \/ q = 2 * s.at + 2
        BY <1>11, <3>2, Parents
      <3> QED
        BY <1>1, <3>1, <3>2, <3>3
    <2>2. n \in 0..Size(s.heap) /\ Placed(s.heap, E)
      BY <1>9
    <2> DEFINE c == Child(s)
    <2>3. /\ c \in (s.at + 1)..(n - 1)
          /\ ~Less(s.heap, time, q, c)
      BY <1>11, <2>1, <2>2, SmallerChildFirst
    <2>4. ~Less(s.heap, time, c, s.at)
      BY <1>1, <1>9, <1>10, <2>1
    <2> HIDE DEF c
    <2>5. /\ Size(s.heap) \in Nat /\ n <= Size(s.heap)
          /\ \A r \in 0..(Size(s.heap) - 1) : At(s.heap, r) \in E
      BY <2>2, HeapFacts
    <2>6. q \in 0..(Size(s.heap) - 1) /\ c \in 0..(Size(s.heap) - 1) /\ s.at \in 0..(Size(s.heap) - 1)
      BY <1>1, <1>9, <2>1, <2>3, <2>5
    <2>7. time[At(s.heap, q)] \in Int /\ time[At(s.heap, c)] \in Int /\ time[At(s.heap, s.at)] \in Int
      BY <2>5, <2>6
    <2> QED
      BY <2>3, <2>4, <2>7 DEF Less
  <1>12. OrderedTo(s.heap, time, n) \/ (s.heap = h /\ UpReady(h, time, p, n))
    <2>1. CASE s.at = p
      <3>1. s.heap = h
        BY <1>9, <2>1
      <3>2. UpReady(h, time, p, n)
        BY <1>9, <1>11, <2>1, <3>1 DEF UpReady, SinkReady
      <3> QED
        BY <3>1, <3>2
    <2>2. CASE s.at # p
      BY <1>9, <1>11, <2>2 DEF OrderedTo, SinkReady
    <2> QED
      BY <2>1, <2>2
  <1> QED
    BY <1>5, <1>9, <1>12

\* heap.Fix's two loops put an entry in order whose time alone has changed, or
\* that was moved to p from elsewhere in the heap.
LEMMA SiftSound ==
    ASSUME NEW E, NEW time \in [E -> Int], NEW h, Placed(h, E),
           NEW n \in 0..Size(h), NEW p \in 0..(n - 1), SinkReady(h, time, p, p, n)
    PROVE  LET g == Sift(h, time, p, n) IN
           /\ Placed(g, E) /\ Size(g) = Size(h) /\ Entries(g) = Entries(h)
           /\ OrderedTo(g, time, n)
           /\ \A q \in n..(Size(h) - 1) : At(g, q) = At(h, q)
  <1> DEFINE moved == Down(h, time, p, n)
  <1>1. /\ Placed(moved, E) /\ Size(moved) = Size(h) /\ Entries(moved) = Entries(h)
        /\ \A q \in n..(Size(h) - 1) : At(moved, q) = At(h, q)
        /\ OrderedTo(moved, time, n) \/ (moved = h /\ UpReady(h, time, p, n))
    BY DownSound
  <1>2. Sift(h, time, p, n) = IF moved # h THEN moved ELSE Up(h, time, p)
    BY DEF Sift
  <1> HIDE DEF moved
  <1>3. CASE moved # h
    BY <1>1, <1>2, <1>3
  <1>4. CASE moved = h
    <2>1. UpReady(h, time, p, n)
      <3>1. CASE UpReady(h, time, p, n)
        BY <3>1
      <3>2. CASE OrderedTo(h, time, n)
        <4>1. n \in Nat /\ Size(h) \in Nat /\ n <= Size(h) /\ \A q \in 0..(Size(h) - 1) : At(h, q) \in E
          BY HeapFacts
        <4>2. ASSUME NEW q \in 1..(n - 1), Parent(q) = p, p > 0
              PROVE  ~Less(h, time, q, Parent(p))
          <5>1. ~Less(h, time, q, p)
            BY <3>2, <4>2 DEF OrderedTo
          <5>2. ~Less(h, time, p, Parent(p))
            <6>1. p \in 1..(n - 1)
              BY <4>1, <4>2
            <6> QED
              BY <3>2, <6>1 DEF OrderedTo
          <5>3. p \in Nat /\ Parent(p) \in Nat /\ Parent(p) < p
            <6>1. p \in Nat
              BY <4>1
            <6> QED
              BY <4>2, <6>1, Parents
          <5>4. time[At(h, q)] \in Int /\ time[At(h, p)] \in Int /\ time[At(h, Parent(p))] \in Int
            <6>1. /\ q \in 0..(Size(h) - 1) /\ p \in 0..(Size(h) - 1)
                  /\ Parent(p) \in 0..(Size(h) - 1)
              BY <4>1, <5>3
            <6> QED
              BY <4>1, <6>1
          <5> QED
            BY <5>1, <5>2, <5>4 DEF Less
        <4> QED
          BY <3>2, <4>2 DEF OrderedTo, UpReady
      <3> QED
        BY <1>1, <1>4, <3>1, <3>2
    <2> QED
      BY <1>2, <1>4, <2>1, UpSound
  <1> QED
    BY <1>3, <1>4

------------------------------------------------------------------------------
(* Push, Fix, Remove and Pop                                                 *)

LEMMA OrderedAsParents ==
    ASSUME NEW h, NEW time
    PROVE  Ordered(h, time) <=> OrderedTo(h, time, Size(h))
  BY DEF Ordered, OrderedTo, Parent

\* The order looks only at the times of the heap's entries.
LEMMA OrderedFramed ==
    ASSUME NEW E, NEW h, Placed(h, E), NEW time, NEW later,
           \A e \in Entries(h) : later[e] = time[e], Ordered(h, time)
    PROVE  Ordered(h, later)
  <1>1. Size(h) \in Nat /\ Entries(h) = {At(h, p) : p \in 0..(Size(h) - 1)}
    BY HeapFacts
  <1>2. \A p \in 0..(Size(h) - 1) : later[At(h, p)] = time[At(h, p)]
    BY <1>1
  <1>3. ASSUME NEW q \in 1..(Size(h) - 1) PROVE ~Less(h, later, q, Parent(q))
    <2>1. q \in Nat /\ q > 0
      BY <1>1
    <2>2. Parent(q) \in Nat /\ Parent(q) < q
      BY <2>1, Parents
    <2>3. Parent(q) \in 0..(Size(h) - 1) /\ q \in 0..(Size(h) - 1)
      BY <1>1, <2>1, <2>2
    <2>4. ~Less(h, time, q, Parent(q))
      BY OrderedAsParents DEF OrderedTo
    <2> QED
      BY <1>2, <2>3, <2>4 DEF Less
  <1> QED
    BY <1>3, OrderedAsParents DEF OrderedTo

\* Pushed and sifted up, a new entry joins the others in order.
LEMMA HeapPushSound ==
    ASSUME NEW E, NEW time \in [E -> Int], NEW h, Placed(h, E), Ordered(h, time),
           NEW e \in E, e \notin Entries(h)
    PROVE  LET g == HeapPush(h, time, e) IN
           Placed(g, E) /\ Ordered(g, time) /\ Entries(g) = Entries(h) \cup {e}
  <1> DEFINE n == Size(h)
             g == PushLast(h, e)
  <1>1. /\ h.items \in Seq(E) /\ h.index \in [E -> Int] /\ n \in Nat /\ DOMAIN h.items = 1..n
        /\ \A p \in 0..(n - 1) : At(h, p) \in E /\ h.index[At(h, p)] = p
        /\ Entries(h) = {At(h, p) : p \in 0..(n - 1)}
        /\ \A d \in E : h.index[d] # -1 => d \in Entries(h)
    BY HeapFacts
  <1>2. /\ g = [items |-> g.items, index |-> g.index]
        /\ g.items = Append(h.items, e) /\ g.index = [h.index EXCEPT ![e] = n]
    BY DEF PushLast
  <1>3. n = Len(h.items)
    BY DEF Size
  <1> HIDE DEF g, n
  <1>4. g.items \in Seq(E) /\ Size(g) = n + 1
    BY <1>1, <1>2, <1>3 DEF Size
  <1>5. At(g, n) = e /\ \A p \in 0..(n - 1) : At(g, p) = At(h, p)
    <2>1. \A p \in 0..(n - 1) : p + 1 \in 1..Len(h.items)
      BY <1>1, <1>3
    <2>2. \A p \in 0..(n - 1) : Append(h.items, e)[p + 1] = h.items[p + 1]
      BY <1>1, <2>1
    <2>3. Append(h.items, e)[n + 1] = e
      BY <1>1, <1>3
    <2> QED
      BY <1>2, <2>2, <2>3 DEF At
  <1>6. \A p \in 0..(Size(g) - 1) : p = n \/ p \in 0..(n - 1)
    BY <1>1, <1>4
  <1>7. g.index \in [E -> Int]
        /\ \A d \in E : g.index[d] = IF d = e THEN n ELSE h.index[d]
    BY <1>1, <1>2
  <1>8. \A p \in 0..(n - 1) : At(h, p) # e
    BY <1>1
  <1>9. \A p \in 0..(Size(g) - 1) : g.index[At(g, p)] = p
    BY <1>1, <1>5, <1>6, <1>7, <1>8
  <1>10. n \in 0..(Size(g) - 1) /\ \A p \in 0..(n - 1) : p \in 0..(Size(g) - 1)
    BY <1>1, <1>4
  <1>11. \A d \in Entries(h) \cup {e} : \E p \in 0..(Size(g) - 1) : At(g, p) = d
    BY <1>1, <1>5, <1>10
  <1>12. \A d \in E : g.index[d] # -1 => \E p \in 0..(Size(g) - 1) : At(g, p) = d
    BY <1>1, <1>7, <1>11
  <1>13. Placed(g, E)
    BY <1>2, <1>4, <1>7, <1>9, <1>12, PlacedByFacts
  <1>14. Entries(g) = Entries(h) \cup {e}
    <2>1. Entries(g) = {At(g, p) : p \in 0..(Size(g) - 1)}
      BY <1>13, HeapFacts
    <2>2. \A p \in 0..(Size(g) - 1) : At(g, p) \in Entries(h) \cup {e}
      BY <1>1, <1>5, <1>6
    <2> QED
      BY <1>11, <2>1, <2>2
  <1>15. UpReady(g, time, n, n + 1)
    <2>1. (n + 1) - 1 = n
      BY <1>1
    <2>2. ASSUME NEW q \in 1..n
          PROVE  /\ q # n => ~Less(g, time, q, Parent(q))
                 /\ Parent(q) # n
      <3>1. q \in Nat /\ q > 0 /\ q <= n
        BY <1>1
      <3>2. Parent(q) \in Nat /\ Parent(q) < q
        BY <3>1, Parents
      <3>3. ASSUME q # n PROVE ~Less(g, time, q, Parent(q))
        <4>1. q \in 1..(n - 1) /\ q \in 0..(n - 1) /\ Parent(q) \in 0..(n - 1)
          BY <1>1, <3>1, <3>2, <3>3
        <4>2. ~Less(h, time, q, Parent(q))
          BY <4>1, OrderedAsParents DEF OrderedTo, n
        <4> QED
          BY <1>5, <4>1, <4>2 DEF Less
      <3> QED
        BY <1>1, <3>1, <3>2, <3>3
    <2>3. \A q \in 1..((n + 1) - 1) : /\ q # n => ~Less(g, time, q, Parent(q))
                                    /\ Parent(q) # n
      BY <2>1, <2>2
    <2> QED
      BY <2>3 DEF UpReady
  <1> DEFINE r == Up(g, time, n)
  <1>16. Placed(r, E) /\ Size(r) = n + 1 /\ Entries(r) = Entries(h) \cup {e} /\ OrderedTo(r, time, n + 1)
    <2>1. n + 1 \in 0..Size(g) /\ n \in 0..(n + 1 - 1)
      BY <1>1, <1>4
    <2>2. Placed(r, E) /\ Size(r) = Size(g) /\ Entries(r) = Entries(g) /\ OrderedTo(r, time, n + 1)
      BY <1>13, <1>15, <2>1, UpSound
    <2> QED
      BY <1>4, <1>14, <2>2
  <1>17. r = HeapPush(h, time, e)
    BY DEF HeapPush, g, n
  <1> HIDE DEF r
  <1> QED
    BY <1>16, <1>17, OrderedAsParents

\* Children follow their grandparents in an ordered heap.
LEMMA GrandparentsFirst ==
    ASSUME NEW E, NEW h, Placed(h, E), NEW time \in [E -> Int], Ordered(h, time),
           NEW q \in 1..(Size(h) - 1), Parent(q) > 0
    PROVE  ~Less(h, time, q, Parent(Parent(q)))
  <1>1. Size(h) \in Nat /\ q \in Nat /\ \A p \in 0..(Size(h) - 1) : At(h, p) \in E
    BY HeapFacts
  <1>2. Parent(q) \in Nat /\ Parent(q) < q
    BY <1>1, Parents
  <1>3. Parent(Parent(q)) \in Nat /\ Parent(Parent(q)) < Parent(q)
    BY <1>2, Parents
  <1>4. /\ q \in 0..(Size(h) - 1) /\ Parent(q) \in 1..(Size(h) - 1)
        /\ Parent(q) \in 0..(Size(h) - 1) /\ Parent(Parent(q)) \in 0..(Size(h) - 1)
    BY <1>1, <1>2, <1>3
  <1>5. ~Less(h, time, q, Parent(q)) /\ ~Less(h, time, Parent(q), Parent(Parent(q)))
    BY <1>4, OrderedAsParents DEF OrderedTo
  <1>6. /\ time[At(h, q)] \in Int /\ time[At(h, Parent(q))] \in Int
        /\ time[At(h, Parent(Parent(q)))] \in Int
    BY <1>1, <1>4
  <1> QED
    BY <1>5, <1>6 DEF Less

\* Fixed after the time of the entry at p has changed, the heap is in order
\* again.
LEMMA HeapFixSound ==
    ASSUME NEW E, NEW time \in [E -> Int], NEW later \in [E -> Int],
           NEW h, Placed(h, E), Ordered(h, time), NEW p \in 0..(Size(h) - 1),
           \A e \in Entries(h) : e # At(h, p) => later[e] = time[e]
    PROVE  LET g == HeapFix(h, later, p) IN
           Placed(g, E) /\ Ordered(g, later) /\ Entries(g) = Entries(h)
  <1> DEFINE n == Size(h)
  <1>1. /\ n \in Nat /\ Entries(h) = {At(h, q) : q \in 0..(n - 1)}
        /\ \A q, r \in 0..(n - 1) : At(h, q) = At(h, r) => q = r
    BY HeapFacts
  <1>2. \A q \in 0..(n - 1) : q # p => later[At(h, q)] = time[At(h, q)]
    BY <1>1
  <1>3. \A q \in 1..(n - 1) : /\ q \in 0..(n - 1) /\ Parent(q) \in 0..(n - 1) /\ Parent(q) # q
    <2> SUFFICES ASSUME NEW q \in 1..(n - 1)
                 PROVE  q \in 0..(n - 1) /\ Parent(q) \in 0..(n - 1) /\ Parent(q) # q
      OBVIOUS
    <2>1. q \in Nat /\ q > 0
      BY <1>1
    <2>2. Parent(q) \in Nat /\ Parent(q) < q
      BY <2>1, Parents
    <2> QED
      BY <1>1, <2>1, <2>2
  <1>4. ASSUME NEW q \in 1..(n - 1), q # p, Parent(q) # p
        PROVE  ~Less(h, later, q, Parent(q))
    <2>1. ~Less(h, time, q, Parent(q))
      BY OrderedAsParents DEF OrderedTo
    <2> QED
      BY <1>2, <1>3, <1>4, <2>1 DEF Less
  <1>5. ASSUME NEW q \in 1..(n - 1), Parent(q) = p, p > 0
        PROVE  ~Less(h, later, q, Parent(p))
    <2>1. ~Less(h, time, q, Parent(p))
      BY <1>5, GrandparentsFirst
    <2>2. p \in 1..(n - 1)
      BY <1>1, <1>5
    <2> QED
      BY <1>2, <1>3, <1>5, <2>1, <2>2 DEF Less
  <1>6. n \in 0..Size(h)
    BY <1>1
  <1>7. SinkReady(h, later, p, p, n)
    BY <1>4, <1>5 DEF SinkReady
  <1>8. LET g == Sift(h, later, p, n) IN
        Placed(g, E) /\ Size(g) = n /\ Entries(g) = Entries(h) /\ OrderedTo(g, later, n)
    BY <1>6, <1>7, SiftSound
  <1>9. HeapFix(h, later, p) = Sift(h, later, p, n)
    BY DEF HeapFix
  <1> QED
    BY <1>8, <1>9, OrderedAsParents

\* The last entry leaves; the others keep their places.
LEMMA PopLastSound ==
    ASSUME NEW E, NEW time, NEW h, Placed(h, E), Size(h) > 0, OrderedTo(h, time, Size(h) - 1)
    PROVE  LET g == PopLast(h) IN
           /\ Placed(g, E) /\ Size(g) = Size(h) - 1 /\ Ordered(g, time)
           /\ Entries(g) = Entries(h) \ {At(h, Size(h) - 1)}
  <1> DEFINE n == Size(h) - 1
             g == PopLast(h)
             e == At(h, n)
  <1>1. /\ h.items \in Seq(E) /\ h.index \in [E -> Int] /\ Size(h) \in Nat
        /\ \A p \in 0..(Size(h) - 1) : At(h, p) \in E /\ h.index[At(h, p)] = p
        /\ \A p, q \in 0..(Size(h) - 1) : At(h, p) = At(h, q) => p = q
        /\ Entries(h) = {At(h, p) : p \in 0..(Size(h) - 1)}
        /\ \A d \in E : h.index[d] # -1 => d \in Entries(h)
    BY HeapFacts
  <1>2. n \in Nat /\ Len(h.items) = n + 1 /\ Size(h) = n + 1
    BY <1>1 DEF Size
  <1>3. e = Last(h.items)
    BY <1>2 DEF At, Last
  <1>4. /\ g = [items |-> g.items, index |-> g.index]
        /\ g.items = Front(h.items) /\ g.index = [h.index EXCEPT ![e] = -1]
    BY <1>3 DEF PopLast
  <1> HIDE DEF g, n
  <1>5. g.items \in Seq(E) /\ Len(g.items) = n /\ \A i \in 1..n : g.items[i] = h.items[i]
    <2>1. g.items = SubSeq(h.items, 1, n)
      BY <1>2, <1>4 DEF Front
    <2>2. n \in Int /\ 1 \in Int /\ \A i \in 1..n : h.items[i] \in E
      BY <1>1, <1>2
    <2>3. /\ g.items \in Seq(E) /\ Len(g.items) = IF 1 <= n THEN n - 1 + 1 ELSE 0
          /\ \A i \in 1..(n - 1 + 1) : g.items[i] = h.items[1 + i - 1]
      BY <2>1, <2>2, SubSeqProperties
    <2> QED
      BY <1>2, <2>3
  <1>6. Size(g) = n /\ \A p \in 0..(n - 1) : At(g, p) = At(h, p)
    <2>1. \A p \in 0..(n - 1) : p + 1 \in 1..n
      BY <1>2
    <2> QED
      BY <1>5, <2>1 DEF Size, At
  <1>7. /\ \A p \in 0..n : At(h, p) \in E /\ h.index[At(h, p)] = p
        /\ \A p, q \in 0..n : At(h, p) = At(h, q) => p = q
        /\ Entries(h) = {At(h, p) : p \in 0..n}
    <2>1. Size(h) - 1 = n
      BY DEF n
    <2> QED
      BY <1>1, <2>1
  <1>8. n \in 0..n /\ \A p \in 0..(n - 1) : p \in 0..n /\ p # n
    BY <1>2
  <1>9. e \in E /\ \A p \in 0..(n - 1) : At(h, p) # e
    BY <1>7, <1>8
  <1>10. g.index \in [E -> Int] /\ \A d \in E : g.index[d] = IF d = e THEN -1 ELSE h.index[d]
    BY <1>1, <1>4, <1>9
  <1>11. \A p \in 0..(n - 1) : g.index[At(g, p)] = p
    BY <1>6, <1>7, <1>8, <1>9, <1>10
  <1>12. \A d \in Entries(h) : d # e => \E p \in 0..(n - 1) : At(g, p) = d
    <2>1. \A p \in 0..n : p = n \/ p \in 0..(n - 1)
      BY <1>2
    <2>2. e = At(h, n)
      OBVIOUS
    <2> HIDE DEF e
    <2> QED
      BY <1>6, <1>7, <2>1, <2>2
  <1>13. \A d \in E : g.index[d] # -1 => d # e /\ d \in Entries(h)
    BY <1>1, <1>10
  <1>14. Placed(g, E)
    <2>1. /\ \A p \in 0..(Size(g) - 1) : g.index[At(g, p)] = p
          /\ \A d \in E : g.index[d] # -1 => \E p \in 0..(Size(g) - 1) : At(g, p) = d
      BY <1>6, <1>11, <1>12, <1>13
    <2> QED
      BY <1>4, <1>5, <1>10, <2>1, PlacedByFacts
  <1>15. Entries(g) = Entries(h) \ {e}
    <2>1. Entries(g) = {At(g, p) : p \in 0..(n - 1)}
      BY <1>6, <1>14, HeapFacts
    <2>2. \A p \in 0..(n - 1) : At(g, p) \in Entries(h) /\ At(g, p) # e
      BY <1>6, <1>7, <1>8, <1>9
    <2> QED
      BY <1>12, <2>1, <2>2
  <1>16. OrderedTo(g, time, n)
    <2> SUFFICES ASSUME NEW q \in 1..(n - 1)
                 PROVE  ~Less(g, time, q, Parent(q))
      BY DEF OrderedTo
    <2>1. q \in Nat /\ q > 0
      BY <1>2
    <2>2. Parent(q) \in Nat /\ Parent(q) < q
      BY <2>1, Parents
    <2>3. q \in 0..(n - 1) /\ Parent(q) \in 0..(n - 1)
      BY <1>2, <2>1, <2>2
    <2>4. ~Less(h, time, q, Parent(q))
      BY DEF OrderedTo, n
    <2> QED
      BY <1>6, <2>3, <2>4 DEF Less
  <1>17. Ordered(g, time)
    BY <1>6, <1>16, OrderedAsParents
  <1> QED
    BY <1>6, <1>14, <1>15, <1>17 DEF g, n

\* Whichever entry is removed, the others stay, in order.
LEMMA HeapRemoveSound ==
    ASSUME NEW E, NEW time \in [E -> Int], NEW h, Placed(h, E), Ordered(h, time),
           NEW p \in 0..(Size(h) - 1)
    PROVE  LET g == HeapRemove(h, time, p) IN
           /\ Placed(g, E) /\ Ordered(g, time) /\ Size(g) = Size(h) - 1
           /\ Entries(g) = Entries(h) \ {At(h, p)}
  <1> DEFINE n == Size(h) - 1
             g == Swap(h, p, n)
             f == Sift(g, time, p, n)
  <1>1. /\ Size(h) \in Nat /\ n \in Nat /\ Size(h) = n + 1 /\ n \in 0..(Size(h) - 1)
        /\ p \in 0..n /\ \A q \in 0..(Size(h) - 1) : At(h, q) \in E
    BY HeapFacts
  <1>2. HeapRemove(h, time, p) = PopLast(IF n = p THEN h ELSE f)
    BY DEF HeapRemove
  <1>3. \A q \in 1..n : ~Less(h, time, q, Parent(q))
    BY OrderedAsParents DEF OrderedTo
  <1>4. CASE n = p
    <2>1. OrderedTo(h, time, n)
      <3>1. \A q \in 1..(n - 1) : q \in 1..n
        BY <1>1
      <3> QED
        BY <1>3, <3>1 DEF OrderedTo
    <2>2. Size(h) > 0
      BY <1>1
    <2> QED
      BY <1>2, <1>4, <2>1, <2>2, PopLastSound
  <1>5. CASE n # p
    <2>1. p \in 0..(n - 1) /\ p \in Nat
      BY <1>1, <1>5
    <2>2. /\ Placed(g, E) /\ Size(g) = Size(h) /\ Entries(g) = Entries(h)
          /\ \A r \in 0..(Size(h) - 1) :
                At(g, r) = IF r = p THEN At(h, n) ELSE IF r = n THEN At(h, p) ELSE At(h, r)
      BY <1>1, SwapKeeps, SMTT(60)
    <2> HIDE DEF g
    <2>3. \A r \in 0..(n - 1) : r # p => At(g, r) = At(h, r)
      BY <1>1, <2>2
    <2>4. \A q \in 1..(n - 1) : q \in 0..(n - 1) /\ q \in 1..n /\ Parent(q) \in 0..(n - 1) /\ Parent(q) < q
      <3> SUFFICES ASSUME NEW q \in 1..(n - 1)
                   PROVE  q \in 0..(n - 1) /\ q \in 1..n /\ Parent(q) \in 0..(n - 1) /\ Parent(q) < q
        OBVIOUS
      <3>1. q \in Nat /\ q > 0
        BY <1>1
      <3>2. Parent(q) \in Nat /\ Parent(q) < q
        BY <3>1, Parents
      <3> QED
        BY <1>1, <3>1, <3>2
    <2>5. ASSUME NEW q \in 1..(n - 1), q # p, Parent(q) # p
          PROVE  ~Less(g, time, q, Parent(q))
      BY <1>3, <2>3, <2>4, <2>5 DEF Less
    <2>6. ASSUME NEW q \in 1..(n - 1), Parent(q) = p, p > 0
          PROVE  ~Less(g, time, q, Parent(p))
      <3>1. q \in 1..(Size(h) - 1) /\ q # p
        BY <1>1, <2>4, <2>6
      <3>2. ~Less(h, time, q, Parent(p))
        BY <2>6, <3>1, GrandparentsFirst
      <3>3. p \in 1..(n - 1)
        BY <1>1, <2>1, <2>6
      <3>4. Parent(p) \in 0..(n - 1) /\ Parent(p) # p /\ q \in 0..(n - 1)
        BY <2>1, <2>4, <3>3
      <3> QED
        BY <2>3, <3>1, <3>2, <3>4 DEF Less
    <2>7. SinkReady(g, time, p, p, n)
      BY <2>5, <2>6 DEF SinkReady
    <2>8. n \in 0..Size(g)
      BY <1>1, <2>2
    <2>9. /\ Placed(f, E) /\ Size(f) = Size(g) /\ Entries(f) = Entries(g)
          /\ OrderedTo(f, time, n)
          /\ \A q \in n..(Size(g) - 1) : At(f, q) = At(g, q)
      BY <2>1, <2>2, <2>7, <2>8, SiftSound
    <2> HIDE DEF f
    <2>10. Size(f) = n + 1 /\ Size(f) > 0 /\ Size(f) - 1 = n
      BY <1>1, <2>2, <2>9
    <2>11. At(f, n) = At(h, p)
      <3>1. n \in n..(Size(g) - 1) /\ n # p
        BY <1>1, <1>5, <2>2
      <3> QED
        BY <1>1, <2>2, <2>9, <3>1
    <2> HIDE DEF n
    <2>12. LET r == PopLast(f) IN
           /\ Placed(r, E) /\ Size(r) = n /\ Ordered(r, time)
           /\ Entries(r) = Entries(f) \ {At(f, n)}
      BY <2>9, <2>10, PopLastSound
    <2> QED
      BY <1>2, <1>5, <2>2, <2>9, <2>11, <2>12 DEF n
  <1> QED
    BY <1>4, <1>5

\* heap.Push, Fix and Remove keep every sound heap sound, whatever its size,
\* whichever entry they concern and whatever its new time is.
THEOREM HeapsStaySound ==
    ASSUME NEW E, NEW h \in Heaps(E), NEW time \in [E -> Int], Sound(h, time)
    PROVE  /\ \A p \in 0..(Size(h) - 1) : Sound(HeapRemove(h, time, p), time)
           /\ \A p \in 0..(Size(h) - 1), later \in [E -> Int] :
                 (\A e \in E : e # At(h, p) => later[e] = time[e])
                    => Sound(HeapFix(h, later, p), later)
           /\ \A e \in E, later \in [E -> Int] :
                 e \notin Entries(h) /\ (\A d \in E : d # e => later[d] = time[d])
                    => Sound(HeapPush(h, later, e), later)
  <1>1. Placed(h, E) /\ Ordered(h, time)
    BY DEF Sound, Placed
  <1>2. Entries(h) \subseteq E
    BY <1>1, HeapFacts
  <1>3. ASSUME NEW g, NEW later, Placed(g, E), Ordered(g, later)
        PROVE  Sound(g, later)
    BY <1>3 DEF Sound, Placed
  <1>4. ASSUME NEW p \in 0..(Size(h) - 1)
        PROVE  Sound(HeapRemove(h, time, p), time)
    BY <1>1, <1>3, HeapRemoveSound
  <1>5. ASSUME NEW p \in 0..(Size(h) - 1), NEW later \in [E -> Int],
               \A e \in E : e # At(h, p) => later[e] = time[e]
        PROVE  Sound(HeapFix(h, later, p), later)
    <2>1. \A e \in Entries(h) : e # At(h, p) => later[e] = time[e]
      BY <1>2, <1>5
    <2> QED
      BY <1>1, <1>3, <2>1, HeapFixSound
  <1>6. ASSUME NEW e \in E, NEW later \in [E -> Int], e \notin Entries(h),
               \A d \in E : d # e => later[d] = time[d]
        PROVE  Sound(HeapPush(h, later, e), later)
    <2>1. \A d \in Entries(h) : later[d] = time[d]
      BY <1>2, <1>6
    <2>2. Ordered(h, later)
      BY <1>1, <2>1, OrderedFramed
    <2> QED
      BY <1>1, <1>3, <1>6, <2>2, HeapPushSound
  <1> QED
    BY <1>4, <1>5, <1>6

\* No entry of a heap expires before its root.
LEMMA RootFirst ==
    ASSUME NEW E, NEW time \in [E -> Int], NEW h, Placed(h, E), Ordered(h, time), Size(h) > 0
    PROVE  At(h, 0) \in Entries(h) /\ \A e \in Entries(h) : time[At(h, 0)] <= time[e]
  <1> DEFINE n == Size(h)
  <1>1. /\ n \in Nat /\ n > 0 /\ Entries(h) = {At(h, p) : p \in 0..(n - 1)}
        /\ \A p \in 0..(n - 1) : At(h, p) \in E
    BY HeapFacts
  <1> DEFINE t(q)  == time[At(h, q)]
             Early == {q \in 0..(n - 1) : t(q) < t(0)}
  <1>2. \A q \in 1..(n - 1) : ~(t(q) < t(Parent(q)))
    BY OrderedAsParents DEF OrderedTo, Less
  <1> HIDE DEF n
  <1>3. 0 \in 0..(n - 1) /\ \A q \in 0..(n - 1) : t(q) \in Int
    BY <1>1
  <1> HIDE DEF t
  <1>4. Early = {}
    <2> SUFFICES ASSUME Early # {} PROVE FALSE
      OBVIOUS
    <2>1. PICK q \in Early : \A r \in Early : q <= r
      <3>1. Early \in SUBSET Nat
        BY <1>1
      <3> QED
        BY <3>1, LeastExists
    <2>2. q \in Nat /\ q > 0 /\ q <= n - 1 /\ t(q) < t(0)
      BY <1>1, <1>3
    <2>3. Parent(q) \in Nat /\ Parent(q) < q
      BY <2>2, Parents
    <2>4. Parent(q) \in 0..(n - 1) /\ q \in 1..(n - 1) /\ q \in 0..(n - 1)
      BY <1>1, <2>2, <2>3
    <2>5. t(Parent(q)) < t(0)
      BY <1>2, <1>3, <2>2, <2>4
    <2> QED
      BY <2>1, <2>2, <2>3, <2>4, <2>5
  <1>5. \A q \in 0..(n - 1) : t(0) <= t(q)
    BY <1>3, <1>4
  <1> QED
    BY <1>1, <1>3, <1>5 DEF t

------------------------------------------------------------------------------
(* Lists                                                                     *)

\* The place of every key in a list, 0 if it has none.
Places(list) ==
    [k \in Keys |-> IF k \in ToSet(list) THEN CHOOSE p \in DOMAIN list : list[p] = k ELSE 0]

List(list) == list \in Seq(Keys) /\ IsInjective(list)

LEMMA ListFacts ==
    ASSUME NEW list, List(list)
    PROVE  /\ Len(list) \in Nat /\ DOMAIN list = 1..Len(list)
           /\ \A p \in 1..Len(list) : /\ list[p] \in Keys /\ list[p] \in ToSet(list)
                                      /\ Places(list)[list[p]] = p
           /\ \A p, q \in 1..Len(list) : list[p] = list[q] => p = q
           /\ ToSet(list) \subseteq Keys
           /\ \A k \in ToSet(list) : Places(list)[k] \in 1..Len(list) /\ list[Places(list)[k]] = k
           /\ \A k \in Keys : k \notin ToSet(list) => Places(list)[k] = 0
           /\ Places(list) \in [Keys -> Nat]
  <1>1. Len(list) \in Nat /\ DOMAIN list = 1..Len(list) /\ \A p \in 1..Len(list) : list[p] \in Keys
    BY DEF List
  <1>2. \A p, q \in 1..Len(list) : list[p] = list[q] => p = q
    BY <1>1 DEF List, IsInjective
  <1>3. ToSet(list) = {list[p] : p \in 1..Len(list)}
    BY <1>1 DEF ToSet
  <1>4. ASSUME NEW k \in ToSet(list)
        PROVE  Places(list)[k] \in 1..Len(list) /\ list[Places(list)[k]] = k
    <2>1. k \in Keys /\ \E p \in 1..Len(list) : list[p] = k
      BY <1>1, <1>3
    <2>2. Places(list)[k] = CHOOSE p \in 1..Len(list) : list[p] = k
      BY <1>1, <2>1 DEF Places
    <2> QED
      BY <2>1, <2>2
  <1>5. \A p \in 1..Len(list) : list[p] \in ToSet(list)
    BY <1>3
  <1>6. \A p \in 1..Len(list) : Places(list)[list[p]] = p
    BY <1>2, <1>4, <1>5
  <1>7. \A k \in Keys : k \notin ToSet(list) => Places(list)[k] = 0
    BY DEF Places
  <1>8. Places(list) \in [Keys -> Nat]
    <2>1. \A k \in Keys : Places(list)[k] \in Nat
      BY <1>1, <1>4, <1>7
    <2>2. Places(list) = [k \in Keys |-> Places(list)[k]]
      BY DEF Places
    <2> QED
      BY <2>1, <2>2
  <1> QED
    BY <1>1, <1>2, <1>3, <1>4, <1>5, <1>6, <1>7, <1>8

\* M is L without the keys in S, in the same order.
Thinned(L, M, S) ==
    /\ List(M) /\ ToSet(M) = ToSet(L) \ S
    /\ \A i, j \in ToSet(M) : Places(M)[i] < Places(M)[j] <=> Places(L)[i] < Places(L)[j]

LEMMA ThinnedAgain ==
    ASSUME NEW L, NEW M, NEW N, NEW S, NEW T, Thinned(L, M, S), Thinned(M, N, T)
    PROVE  Thinned(L, N, S \cup T)
  BY DEF Thinned

\* Two lists of the same keys are no longer than each other.
LEMMA ListLength ==
    ASSUME NEW list, List(list)
    PROVE  IsFiniteSet(ToSet(list)) /\ Cardinality(ToSet(list)) = Len(list)
  <1>1. /\ Len(list) \in Nat /\ DOMAIN list = 1..Len(list)
        /\ \A p, q \in 1..Len(list) : list[p] = list[q] => p = q
    BY ListFacts
  <1>2. ToSet(list) = {list[p] : p \in 1..Len(list)}
    BY <1>1 DEF ToSet
  <1>3. list \in Bijection(1..Len(list), ToSet(list))
    <2>1. list \in [1..Len(list) -> ToSet(list)]
      <3>1. list \in [1..Len(list) -> Keys]
        BY DEF List
      <3> QED
        BY <1>2, <3>1
    <2> QED
      BY <1>1, <1>2, <2>1 DEF Bijection, Injection, Surjection, IsInjective
  <1>4. IsFiniteSet(1..Len(list)) /\ Cardinality(1..Len(list)) = Len(list)
    <2>1. 1 \in Int /\ Len(list) \in Int
      BY <1>1
    <2>2. /\ IsFiniteSet(1..Len(list))
          /\ Cardinality(1..Len(list)) = IF 1 > Len(list) THEN 0 ELSE Len(list) - 1 + 1
      BY <2>1, FS_Interval
    <2>3. (IF 1 > Len(list) THEN 0 ELSE Len(list) - 1 + 1) = Len(list)
      BY <1>1
    <2> QED
      BY <2>2, <2>3
  <1>5. ExistsBijection(1..Len(list), ToSet(list))
    BY <1>3 DEF ExistsBijection
  <1> QED
    BY <1>4, <1>5, FS_Bijection

\* The promise counts as FiniteSets does.
LEMMA SameCount == \A S : Promise!Cardinality(S) = Cardinality(S)
  BY DEF Promise!Cardinality, Cardinality

\* What the list keeps is what the promise's ranks keep.
LEMMA ThinnedRanks ==
    ASSUME NEW L, NEW M, NEW S, List(L), Thinned(L, M, S)
    PROVE  Places(M) = Promise!Without(Places(L), S)
  <1>1. /\ Len(M) \in Nat
        /\ \A p \in 1..Len(M) : M[p] \in Keys /\ M[p] \in ToSet(M) /\ Places(M)[M[p]] = p
        /\ \A k \in ToSet(M) : Places(M)[k] \in 1..Len(M) /\ M[Places(M)[k]] = k
        /\ \A k \in Keys : k \notin ToSet(M) => Places(M)[k] = 0
    BY ListFacts DEF Thinned
  <1>2. /\ Len(L) \in Nat /\ ToSet(L) \subseteq Keys
        /\ \A k \in ToSet(L) : Places(L)[k] \in 1..Len(L)
        /\ \A k \in Keys : k \notin ToSet(L) => Places(L)[k] = 0
    BY ListFacts
  <1>3. /\ ToSet(M) = ToSet(L) \ S
        /\ \A i, j \in ToSet(M) : Places(M)[i] < Places(M)[j] <=> Places(L)[i] < Places(L)[j]
    BY DEF Thinned
  <1> DEFINE Ahead(j) == {i \in Keys \ S : Places(L)[i] \in 1..Places(L)[j]}
  <1>4. ASSUME NEW j \in ToSet(M)
        PROVE  Cardinality(Ahead(j)) = Places(M)[j]
    <2> DEFINE q == Places(M)[j]
               f == [p \in 1..q |-> M[p]]
    <2>1. q \in 1..Len(M) /\ q \in Nat
      BY <1>1
    <2>2. j \in ToSet(L) /\ Places(L)[j] \in Nat
      BY <1>2, <1>3
    <2> HIDE DEF q
    <2>3. ASSUME NEW p \in 1..q
          PROVE  M[p] \in Ahead(j)
      <3>1. p \in 1..Len(M)
        BY <1>1, <2>1
      <3>2. M[p] \in ToSet(M) /\ M[p] \in Keys /\ Places(M)[M[p]] = p
        BY <1>1, <3>1
      <3>3. M[p] \in ToSet(L) /\ M[p] \notin S /\ Places(L)[M[p]] \in 1..Len(L)
        BY <1>2, <1>3, <3>2
      <3>4. ~(q < p)
        BY <2>1
      <3>5. ~(Places(L)[j] < Places(L)[M[p]])
        BY <1>3, <3>2, <3>4 DEF q
      <3> QED
        BY <2>2, <3>2, <3>3, <3>5
    <2>4. ASSUME NEW i \in Ahead(j)
          PROVE  \E p \in 1..q : M[p] = i
      <3>1. i \in ToSet(M)
        BY <1>2, <1>3
      <3>2. Places(M)[i] \in 1..Len(M) /\ M[Places(M)[i]] = i
        BY <1>1, <3>1
      <3>3. ~(Places(L)[j] < Places(L)[i])
        BY <1>2, <2>2
      <3>4. ~(q < Places(M)[i])
        BY <1>3, <3>1, <3>3 DEF q
      <3> QED
        BY <1>1, <2>1, <3>2, <3>4
    <2>5. \A p, r \in 1..q : M[p] = M[r] => p = r
      <3>1. \A p \in 1..q : p \in 1..Len(M)
        BY <1>1, <2>1
      <3> QED
        BY <1>1, <3>1
    <2> HIDE DEF Ahead
    <2>6. f \in Bijection(1..q, Ahead(j))
      BY <2>3, <2>4, <2>5 DEF Bijection, Injection, Surjection, IsInjective
    <2>7. ExistsBijection(1..q, Ahead(j))
      BY <2>6 DEF ExistsBijection
    <2>8. IsFiniteSet(1..q) /\ Cardinality(1..q) = q
      <3>1. 1 \in Int /\ q \in Int
        BY <2>1
      <3>2. IsFiniteSet(1..q) /\ Cardinality(1..q) = IF 1 > q THEN 0 ELSE q - 1 + 1
        BY <3>1, FS_Interval
      <3> QED
        BY <2>1, <3>2
    <2> HIDE DEF f
    <2>9. Cardinality(Ahead(j)) = Cardinality(1..q)
      BY <2>7, <2>8, FS_Bijection
    <2> QED
      BY <2>8, <2>9 DEF q
  <1>5. \A j \in Keys :
           Places(M)[j] = IF j \in S \/ Places(L)[j] = 0 THEN 0 ELSE Cardinality(Ahead(j))
    <2> SUFFICES ASSUME NEW j \in Keys
                 PROVE  Places(M)[j] = IF j \in S \/ Places(L)[j] = 0 THEN 0 ELSE Cardinality(Ahead(j))
      OBVIOUS
    <2>1. j \in ToSet(M) <=> ~(j \in S \/ Places(L)[j] = 0)
      BY <1>2, <1>3
    <2> HIDE DEF Ahead
    <2> QED
      BY <1>1, <1>4, <2>1
  <1>6. Places(M) = [j \in Keys |-> Places(M)[j]]
    BY DEF Places
  <1>7. Promise!Without(Places(L), S) =
           [j \in Keys |-> IF j \in S \/ Places(L)[j] = 0 THEN 0 ELSE Cardinality(Ahead(j))]
    BY SameCount DEF Promise!Without
  <1> HIDE DEF Ahead
  <1> QED
    BY <1>5, <1>6, <1>7

\* list.Remove takes one key out; those behind it move up.
LEMMA UnlinkedFacts ==
    ASSUME NEW L, List(L), NEW k \in ToSet(L)
    PROVE  LET M == Unlinked(L, k) IN
           /\ List(M) /\ Len(M) = Len(L) - 1 /\ ToSet(M) = ToSet(L) \ {k}
           /\ \A i \in ToSet(M) :
                 Places(M)[i] = IF Places(L)[i] < Places(L)[k] THEN Places(L)[i] ELSE Places(L)[i] - 1
  <1> DEFINE M == Unlinked(L, k)
             r == Places(L)[k]
             n == Len(L)
  <1>1. /\ n \in Nat /\ DOMAIN L = 1..n /\ ToSet(L) \subseteq Keys
        /\ \A p \in 1..n : L[p] \in Keys /\ L[p] \in ToSet(L) /\ Places(L)[L[p]] = p
        /\ \A p, q \in 1..n : L[p] = L[q] => p = q
        /\ \A i \in ToSet(L) : Places(L)[i] \in 1..n /\ L[Places(L)[i]] = i
    BY ListFacts
  <1>2. r \in 1..n /\ L[r] = k
    BY <1>1
  <1>3. M = SubSeq(L, 1, r - 1) \o SubSeq(L, r + 1, n)
    <2>1. r = CHOOSE p \in DOMAIN L : L[p] = k
      BY <1>1 DEF Places
    <2> QED
      BY <2>1 DEF Unlinked, RemoveAt
  <1> HIDE DEF M, r, n
  <1>4. /\ SubSeq(L, 1, r - 1) \in Seq(Keys) /\ Len(SubSeq(L, 1, r - 1)) = r - 1
        /\ \A p \in 1..(r - 1) : SubSeq(L, 1, r - 1)[p] = L[p]
    <2>1. 1 \in Int /\ r - 1 \in Int /\ \A p \in 1..(r - 1) : L[p] \in Keys
      BY <1>1, <1>2
    <2>2. /\ SubSeq(L, 1, r - 1) \in Seq(Keys)
          /\ Len(SubSeq(L, 1, r - 1)) = IF 1 <= r - 1 THEN (r - 1) - 1 + 1 ELSE 0
          /\ \A p \in 1..((r - 1) - 1 + 1) : SubSeq(L, 1, r - 1)[p] = L[1 + p - 1]
      BY <2>1, SubSeqProperties
    <2> QED
      BY <1>1, <1>2, <2>2
  <1>5. /\ SubSeq(L, r + 1, n) \in Seq(Keys) /\ Len(SubSeq(L, r + 1, n)) = n - r
        /\ \A p \in 1..(n - r) : SubSeq(L, r + 1, n)[p] = L[r + p]
    <2>1. r + 1 \in Int /\ n \in Int /\ \A p \in (r + 1)..n : L[p] \in Keys
      BY <1>1, <1>2
    <2>2. /\ SubSeq(L, r + 1, n) \in Seq(Keys)
          /\ Len(SubSeq(L, r + 1, n)) = IF r + 1 <= n THEN n - (r + 1) + 1 ELSE 0
          /\ \A p \in 1..(n - (r + 1) + 1) : SubSeq(L, r + 1, n)[p] = L[(r + 1) + p - 1]
      BY <2>1, SubSeqProperties
    <2>3. r \in Int /\ n \in Int /\ 1 <= r /\ r <= n
      BY <1>1, <1>2
    <2>4. n - (r + 1) + 1 = n - r /\ \A p \in 1..(n - r) : (r + 1) + p - 1 = r + p
      BY <2>3
    <2> QED
      BY <2>2, <2>3, <2>4
  <1>6. M \in Seq(Keys) /\ Len(M) = n - 1
    BY <1>1, <1>2, <1>3, <1>4, <1>5
  <1>7. \A p \in 1..(n - 1) : M[p] = IF p < r THEN L[p] ELSE L[p + 1]
    <2> SUFFICES ASSUME NEW p \in 1..(n - 1)
                 PROVE  M[p] = IF p < r THEN L[p] ELSE L[p + 1]
      OBVIOUS
    <2>1. r \in Int /\ n \in Int /\ 1 <= r /\ r <= n /\ p \in Int
      BY <1>1, <1>2
    <2>2. CASE p < r
      <3>1. p \in 1..(r - 1)
        BY <2>1, <2>2
      <3>2. M[p] = SubSeq(L, 1, r - 1)[p]
        BY <1>3, <1>4, <1>5, <3>1
      <3> QED
        BY <1>4, <2>2, <3>1, <3>2
    <2>3. CASE ~(p < r)
      <3>1. p - (r - 1) \in 1..(n - r) /\ p \in 1..(r - 1 + (n - r)) /\ p > r - 1
        BY <2>1, <2>3
      <3>2. M[p] = SubSeq(L, r + 1, n)[p - (r - 1)]
        <4>1. \A q \in 1..(r - 1 + (n - r)) :
                 M[q] = IF q <= r - 1 THEN SubSeq(L, 1, r - 1)[q]
                        ELSE SubSeq(L, r + 1, n)[q - (r - 1)]
          BY <1>3, <1>4, <1>5, ConcatProperties, SMTT(60)
        <4> QED
          BY <2>1, <3>1, <4>1
      <3>3. M[p] = L[r + (p - (r - 1))]
        BY <1>5, <3>1, <3>2
      <3>4. r + (p - (r - 1)) = p + 1
        BY <2>1
      <3> QED
        BY <2>3, <3>3, <3>4
    <2> QED
      BY <2>2, <2>3
  <1>8. \A p \in 1..(n - 1) : \E q \in 1..n : q # r /\ M[p] = L[q] /\ q = IF p < r THEN p ELSE p + 1
    <2> SUFFICES ASSUME NEW p \in 1..(n - 1)
                 PROVE  \E q \in 1..n : q # r /\ M[p] = L[q] /\ q = IF p < r THEN p ELSE p + 1
      OBVIOUS
    <2>1. r \in Int /\ n \in Int /\ 1 <= r /\ r <= n /\ p \in Int
      BY <1>1, <1>2
    <2> DEFINE q == IF p < r THEN p ELSE p + 1
    <2>2. q \in 1..n /\ q # r
      BY <2>1
    <2>3. M[p] = L[q]
      BY <1>7
    <2> HIDE DEF q
    <2>4. q = IF p < r THEN p ELSE p + 1
      BY DEF q
    <2> QED
      BY <2>2, <2>3, <2>4
  <1>9. DOMAIN M = 1..(n - 1)
    BY <1>6
  <1>10. IsInjective(M)
    <2>1. ASSUME NEW p \in 1..(n - 1), NEW s \in 1..(n - 1), M[p] = M[s]
          PROVE  p = s
      <3>1. PICK x \in 1..n : M[p] = L[x] /\ x = IF p < r THEN p ELSE p + 1
        BY <1>8
      <3>2. PICK y \in 1..n : M[s] = L[y] /\ y = IF s < r THEN s ELSE s + 1
        BY <1>8
      <3>3. x = y
        <4>1. L[x] = L[y]
          BY <2>1, <3>1, <3>2
        <4> QED
          BY <1>1, <4>1
      <3>4. r \in Int /\ n \in Int /\ p \in Int /\ s \in Int
        BY <1>1, <1>2
      <3> QED
        BY <3>1, <3>2, <3>3, <3>4
    <2> QED
      BY <1>9, <2>1 DEF IsInjective
  <1>11. List(M)
    BY <1>6, <1>10 DEF List
  <1>12. ASSUME NEW i \in ToSet(L), i # k
         PROVE  LET p == IF Places(L)[i] < r THEN Places(L)[i] ELSE Places(L)[i] - 1
                IN  p \in 1..(n - 1) /\ M[p] = i
    <2> DEFINE q == Places(L)[i]
               p == IF q < r THEN q ELSE q - 1
    <2>1. q \in 1..n /\ L[q] = i
      BY <1>1
    <2>2. q # r
      BY <1>2, <1>12, <2>1
    <2> HIDE DEF q
    <2>3. r \in Int /\ n \in Int /\ 1 <= r /\ r <= n /\ q \in Int /\ 1 <= q /\ q <= n
      BY <1>1, <1>2, <2>1
    <2>4. p \in 1..(n - 1)
      BY <2>2, <2>3
    <2>5. (IF p < r THEN p ELSE p + 1) = q
      BY <2>2, <2>3
    <2>6. M[p] = L[IF p < r THEN p ELSE p + 1]
      BY <1>7, <2>4
    <2>7. M[p] = i
      BY <2>1, <2>5, <2>6
    <2> QED
      BY <2>4, <2>7 DEF q
  <1>13. ToSet(M) = ToSet(L) \ {k}
    <2>1. ToSet(M) = {M[p] : p \in 1..(n - 1)}
      BY <1>9 DEF ToSet
    <2>2. \A p \in 1..(n - 1) : M[p] \in ToSet(L) /\ M[p] # k
      BY <1>1, <1>2, <1>8
    <2>3. \A i \in ToSet(L) : i # k => \E p \in 1..(n - 1) : M[p] = i
      BY <1>12
    <2> QED
      BY <2>1, <2>2, <2>3
  <1>14. ASSUME NEW i \in ToSet(M)
         PROVE  Places(M)[i] = IF Places(L)[i] < r THEN Places(L)[i] ELSE Places(L)[i] - 1
    <2> DEFINE p == IF Places(L)[i] < r THEN Places(L)[i] ELSE Places(L)[i] - 1
    <2>1. p \in 1..(n - 1) /\ M[p] = i
      BY <1>12, <1>13
    <2> HIDE DEF p
    <2>2. p \in 1..Len(M)
      BY <1>6, <2>1
    <2>3. Places(M)[M[p]] = p
      BY <1>11, <2>2, ListFacts
    <2>4. Places(M)[i] = p
      BY <2>1, <2>3
    <2> QED
      BY <2>4 DEF p
  <1> QED
    BY <1>6, <1>11, <1>13, <1>14 DEF M, n, r

LEMMA UnlinkedThins ==
    ASSUME NEW L, List(L), NEW k \in ToSet(L)
    PROVE  Thinned(L, Unlinked(L, k), {k})
  <1> DEFINE M == Unlinked(L, k)
  <1>1. /\ List(M) /\ ToSet(M) = ToSet(L) \ {k}
        /\ \A i \in ToSet(M) :
              Places(M)[i] = IF Places(L)[i] < Places(L)[k] THEN Places(L)[i] ELSE Places(L)[i] - 1
    BY UnlinkedFacts
  <1>2. /\ Len(L) \in Nat
        /\ \A i \in ToSet(L) : Places(L)[i] \in 1..Len(L) /\ L[Places(L)[i]] = i
    BY ListFacts
  <1> HIDE DEF M
  <1>3. ASSUME NEW i \in ToSet(M), NEW j \in ToSet(M)
        PROVE  Places(M)[i] < Places(M)[j] <=> Places(L)[i] < Places(L)[j]
    <2>1. /\ i \in ToSet(L) /\ i # k /\ j \in ToSet(L) /\ j # k
      BY <1>1
    <2>2. /\ Places(L)[i] \in Int /\ Places(L)[j] \in Int /\ Places(L)[k] \in Int
          /\ Places(L)[i] # Places(L)[k] /\ Places(L)[j] # Places(L)[k]
      BY <1>2, <2>1
    <2> QED
      BY <1>1, <2>2
  <1> QED
    BY <1>1, <1>3 DEF Thinned, M

\* A key put in front moves all others back by one.
LEMMA FrontFacts ==
    ASSUME NEW M, List(M), NEW k \in Keys, k \notin ToSet(M)
    PROVE  LET L == <<k>> \o M IN
           /\ List(L) /\ Len(L) = Len(M) + 1 /\ ToSet(L) = ToSet(M) \cup {k}
           /\ Places(L)[k] = 1 /\ \A i \in ToSet(M) : Places(L)[i] = Places(M)[i] + 1
  <1> DEFINE L == <<k>> \o M
             n == Len(M)
  <1>1. /\ n \in Nat /\ DOMAIN M = 1..n /\ ToSet(M) \subseteq Keys
        /\ \A p \in 1..n : M[p] \in Keys /\ M[p] \in ToSet(M)
        /\ \A p, q \in 1..n : M[p] = M[q] => p = q
        /\ \A i \in ToSet(M) : Places(M)[i] \in 1..n /\ M[Places(M)[i]] = i
    BY ListFacts
  <1>2. /\ L \in Seq(Keys) /\ Len(L) = n + 1
        /\ \A p \in 1..(1 + n) : L[p] = IF p <= 1 THEN <<k>>[p] ELSE M[p - 1]
    <2>1. M \in Seq(Keys) /\ <<k>> \in Seq(Keys) /\ Len(<<k>>) = 1
      BY DEF List
    <2>2. /\ L \in Seq(Keys) /\ Len(L) = Len(<<k>>) + Len(M)
          /\ \A p \in 1..(Len(<<k>>) + Len(M)) :
                L[p] = IF p <= Len(<<k>>) THEN <<k>>[p] ELSE M[p - Len(<<k>>)]
      BY <2>1, ConcatProperties
    <2> HIDE DEF L, n
    <2> QED
      BY <1>1, <2>1, <2>2 DEF n
  <1> HIDE DEF L, n
  <1>3. L[1] = k /\ \A p \in 1..n : L[p + 1] = M[p]
    <2>1. 1 \in 1..(1 + n) /\ <<k>>[1] = k
      BY <1>1
    <2>2. \A p \in 1..n : p + 1 \in 1..(1 + n) /\ ~(p + 1 <= 1) /\ (p + 1) - 1 = p
      BY <1>1
    <2> QED
      BY <1>2, <2>1, <2>2
  <1>4. DOMAIN L = 1..(n + 1) /\ \A p \in 1..(n + 1) : p = 1 \/ (p - 1 \in 1..n /\ L[p] = M[p - 1])
    <2>1. DOMAIN L = 1..(n + 1)
      BY <1>2
    <2>2. \A p \in 1..(n + 1) : p = 1 \/ (p - 1 \in 1..n /\ (p - 1) + 1 = p)
      BY <1>1
    <2> QED
      BY <1>3, <2>1, <2>2
  <1>5. IsInjective(L)
    <2>1. ASSUME NEW p \in 1..(n + 1), NEW q \in 1..(n + 1), L[p] = L[q]
          PROVE  p = q
      <3>1. CASE p = 1
        BY <1>1, <1>3, <1>4, <2>1, <3>1
      <3>2. CASE q = 1
        BY <1>1, <1>3, <1>4, <2>1, <3>2
      <3>3. CASE p # 1 /\ q # 1
        <4>1. p - 1 \in 1..n /\ q - 1 \in 1..n /\ M[p - 1] = M[q - 1]
          BY <1>4, <2>1, <3>3
        <4>2. p - 1 = q - 1
          BY <1>1, <4>1
        <4> QED
          BY <1>1, <4>2
      <3> QED
        BY <3>1, <3>2, <3>3
    <2> QED
      BY <1>4, <2>1 DEF IsInjective
  <1>6. List(L)
    BY <1>2, <1>5 DEF List
  <1>7. ToSet(L) = ToSet(M) \cup {k}
    <2>1. ToSet(L) = {L[p] : p \in 1..(n + 1)} /\ ToSet(M) = {M[p] : p \in 1..n}
      BY <1>1, <1>4 DEF ToSet
    <2>2. \A p \in 1..(n + 1) : L[p] \in ToSet(M) \cup {k}
      BY <1>1, <1>3, <1>4
    <2>3. 1 \in 1..(n + 1) /\ \A p \in 1..n : p + 1 \in 1..(n + 1)
      BY <1>1
    <2>4. \A i \in ToSet(M) \cup {k} : \E p \in 1..(n + 1) : L[p] = i
      BY <1>3, <2>1, <2>3
    <2>5. \A i \in ToSet(L) : i \in ToSet(M) \cup {k}
      BY <2>1, <2>2
    <2>6. \A i \in ToSet(M) \cup {k} : i \in ToSet(L)
      BY <2>1, <2>4
    <2> QED
      BY <2>5, <2>6
  <1>8. \A p \in 1..(n + 1) : Places(L)[L[p]] = p
    BY <1>2, <1>6, ListFacts
  <1>9. Places(L)[k] = 1
    <2>1. 1 \in 1..(n + 1)
      BY <1>1
    <2> QED
      BY <1>3, <1>8, <2>1
  <1>10. ASSUME NEW i \in ToSet(M)
         PROVE  Places(L)[i] = Places(M)[i] + 1
    <2>1. Places(M)[i] \in 1..n /\ M[Places(M)[i]] = i
      BY <1>1
    <2>2. Places(M)[i] + 1 \in 1..(n + 1) /\ L[Places(M)[i] + 1] = i
      BY <1>1, <1>3, <2>1
    <2> QED
      BY <1>8, <2>2
  <1> QED
    BY <1>2, <1>6, <1>7, <1>9, <1>10 DEF L, n

\* Inserting a key and moving one to the front promote it.
LEMMA InsertedRanks ==
    ASSUME NEW L, List(L), NEW k \in Keys, k \notin ToSet(L)
    PROVE  Places(<<k>> \o L) = Promise!Promoted(Places(L), k)
  <1> DEFINE N == <<k>> \o L
  <1>1. /\ List(N) /\ ToSet(N) = ToSet(L) \cup {k} /\ Places(N)[k] = 1
        /\ \A i \in ToSet(L) : Places(N)[i] = Places(L)[i] + 1
    BY FrontFacts
  <1>2. /\ \A i \in ToSet(L) : Places(L)[i] \in 1..Len(L)
        /\ \A i \in Keys : i \notin ToSet(L) => Places(L)[i] = 0
        /\ Len(L) \in Nat
    BY ListFacts
  <1>3. \A i \in Keys : i \notin ToSet(N) => Places(N)[i] = 0
    BY <1>1, ListFacts
  <1> HIDE DEF N
  <1>4. \A i \in Keys :
           Places(N)[i] = IF i = k THEN 1
                          ELSE IF Places(L)[i] > 0 /\ (Places(L)[k] = 0 \/ Places(L)[i] < Places(L)[k])
                          THEN Places(L)[i] + 1 ELSE Places(L)[i]
    <2> SUFFICES ASSUME NEW i \in Keys, i # k
                 PROVE  Places(N)[i] = IF Places(L)[i] > 0 THEN Places(L)[i] + 1 ELSE Places(L)[i]
      BY <1>1, <1>2
    <2>1. CASE i \in ToSet(L)
      BY <1>1, <1>2, <2>1
    <2>2. CASE i \notin ToSet(L)
      BY <1>1, <1>2, <1>3, <2>2
    <2> QED
      BY <2>1, <2>2
  <1>5. Places(N) = [i \in Keys |-> Places(N)[i]]
    BY DEF Places
  <1> QED
    BY <1>4, <1>5 DEF Promise!Promoted, N

LEMMA MovedRanks ==
    ASSUME NEW L, List(L), NEW k \in ToSet(L)
    PROVE  /\ List(MovedToFront(L, k)) /\ ToSet(MovedToFront(L, k)) = ToSet(L)
           /\ Len(MovedToFront(L, k)) = Len(L)
           /\ Places(MovedToFront(L, k)) = Promise!Promoted(Places(L), k)
  <1> DEFINE M == Unlinked(L, k)
             N == MovedToFront(L, k)
  <1>1. /\ List(M) /\ Len(M) = Len(L) - 1 /\ ToSet(M) = ToSet(L) \ {k}
        /\ \A i \in ToSet(M) :
              Places(M)[i] = IF Places(L)[i] < Places(L)[k] THEN Places(L)[i] ELSE Places(L)[i] - 1
    BY UnlinkedFacts
  <1>2. /\ \A i \in ToSet(L) : Places(L)[i] \in 1..Len(L) /\ L[Places(L)[i]] = i
        /\ \A i \in Keys : i \notin ToSet(L) => Places(L)[i] = 0
        /\ Len(L) \in Nat /\ ToSet(L) \subseteq Keys
    BY ListFacts
  <1> HIDE DEF M
  <1>3. N = <<k>> \o M
    BY DEF MovedToFront, M
  <1>4. /\ List(N) /\ Len(N) = Len(M) + 1 /\ ToSet(N) = ToSet(M) \cup {k} /\ Places(N)[k] = 1
        /\ \A i \in ToSet(M) : Places(N)[i] = Places(M)[i] + 1
    <2>1. List(M) /\ k \in Keys /\ k \notin ToSet(M)
      BY <1>1, <1>2
    <2>2. /\ List(<<k>> \o M) /\ Len(<<k>> \o M) = Len(M) + 1
          /\ ToSet(<<k>> \o M) = ToSet(M) \cup {k} /\ Places(<<k>> \o M)[k] = 1
          /\ \A i \in ToSet(M) : Places(<<k>> \o M)[i] = Places(M)[i] + 1
      BY <2>1, FrontFacts
    <2> QED
      BY <1>3, <2>2
  <1>5. \A i \in Keys : i \notin ToSet(N) => Places(N)[i] = 0
    BY <1>4, ListFacts
  <1> HIDE DEF N
  <1>6. ToSet(N) = ToSet(L) /\ Len(N) = Len(L)
    BY <1>1, <1>2, <1>4
  <1>7. \A i \in Keys :
           Places(N)[i] = IF i = k THEN 1
                          ELSE IF Places(L)[i] > 0 /\ (Places(L)[k] = 0 \/ Places(L)[i] < Places(L)[k])
                          THEN Places(L)[i] + 1 ELSE Places(L)[i]
    <2> SUFFICES ASSUME NEW i \in Keys, i # k
                 PROVE  Places(N)[i] = IF Places(L)[i] > 0 /\ (Places(L)[k] = 0 \/ Places(L)[i] < Places(L)[k])
                                       THEN Places(L)[i] + 1 ELSE Places(L)[i]
      BY <1>4
    <2>1. CASE i \in ToSet(L)
      <3>1. i \in ToSet(M) /\ Places(L)[i] \in Nat /\ Places(L)[i] > 0 /\ Places(L)[k] \in Nat
            /\ Places(L)[k] > 0
        BY <1>1, <1>2, <2>1
      <3>2. Places(N)[i] = (IF Places(L)[i] < Places(L)[k] THEN Places(L)[i] ELSE Places(L)[i] - 1) + 1
        BY <1>1, <1>4, <3>1
      <3> QED
        BY <3>1, <3>2
    <2>2. CASE i \notin ToSet(L)
      BY <1>2, <1>5, <1>6, <2>2
    <2> QED
      BY <2>1, <2>2
  <1>8. Places(N) = [i \in Keys |-> Places(N)[i]]
    BY DEF Places
  <1>9. Places(N) = Promise!Promoted(Places(L), k)
    BY <1>7, <1>8 DEF Promise!Promoted
  <1> QED
    BY <1>4, <1>6, <1>9 DEF N

------------------------------------------------------------------------------
(* The three structures                                                      *)

States == [entries : SUBSET Keys, recency : Seq(Keys), heap : Heaps(Keys)]

\* They hold the same keys, and the heap is ordered by exp.
Agree(st, exp) ==
    /\ st \in States
    /\ List(st.recency) /\ ToSet(st.recency) = st.entries
    /\ Placed(st.heap, Keys) /\ Entries(st.heap) = st.entries /\ Ordered(st.heap, exp)

LEMMA StatesBuilt ==
    ASSUME NEW e \in SUBSET Keys, NEW r \in Seq(Keys), NEW h \in Heaps(Keys)
    PROVE  LET st == [entries |-> e, recency |-> r, heap |-> h] IN
           st \in States /\ st.entries = e /\ st.recency = r /\ st.heap = h
  <1> DEFINE Lists == Seq(Keys)
             Trees == Heaps(Keys)
  <1>1. r \in Lists /\ h \in Trees
    OBVIOUS
  <1>2. States = [entries : SUBSET Keys, recency : Lists, heap : Trees]
    BY DEF States
  <1> HIDE DEF Lists, Trees
  <1> QED
    BY <1>1, <1>2

\* remove takes a key out of all three.
LEMMA RemovedAgrees ==
    ASSUME NEW exp \in [Keys -> Int], NEW st, Agree(st, exp), NEW k \in st.entries
    PROVE  LET r == Removed(st, exp, k) IN
           /\ Agree(r, exp) /\ r.entries = st.entries \ {k}
           /\ Thinned(st.recency, r.recency, {k}) /\ Len(r.recency) = Len(st.recency) - 1
           /\ Size(r.heap) = Size(st.heap) - 1
  <1> DEFINE p == st.heap.index[k]
             l == Unlinked(st.recency, k)
             h == HeapRemove(st.heap, exp, p)
             r == [entries |-> st.entries \ {k}, recency |-> l, heap |-> h]
  <1>1. /\ List(st.recency) /\ ToSet(st.recency) = st.entries
        /\ Placed(st.heap, Keys) /\ Entries(st.heap) = st.entries /\ Ordered(st.heap, exp)
    BY DEF Agree
  <1>2. st.entries \in SUBSET Keys
    BY <1>1, ListFacts
  <1>3. Thinned(st.recency, l, {k}) /\ List(l) /\ Len(l) = Len(st.recency) - 1
        /\ ToSet(l) = st.entries \ {k}
    BY <1>1, UnlinkedThins, UnlinkedFacts
  <1>4. p \in 0..(Size(st.heap) - 1) /\ At(st.heap, p) = k
    <2>1. /\ Entries(st.heap) = {At(st.heap, q) : q \in 0..(Size(st.heap) - 1)}
          /\ \A q \in 0..(Size(st.heap) - 1) : st.heap.index[At(st.heap, q)] = q
      BY <1>1, HeapFacts
    <2>2. PICK q \in 0..(Size(st.heap) - 1) : At(st.heap, q) = k
      BY <1>1, <2>1
    <2> QED
      BY <2>1, <2>2
  <1> HIDE DEF p, l
  <1>5. /\ Placed(h, Keys) /\ Ordered(h, exp) /\ Size(h) = Size(st.heap) - 1
        /\ Entries(h) = st.entries \ {k}
    <2>1. /\ Placed(h, Keys) /\ Ordered(h, exp) /\ Size(h) = Size(st.heap) - 1
          /\ Entries(h) = Entries(st.heap) \ {At(st.heap, p)}
      BY <1>1, <1>4, HeapRemoveSound
    <2> QED
      BY <1>1, <1>4, <2>1
  <1> HIDE DEF h
  <1>6. r \in States /\ r.entries = st.entries \ {k} /\ r.recency = l /\ r.heap = h
    <2>1. st.entries \ {k} \in SUBSET Keys /\ l \in Seq(Keys) /\ h \in Heaps(Keys)
      BY <1>2, <1>3, <1>5 DEF List, Placed
    <2> QED
      BY <2>1, StatesBuilt
  <1>7. Removed(st, exp, k) = r
    BY DEF Removed, l, h, p
  <1> HIDE DEF r
  <1>8. Agree(r, exp)
    BY <1>3, <1>5, <1>6 DEF Agree
  <1> QED
    BY <1>3, <1>5, <1>6, <1>7, <1>8

Overdue(st, exp) == {k \in st.entries : ~(now < exp[k])}

\* A turn of removeExpired takes out one expired key, or there is none left.
LEMMA PurgeOnceAgrees ==
    ASSUME now \in Int, NEW exp \in [Keys -> Int], NEW st, Agree(st, exp)
    PROVE  LET r == PurgeOnce(st, exp) IN
           /\ Agree(r, exp)
           /\ \E S \in SUBSET Overdue(st, exp) :
                 Thinned(st.recency, r.recency, S) /\ r.entries = st.entries \ S
           /\ r = st \/ Size(r.heap) = Size(st.heap) - 1
           /\ r = st => Overdue(st, exp) = {}
  <1> DEFINE root == At(st.heap, 0)
             r    == PurgeOnce(st, exp)
  <1>1. /\ st \in States /\ List(st.recency) /\ ToSet(st.recency) = st.entries
        /\ Placed(st.heap, Keys) /\ Entries(st.heap) = st.entries /\ Ordered(st.heap, exp)
        /\ Size(st.heap) \in Nat
    BY HeapFacts DEF Agree
  <1>2. Size(st.heap) > 0 => root \in st.entries /\ \A k \in st.entries : exp[root] <= exp[k]
    BY <1>1, RootFirst
  <1>3. \A k \in st.entries : exp[k] \in Int
    <2>1. st.entries \subseteq Keys
      BY <1>1, ListFacts
    <2> QED
      BY <2>1
  <1>4. Size(st.heap) = 0 => st.entries = {}
    BY <1>1, HeapFacts
  <1>5. CASE RootExpired(st, exp)
    <2>1. r = Removed(st, exp, root)
      BY <1>5 DEF PurgeOnce
    <2>2. root \in st.entries /\ root \in Overdue(st, exp)
      BY <1>2, <1>5 DEF RootExpired, Overdue
    <2>3. /\ Agree(r, exp) /\ r.entries = st.entries \ {root}
          /\ Thinned(st.recency, r.recency, {root}) /\ Size(r.heap) = Size(st.heap) - 1
      <3>1. root \in st.entries
        BY <2>2
      <3> HIDE DEF root
      <3>2. LET q == Removed(st, exp, root) IN
            /\ Agree(q, exp) /\ q.entries = st.entries \ {root}
            /\ Thinned(st.recency, q.recency, {root}) /\ Size(q.heap) = Size(st.heap) - 1
        BY <3>1, RemovedAgrees
      <3> HIDE DEF r
      <3> QED
        BY <2>1, <3>2
    <2>4. {root} \in SUBSET Overdue(st, exp)
      BY <2>2
    <2>5. r # st
      BY <2>2, <2>3
    <2> HIDE DEF r
    <2> QED
      BY <2>3, <2>4, <2>5 DEF r
  <1>6. CASE ~RootExpired(st, exp)
    <2>1. r = st
      BY <1>6 DEF PurgeOnce
    <2>2. Overdue(st, exp) = {}
      <3>1. CASE Size(st.heap) > 0
        <4>1. now < exp[root] /\ root \in st.entries
          BY <1>2, <1>6, <3>1 DEF RootExpired
        <4>2. \A k \in st.entries : now < exp[k]
          BY <1>2, <1>3, <3>1, <4>1
        <4> QED
          BY <4>2 DEF Overdue
      <3>2. CASE ~(Size(st.heap) > 0)
        BY <1>1, <1>4, <3>2 DEF Overdue
      <3> QED
        BY <3>1, <3>2
    <2>3. Thinned(st.recency, st.recency, {}) /\ {} \in SUBSET Overdue(st, exp)
          /\ st.entries = st.entries \ {}
      BY <1>1 DEF Thinned
    <2> HIDE DEF r
    <2> QED
      BY <2>1, <2>2, <2>3 DEF r
  <1> QED
    BY <1>5, <1>6

\* removeExpired takes out exactly the expired keys.
LEMMA ExpiredRemovedAgrees ==
    ASSUME now \in Int, NEW exp \in [Keys -> Int], NEW st, Agree(st, exp)
    PROVE  LET r == ExpiredRemoved(st, exp) IN
           /\ Agree(r, exp) /\ r.entries = st.entries \ Overdue(st, exp)
           /\ Thinned(st.recency, r.recency, Overdue(st, exp))
  <1> DEFINE N        == Size(st.heap)
             Reached(r) == /\ Agree(r, exp)
                           /\ \E S \in SUBSET Overdue(st, exp) :
                                 Thinned(st.recency, r.recency, S) /\ r.entries = st.entries \ S
             Good     == {r \in States : Reached(r)}
             Clean(r) == Overdue(r, exp) = {}
             Turns(f) == [n \in 0..N |-> IF n = 0 THEN st ELSE PurgeOnce(f[n - 1], exp)]
             turn     == CHOOSE f : f = Turns(f)
             I        == [n \in 0..N |-> {r \in Good : Size(r.heap) <= N - n \/ Clean(r)}]
             step     == [r \in Good |-> PurgeOnce(r, exp)]
  <1>1. /\ st \in States /\ List(st.recency) /\ Placed(st.heap, Keys) /\ N \in Nat
    BY HeapFacts DEF Agree
  <1>2. st \in Good
    <2>1. Thinned(st.recency, st.recency, {}) /\ {} \in SUBSET Overdue(st, exp)
          /\ st.entries = st.entries \ {}
      BY <1>1 DEF Thinned, Agree
    <2> QED
      BY <1>1, <2>1
  <1>3. ASSUME NEW r \in Good
        PROVE  /\ PurgeOnce(r, exp) \in Good
               /\ Clean(r) => PurgeOnce(r, exp) = r
               /\ ~Clean(r) => Size(PurgeOnce(r, exp).heap) = Size(r.heap) - 1
    <2> DEFINE q == PurgeOnce(r, exp)
    <2>1. PICK S \in SUBSET Overdue(st, exp) :
             Thinned(st.recency, r.recency, S) /\ r.entries = st.entries \ S
      OBVIOUS
    <2>2. Agree(r, exp)
      OBVIOUS
    <2>3. /\ Agree(q, exp)
          /\ \E T \in SUBSET Overdue(r, exp) :
                Thinned(r.recency, q.recency, T) /\ q.entries = r.entries \ T
          /\ q = r \/ Size(q.heap) = Size(r.heap) - 1
          /\ q = r => Overdue(r, exp) = {}
      BY <2>2, PurgeOnceAgrees
    <2> HIDE DEF q
    <2>4. PICK T \in SUBSET Overdue(r, exp) :
             Thinned(r.recency, q.recency, T) /\ q.entries = r.entries \ T
      BY <2>3
    <2>5. Thinned(st.recency, q.recency, S \cup T)
      BY <2>1, <2>4, ThinnedAgain
    <2>6. S \cup T \in SUBSET Overdue(st, exp) /\ q.entries = st.entries \ (S \cup T)
      BY <2>1, <2>4 DEF Overdue
    <2>7. q \in States
      BY <2>3 DEF Agree
    <2>8. q \in Good
      BY <2>3, <2>5, <2>6, <2>7
    <2>9. Clean(r) => q = r
      <3> SUFFICES ASSUME Clean(r) PROVE q = r
        OBVIOUS
      <3>1. ~RootExpired(r, exp)
        <4> SUFFICES ASSUME RootExpired(r, exp) PROVE FALSE
          OBVIOUS
        <4>1. Size(r.heap) > 0 /\ ~(now < exp[At(r.heap, 0)])
          BY DEF RootExpired
        <4>2. Placed(r.heap, Keys) /\ Ordered(r.heap, exp) /\ Entries(r.heap) = r.entries
          BY <2>2 DEF Agree
        <4>3. At(r.heap, 0) \in r.entries
          BY <4>1, <4>2, RootFirst
        <4> QED
          BY <4>1, <4>3 DEF Overdue
      <3> QED
        BY <3>1 DEF q, PurgeOnce
    <2> HIDE DEF Good
    <2> QED
      BY <2>3, <2>8, <2>9 DEF q
  <1>4. turn = Turns(turn)
    <2>1. step \in [Good -> Good] /\ \A r \in Good : step[r] = PurgeOnce(r, exp)
      <3> HIDE DEF Good
      <3> QED
        BY <1>3
    <2> HIDE DEF step, Good
    <2>2. PICK f \in [0..N -> Good] : f[0] = st /\ \A n \in 1..N : f[n] = step[f[n - 1]]
      <3>1. \E f : Runs(f, N, Good, step, st)
        BY <1>1, <1>2, <2>1, LoopRuns
      <3> QED
        BY <3>1 DEF Runs
    <2>3. \A n \in 0..N : f[n] = IF n = 0 THEN st ELSE PurgeOnce(f[n - 1], exp)
      <3>1. ASSUME NEW n \in 1..N
            PROVE  f[n] = PurgeOnce(f[n - 1], exp)
        <4>1. n - 1 \in 0..N
          BY <1>1
        <4> QED
          BY <2>1, <2>2, <4>1
      <3>2. \A n \in 0..N : n # 0 => n \in 1..N
        BY <1>1
      <3> QED
        BY <2>2, <3>1, <3>2
    <2>4. f = [n \in 0..N |-> f[n]]
      OBVIOUS
    <2>5. f = Turns(f)
      BY <2>3, <2>4
    <2> QED
      BY <2>5
  <1>5. ExpiredRemoved(st, exp) = turn[N]
    BY DEF ExpiredRemoved
  <1> HIDE DEF turn
  <1>6. turn[0] = st /\ \A n \in 1..N : turn[n] = PurgeOnce(turn[n - 1], exp)
    <2>1. \A n \in 0..N : turn[n] = IF n = 0 THEN st ELSE PurgeOnce(turn[n - 1], exp)
      BY <1>4
    <2>2. 0 \in 0..N /\ \A n \in 1..N : n \in 0..N /\ n # 0
      BY <1>1
    <2> QED
      BY <2>1, <2>2
  <1> HIDE DEF Good
  <1>7. \A r \in Good : Size(r.heap) \in Nat
    <2>1. \A r \in Good : Agree(r, exp)
      BY DEF Good
    <2>2. \A r \in Good : Placed(r.heap, Keys)
      BY <2>1 DEF Agree
    <2> QED
      BY <2>2, HeapFacts
  <1>8. turn[N] \in I[N]
    <2>1. \A n \in 0..N : I[n] = {r \in Good : Size(r.heap) <= N - n \/ Clean(r)}
      OBVIOUS
    <2>2. turn[0] \in I[0]
      BY <1>1, <1>2, <1>6
    <2>3. ASSUME NEW n \in 1..N, turn[n - 1] \in I[n - 1]
          PROVE  turn[n] \in I[n]
      <3> DEFINE r == turn[n - 1]
                 q == PurgeOnce(r, exp)
      <3>1. n - 1 \in 0..N /\ n \in 0..N /\ n \in Nat
        BY <1>1
      <3>2. r \in Good /\ (Size(r.heap) <= N - (n - 1) \/ Clean(r)) /\ turn[n] = q
        BY <1>6, <2>1, <2>3, <3>1
      <3>3. q \in Good /\ (Clean(r) => q = r) /\ (~Clean(r) => Size(q.heap) = Size(r.heap) - 1)
        BY <1>3, <3>2
      <3>4. Size(r.heap) \in Nat /\ Size(q.heap) \in Nat
        BY <1>7, <3>2, <3>3
      <3>5. Size(q.heap) <= N - n \/ Clean(q)
        <4>1. CASE Clean(r)
          <5> HIDE DEF Clean, q, r
          <5> QED
            BY <3>3, <4>1
        <4>2. CASE ~Clean(r)
          <5> HIDE DEF Clean, q, r, N
          <5> QED
            BY <1>1, <3>1, <3>2, <3>3, <3>4, <4>2
        <4> QED
          BY <4>1, <4>2
      <3> HIDE DEF Clean, q
      <3> QED
        BY <2>1, <3>1, <3>2, <3>3, <3>5
    <2> HIDE DEF I
    <2> QED
      BY <1>1, <2>2, <2>3, LoopKeeps
  <1> DEFINE r == turn[N]
  <1>9. r \in Good /\ (Size(r.heap) <= N - N \/ Clean(r))
    <2>1. N \in 0..N
      BY <1>1
    <2> HIDE DEF Clean, N
    <2> QED
      BY <1>8, <2>1
  <1> HIDE DEF r
  <1>10. PICK S \in SUBSET Overdue(st, exp) :
             Agree(r, exp) /\ Thinned(st.recency, r.recency, S) /\ r.entries = st.entries \ S
    BY <1>9 DEF Good
  <1>11. Overdue(r, exp) = {}
    <2>1. CASE Clean(r)
      BY <2>1
    <2>2. CASE Size(r.heap) <= N - N
      <3>1. Size(r.heap) = 0
        BY <1>1, <1>7, <1>9, <2>2
      <3>2. Placed(r.heap, Keys) /\ Entries(r.heap) = r.entries
        BY <1>10 DEF Agree
      <3>3. r.entries = {}
        BY <3>1, <3>2, HeapFacts
      <3> QED
        BY <3>3 DEF Overdue
    <2> QED
      BY <1>9, <2>1, <2>2
  <1>12. S = Overdue(st, exp)
    BY <1>10, <1>11 DEF Overdue
  <1> QED
    BY <1>5, <1>10, <1>12 DEF r

------------------------------------------------------------------------------
(* The invariant                                                             *)

Inv ==
    /\ now \in Int
    /\ Agree(Structures, expiresAt)
    /\ value \in [Keys -> Values \cup {None}] /\ expiresAt \in [Keys -> Int]
    /\ \A k \in Keys : k \notin entries => value[k] = None /\ expiresAt[k] = 0
    /\ Len(recency) <= MaxEntries

\* The keys that the promise calls stored.
LEMMA Ranks ==
    ASSUME Inv
    PROVE  /\ position = Places(recency) /\ List(recency) /\ ToSet(recency) = entries
           /\ entries \in SUBSET Keys /\ Promise!Stored = entries
           /\ \A k \in Keys : Promise!Expired(k) <=> ~(now < expiresAt[k])
  <1>1. position = Places(recency)
    BY DEF position, Places
  <1>2. List(recency) /\ ToSet(recency) = entries
    BY DEF Inv, Agree, Structures
  <1>3. /\ entries \in SUBSET Keys
        /\ \A k \in entries : Places(recency)[k] \in 1..Len(recency)
        /\ \A k \in Keys : k \notin entries => Places(recency)[k] = 0
        /\ Len(recency) \in Nat
    BY <1>2, ListFacts
  <1>4. \A k \in Keys : Places(recency)[k] > 0 <=> k \in entries
    BY <1>3
  <1>5. Promise!Stored = entries
    BY <1>1, <1>3, <1>4 DEF Promise!Stored
  <1>6. \A k \in Keys : Promise!Expired(k) <=> ~(now < expiresAt[k])
    BY DEF Inv, Promise!Expired
  <1> QED
    BY <1>1, <1>2, <1>3, <1>5, <1>6

\* Structures that agree carry the invariant on.
LEMMA AdoptKeeps ==
    ASSUME now \in Int, now' = now, NEW st,
           NEW val \in [Keys -> Values \cup {None}], NEW exp \in [Keys -> Int],
           Agree(st, exp), Len(st.recency) <= MaxEntries, Adopt(st, val, exp)
    PROVE  Inv'
  <1>1. st \in States /\ List(st.recency) /\ ToSet(st.recency) = st.entries
    BY DEF Agree
  <1>2. Structures' = st
    <2> DEFINE Lists == Seq(Keys)
               Trees == Heaps(Keys)
    <2>1. st \in [entries : SUBSET Keys, recency : Lists, heap : Trees]
      BY <1>1 DEF States
    <2> HIDE DEF Lists, Trees
    <2>2. st = [entries |-> st.entries, recency |-> st.recency, heap |-> st.heap]
      BY <2>1
    <2> QED
      BY <2>2 DEF Structures, Adopt
  <1>3. st.entries \in SUBSET Keys
    BY <1>1, ListFacts
  <1>4. /\ entries' = st.entries /\ recency' = st.recency
        /\ value' = [k \in Keys |-> IF k \in st.entries THEN val[k] ELSE None]
        /\ expiresAt' = [k \in Keys |-> IF k \in st.entries THEN exp[k] ELSE 0]
    BY DEF Adopt
  <1>5. /\ value' \in [Keys -> Values \cup {None}] /\ expiresAt' \in [Keys -> Int]
        /\ \A k \in Keys : k \notin entries' => value'[k] = None /\ expiresAt'[k] = 0
        /\ \A k \in st.entries : expiresAt'[k] = exp[k]
    BY <1>3, <1>4
  <1>6. Agree(st, expiresAt')
    <2>1. Placed(st.heap, Keys) /\ Entries(st.heap) = st.entries /\ Ordered(st.heap, exp)
      BY DEF Agree
    <2>2. \A e \in Entries(st.heap) : expiresAt'[e] = exp[e]
      BY <1>5, <2>1
    <2>3. Ordered(st.heap, expiresAt')
      BY <2>1, <2>2, OrderedFramed
    <2> QED
      BY <1>1, <2>1, <2>3 DEF Agree
  <1> QED
    BY <1>2, <1>4, <1>5, <1>6 DEF Inv

\* Fewer keys fit where more did.
LEMMA ThinnedFits ==
    ASSUME NEW L, NEW M, NEW S, List(L), Thinned(L, M, S)
    PROVE  /\ Len(M) \in Nat /\ Len(L) \in Nat /\ Len(M) <= Len(L)
           /\ (\E k \in ToSet(L) : k \in S) => Len(M) < Len(L)
  <1>1. List(M) /\ ToSet(M) = ToSet(L) \ S
    BY DEF Thinned
  <1>2. /\ IsFiniteSet(ToSet(L)) /\ Cardinality(ToSet(L)) = Len(L)
        /\ IsFiniteSet(ToSet(M)) /\ Cardinality(ToSet(M)) = Len(M)
    BY <1>1, ListLength
  <1>3. Len(M) \in Nat /\ Len(L) \in Nat
    BY <1>1, ListFacts
  <1>4. ToSet(M) \in SUBSET ToSet(L)
    BY <1>1
  <1>5. /\ Cardinality(ToSet(M)) <= Cardinality(ToSet(L))
        /\ Cardinality(ToSet(L)) = Cardinality(ToSet(M)) => ToSet(L) = ToSet(M)
    BY <1>2, <1>4, FS_Subset
  <1> QED
    BY <1>1, <1>2, <1>3, <1>5

\* Keys that leave the structures are dropped as promised.
LEMMA DropKeeps ==
    ASSUME Inv, now' = now, NEW st, NEW S \in SUBSET entries, Agree(st, expiresAt),
           Thinned(recency, st.recency, S), Adopt(st, value, expiresAt)
    PROVE  Inv' /\ Promise!Drop(S)
  <1>1. /\ now \in Int /\ value \in [Keys -> Values \cup {None}] /\ expiresAt \in [Keys -> Int]
        /\ \A k \in Keys : k \notin entries => value[k] = None /\ expiresAt[k] = 0
        /\ Len(recency) <= MaxEntries
    BY DEF Inv
  <1>2. /\ position = Places(recency) /\ List(recency) /\ ToSet(recency) = entries
        /\ entries \in SUBSET Keys
    BY Ranks
  <1>3. Len(st.recency) <= MaxEntries
    <2>1. Len(st.recency) \in Nat /\ Len(recency) \in Nat /\ Len(st.recency) <= Len(recency)
      BY <1>2, ThinnedFits
    <2> QED
      BY <1>1, <2>1, LRUHeapAssumption
  <1>4. Inv'
    BY <1>1, <1>3, AdoptKeeps
  <1>5. st.entries = entries \ S
    BY <1>2 DEF Agree, Thinned
  <1>6. position' = Promise!Without(position, S)
    <2>1. position' = Places(recency')
      BY DEF position, Places
    <2>2. recency' = st.recency
      BY DEF Adopt
    <2>3. Places(st.recency) = Promise!Without(Places(recency), S)
      BY <1>2, ThinnedRanks
    <2> QED
      BY <1>2, <2>1, <2>2, <2>3
  <1>7. value' = [j \in Keys |-> IF j \in S THEN None ELSE value[j]]
    <2>1. value' = [k \in Keys |-> IF k \in st.entries THEN value[k] ELSE None]
      BY DEF Adopt
    <2> QED
      BY <1>1, <1>5, <2>1
  <1>8. expiresAt' = [j \in Keys |-> IF j \in S THEN 0 ELSE expiresAt[j]]
    <2>1. expiresAt' = [k \in Keys |-> IF k \in st.entries THEN expiresAt[k] ELSE 0]
      BY DEF Adopt
    <2> QED
      BY <1>1, <1>5, <2>1
  <1>9. Promise!Drop(S)
    BY <1>6, <1>7, <1>8 DEF Promise!Drop
  <1> QED
    BY <1>4, <1>9

LEMMA DropOneKeeps ==
    ASSUME Inv, now' = now, NEW k \in Keys,
           Adopt(IF k \in entries THEN Removed(Structures, expiresAt, k) ELSE Structures,
                 value, expiresAt)
    PROVE  Inv' /\ Promise!Drop({k} \cap Promise!Stored)
  <1>1. /\ Agree(Structures, expiresAt) /\ expiresAt \in [Keys -> Int]
        /\ Structures.entries = entries /\ Structures.recency = recency
    BY DEF Inv, Structures
  <1>2. List(recency) /\ Promise!Stored = entries
    BY Ranks
  <1>3. CASE k \in entries
    <2> DEFINE st == Removed(Structures, expiresAt, k)
    <2>1. Agree(st, expiresAt) /\ Thinned(recency, st.recency, {k})
      <3>1. k \in Structures.entries
        BY <1>1, <1>3
      <3>2. Agree(st, expiresAt) /\ Thinned(Structures.recency, st.recency, {k})
        BY <1>1, <3>1, RemovedAgrees
      <3> QED
        BY <1>1, <3>2
    <2>2. Adopt(st, value, expiresAt) /\ {k} \in SUBSET entries
      BY <1>3
    <2> HIDE DEF st
    <2>3. Inv' /\ Promise!Drop({k})
      BY <2>1, <2>2, DropKeeps
    <2>4. {k} \cap Promise!Stored = {k}
      BY <1>2, <1>3
    <2> QED
      BY <2>3, <2>4
  <1>4. CASE k \notin entries
    <2>1. Thinned(recency, recency, {}) /\ {} \in SUBSET entries
      BY <1>2 DEF Thinned
    <2>2. Adopt(Structures, value, expiresAt)
      BY <1>4
    <2>3. Inv' /\ Promise!Drop({})
      BY <1>1, <2>1, <2>2, DropKeeps
    <2>4. {k} \cap Promise!Stored = {}
      BY <1>2, <1>4
    <2> QED
      BY <2>3, <2>4
  <1> QED
    BY <1>3, <1>4

------------------------------------------------------------------------------
(* The steps                                                                 *)

LEMMA GetKeeps ==
    ASSUME Inv, NEW k \in Keys, Get(k)
    PROVE  Inv' /\ Promise!Get(k)
  <1>1. /\ position = Places(recency) /\ List(recency) /\ ToSet(recency) = entries
        /\ Promise!Stored = entries /\ (Promise!Expired(k) <=> ~(now < expiresAt[k]))
    BY Ranks
  <1>2. Promise!Live(k) <=> k \in entries /\ now < expiresAt[k]
    BY <1>1 DEF Promise!Live
  <1>3. now' = now
    BY DEF Get
  <1>4. CASE k \in entries /\ now < expiresAt[k]
    <2>1. /\ recency' = MovedToFront(recency, k) /\ reply' = value[k]
          /\ UNCHANGED <<entries, heap, value, expiresAt>>
      BY <1>4 DEF Get
    <2>2. /\ List(recency') /\ ToSet(recency') = entries /\ Len(recency') = Len(recency)
          /\ Places(recency') = Promise!Promoted(Places(recency), k)
      <3>1. k \in ToSet(recency)
        BY <1>1, <1>4
      <3> QED
        BY <1>1, <2>1, <3>1, MovedRanks
    <2>3. Agree(Structures', expiresAt')
      <3>1. Structures' = [entries |-> entries, recency |-> recency', heap |-> heap]
        BY <2>1 DEF Structures
      <3>2. /\ Placed(heap, Keys) /\ Entries(heap) = entries /\ Ordered(heap, expiresAt)
            /\ entries \in SUBSET Keys
        BY <1>1, Ranks DEF Inv, Agree, Structures
      <3>3. /\ Structures' \in States /\ Structures'.entries = entries
            /\ Structures'.recency = recency' /\ Structures'.heap = heap
        <4>1. recency' \in Seq(Keys) /\ heap \in Heaps(Keys)
          BY <2>2, <3>2 DEF List, Placed
        <4> QED
          BY <3>1, <3>2, <4>1, StatesBuilt
      <3> QED
        BY <2>1, <2>2, <3>2, <3>3 DEF Agree
    <2>4. Inv'
      BY <1>3, <2>1, <2>2, <2>3 DEF Inv
    <2>5. Promise!Hit(k)
      <3>1. position' = Places(recency')
        BY DEF position, Places
      <3>2. position' = Promise!Promoted(position, k)
        BY <1>1, <2>2, <3>1
      <3> QED
        BY <1>2, <1>3, <1>4, <2>1, <3>2 DEF Promise!Hit
    <2> QED
      BY <2>4, <2>5 DEF Promise!Get
  <1>5. CASE ~(k \in entries /\ now < expiresAt[k])
    <2>1. /\ Adopt(IF k \in entries THEN Removed(Structures, expiresAt, k) ELSE Structures,
                   value, expiresAt)
          /\ reply' = None
      BY <1>5 DEF Get
    <2>2. Inv' /\ Promise!Drop({k} \cap Promise!Stored)
      BY <1>3, <2>1, DropOneKeeps
    <2>3. Promise!Miss(k)
      BY <1>2, <1>3, <1>5, <2>1, <2>2 DEF Promise!Miss
    <2> QED
      BY <2>2, <2>3 DEF Promise!Get
  <1> QED
    BY <1>4, <1>5

LEMMA DeleteKeeps ==
    ASSUME Inv, NEW k \in Keys, Delete(k)
    PROVE  Inv' /\ Promise!Delete(k)
  <1>1. /\ Adopt(IF k \in entries THEN Removed(Structures, expiresAt, k) ELSE Structures,
                 value, expiresAt)
        /\ reply' = None /\ now' = now
    BY DEF Delete
  <1>2. Inv' /\ Promise!Drop({k} \cap Promise!Stored)
    BY <1>1, DropOneKeeps
  <1> QED
    BY <1>1, <1>2 DEF Promise!Delete

LEMMA CountKeeps ==
    ASSUME Inv, Count
    PROVE  Inv' /\ Promise!Len
  <1> DEFINE st == ExpiredRemoved(Structures, expiresAt)
             S  == Overdue(Structures, expiresAt)
  <1>1. /\ now \in Int /\ expiresAt \in [Keys -> Int] /\ Agree(Structures, expiresAt)
        /\ Structures.entries = entries /\ Structures.recency = recency
    BY DEF Inv, Structures
  <1>2. /\ Agree(st, expiresAt) /\ st.entries = Structures.entries \ S
        /\ Thinned(Structures.recency, st.recency, S)
    BY <1>1, ExpiredRemovedAgrees
  <1>3. Adopt(st, value, expiresAt) /\ reply' = Len(st.recency) /\ now' = now
    BY DEF Count
  <1> HIDE DEF st
  <1>4. S = {k \in entries : ~(now < expiresAt[k])}
    BY <1>1 DEF Overdue
  <1> HIDE DEF S
  <1>5. Inv' /\ Promise!Drop(S)
    BY <1>1, <1>2, <1>3, <1>4, DropKeeps
  <1>6. /\ Promise!Stored = entries /\ entries \in SUBSET Keys
        /\ \A k \in Keys : Promise!Expired(k) <=> ~(now < expiresAt[k])
    BY Ranks
  <1>7. S = {k \in Promise!Stored : Promise!Expired(k)}
    BY <1>4, <1>6
  <1>8. {k \in Keys : Promise!Live(k)} = st.entries
    <2>1. \A k \in Keys : Promise!Live(k) <=> k \in entries /\ ~Promise!Expired(k)
      BY <1>6 DEF Promise!Live
    <2> QED
      BY <1>1, <1>2, <1>4, <1>6, <2>1
  <1>9. reply' = Promise!Cardinality({k \in Keys : Promise!Live(k)})
    <2>1. List(st.recency) /\ ToSet(st.recency) = st.entries
      BY <1>2 DEF Agree
    <2>2. Cardinality(st.entries) = Len(st.recency)
      BY <2>1, ListLength
    <2> QED
      BY <1>3, <1>8, <2>2, SameCount
  <1>10. Promise!Len
    BY <1>3, <1>5, <1>7, <1>9 DEF Promise!Len
  <1> QED
    BY <1>5, <1>10

\* Storing is as promised if those and only those that had to go are gone.
LEMMA StoreKeeps ==
    ASSUME Inv, NEW k \in Keys, NEW v \in Values, NEW ttl \in TTLs, ttl > 0,
           NEW L, List(L), ToSet(L) = entries \cup {k}, Places(L) = Promise!Promoted(position, k),
           NEW exp, exp = [expiresAt EXCEPT ![k] = now + ttl],
           NEW st, NEW S, Agree(st, exp), Thinned(L, st.recency, S), Len(st.recency) <= MaxEntries,
           S = Promise!Evicted(Places(L), exp),
           Adopt(st, [value EXCEPT ![k] = v], exp), reply' = None, now' = now
    PROVE  Inv' /\ Promise!Store(k, v, ttl)
  <1> DEFINE val == [value EXCEPT ![k] = v]
  <1>1. /\ now \in Int /\ value \in [Keys -> Values \cup {None}] /\ expiresAt \in [Keys -> Int]
        /\ \A j \in Keys : j \notin entries => value[j] = None /\ expiresAt[j] = 0
    BY DEF Inv
  <1>2. val \in [Keys -> Values \cup {None}] /\ exp \in [Keys -> Int]
    BY <1>1, LRUHeapAssumption
  <1>3. Inv'
    BY <1>1, <1>2, AdoptKeeps
  <1>4. st.entries = (entries \cup {k}) \ S
    BY DEF Agree, Thinned
  <1>5. position' = Promise!Without(Places(L), S)
    <2>1. position' = Places(recency') /\ recency' = st.recency
      BY DEF position, Places, Adopt
    <2> QED
      BY <2>1, ThinnedRanks
  <1>6. value' = [j \in Keys |-> IF j \in S THEN None ELSE IF j = k THEN v ELSE value[j]]
    <2>1. value' = [j \in Keys |-> IF j \in st.entries THEN val[j] ELSE None]
      BY DEF Adopt
    <2> QED
      BY <1>1, <1>4, <2>1
  <1>7. expiresAt' = [j \in Keys |-> IF j \in S THEN 0 ELSE exp[j]]
    <2>1. expiresAt' = [j \in Keys |-> IF j \in st.entries THEN exp[j] ELSE 0]
      BY DEF Adopt
    <2> QED
      BY <1>1, <1>4, <2>1
  <1> QED
    BY <1>3, <1>5, <1>6, <1>7 DEF Promise!Store

\* Whom the promise evicts when the ranks are the places of a list.
LEMMA EvictedOf ==
    ASSUME NEW L, List(L), NEW exp
    PROVE  Promise!Evicted(Places(L), exp) =
              IF Len(L) <= MaxEntries THEN {}
              ELSE IF {j \in ToSet(L) : exp[j] <= now} # {} THEN {j \in ToSet(L) : exp[j] <= now}
              ELSE {Last(L)}
  <1> DEFINE filled == {j \in Keys : Places(L)[j] > 0}
             oldest == {j \in filled : \A i \in filled : Places(L)[i] <= Places(L)[j]}
  <1>1. /\ Len(L) \in Nat /\ ToSet(L) \subseteq Keys
        /\ \A p \in 1..Len(L) : L[p] \in ToSet(L) /\ Places(L)[L[p]] = p
        /\ \A j \in ToSet(L) : Places(L)[j] \in 1..Len(L) /\ L[Places(L)[j]] = j
        /\ \A j \in Keys : j \notin ToSet(L) => Places(L)[j] = 0
    BY ListFacts
  <1>2. filled = ToSet(L)
    BY <1>1
  <1>3. Promise!Cardinality(filled) = Len(L)
    BY <1>2, ListLength, SameCount
  <1>4. Promise!Evicted(Places(L), exp) =
           IF Promise!Cardinality(filled) <= MaxEntries THEN {}
           ELSE IF {j \in filled : exp[j] <= now} # {} THEN {j \in filled : exp[j] <= now}
           ELSE oldest
    BY DEF Promise!Evicted
  <1> HIDE DEF filled
  <1>5. Len(L) > MaxEntries => oldest = {Last(L)}
    <2> SUFFICES ASSUME Len(L) > MaxEntries PROVE oldest = {Last(L)}
      OBVIOUS
    <2>1. Len(L) \in 1..Len(L)
      BY <1>1, LRUHeapAssumption
    <2>2. Last(L) \in filled /\ Places(L)[Last(L)] = Len(L)
      BY <1>1, <1>2, <2>1 DEF Last
    <2>3. \A i \in filled : Places(L)[i] <= Len(L)
      BY <1>1, <1>2
    <2>4. \A j \in filled : Places(L)[j] = Len(L) => j = Last(L)
      BY <1>1, <1>2 DEF Last
    <2>5. \A j \in filled : Places(L)[j] \in Nat
      BY <1>1, <1>2
    <2>6. Last(L) \in oldest
      BY <2>2, <2>3
    <2>7. \A j \in oldest : j = Last(L)
      BY <1>1, <2>2, <2>3, <2>4, <2>5
    <2> QED
      BY <2>6, <2>7
  <1>6. ~(Len(L) <= MaxEntries) => Len(L) > MaxEntries
    BY <1>1, LRUHeapAssumption
  <1> HIDE DEF oldest
  <1> QED
    BY <1>2, <1>3, <1>4, <1>5, <1>6

LEMMA UpdateKeeps ==
    ASSUME Inv, NEW k \in entries, NEW v \in Values, NEW ttl \in TTLs, ttl > 0,
           Update(k, v, ttl), reply' = None, now' = now
    PROVE  Inv' /\ Promise!Store(k, v, ttl)
  <1> DEFINE exp == [expiresAt EXCEPT ![k] = now + ttl]
             L   == MovedToFront(recency, k)
             h   == HeapFix(heap, exp, heap.index[k])
             st  == [entries |-> entries, recency |-> L, heap |-> h]
  <1>1. /\ position = Places(recency) /\ List(recency) /\ ToSet(recency) = entries
        /\ entries \in SUBSET Keys /\ k \in Keys
    BY Ranks
  <1>2. /\ now \in Int /\ expiresAt \in [Keys -> Int] /\ Len(recency) <= MaxEntries
        /\ Placed(heap, Keys) /\ Entries(heap) = entries /\ Ordered(heap, expiresAt)
    BY DEF Inv, Agree, Structures
  <1>3. exp \in [Keys -> Int] /\ \A e \in entries : e # k => exp[e] = expiresAt[e]
    BY <1>1, <1>2, LRUHeapAssumption
  <1> HIDE DEF exp
  <1>4. /\ List(L) /\ ToSet(L) = entries /\ Len(L) = Len(recency)
        /\ Places(L) = Promise!Promoted(position, k)
    BY <1>1, MovedRanks
  <1> HIDE DEF L
  <1>5. heap.index[k] \in 0..(Size(heap) - 1) /\ At(heap, heap.index[k]) = k
    <2>1. /\ Entries(heap) = {At(heap, q) : q \in 0..(Size(heap) - 1)}
          /\ \A q \in 0..(Size(heap) - 1) : heap.index[At(heap, q)] = q
      BY <1>2, HeapFacts
    <2>2. PICK q \in 0..(Size(heap) - 1) : At(heap, q) = k
      BY <1>2, <2>1
    <2> QED
      BY <2>1, <2>2
  <1>6. Placed(h, Keys) /\ Ordered(h, exp) /\ Entries(h) = entries
    <2> DEFINE p == heap.index[k]
    <2>1. p \in 0..(Size(heap) - 1) /\ \A e \in Entries(heap) : e # At(heap, p) => exp[e] = expiresAt[e]
      BY <1>2, <1>3, <1>5
    <2> HIDE DEF p
    <2>2. LET g == HeapFix(heap, exp, p) IN
          Placed(g, Keys) /\ Ordered(g, exp) /\ Entries(g) = Entries(heap)
      BY <1>2, <1>3, <2>1, HeapFixSound
    <2> QED
      BY <1>2, <2>2 DEF p
  <1> HIDE DEF h
  <1>7. st \in States /\ st.entries = entries /\ st.recency = L /\ st.heap = h
    <2>1. L \in Seq(Keys) /\ h \in Heaps(Keys)
      BY <1>4, <1>6 DEF List, Placed
    <2> QED
      BY <1>1, <2>1, StatesBuilt
  <1>8. Adopt(st, [value EXCEPT ![k] = v], exp)
    BY DEF Update, st, h, L, exp
  <1> HIDE DEF st
  <1>9. Agree(st, exp)
    BY <1>4, <1>6, <1>7 DEF Agree
  <1>10. Thinned(L, st.recency, {})
    BY <1>4, <1>7 DEF Thinned
  <1>11. Promise!Evicted(Places(L), exp) = {}
    BY <1>2, <1>4, EvictedOf
  <1>12. ToSet(L) = entries \cup {k} /\ Len(st.recency) <= MaxEntries
    BY <1>2, <1>4, <1>7
  <1>13. exp = [expiresAt EXCEPT ![k] = now + ttl]
    BY DEF exp
  <1> QED
    BY <1>1, <1>4, <1>8, <1>9, <1>10, <1>11, <1>12, <1>13, StoreKeeps

LEMMA InsertKeeps ==
    ASSUME Inv, NEW k \in Keys, k \notin entries, NEW v \in Values, NEW ttl \in TTLs, ttl > 0,
           Insert(k, v, ttl), reply' = None, now' = now
    PROVE  Inv' /\ Promise!Store(k, v, ttl)
  <1> DEFINE exp      == [expiresAt EXCEPT ![k] = now + ttl]
             L        == <<k>> \o recency
             h        == HeapPush(heap, exp, k)
             inserted == [entries |-> entries \cup {k}, recency |-> L, heap |-> h]
             overdue  == Overdue(inserted, exp)
             purged   == IF Len(inserted.recency) > MaxEntries
                         THEN ExpiredRemoved(inserted, exp) ELSE inserted
             fitted   == IF Len(purged.recency) > MaxEntries
                         THEN Removed(purged, exp, Last(purged.recency)) ELSE purged
  <1>1. /\ position = Places(recency) /\ List(recency) /\ ToSet(recency) = entries
        /\ entries \in SUBSET Keys
    BY Ranks
  <1>2. /\ now \in Int /\ expiresAt \in [Keys -> Int] /\ Len(recency) <= MaxEntries
        /\ Placed(heap, Keys) /\ Entries(heap) = entries /\ Ordered(heap, expiresAt)
    BY DEF Inv, Agree, Structures
  <1>3. exp \in [Keys -> Int] /\ \A e \in entries : exp[e] = expiresAt[e]
    BY <1>1, <1>2, LRUHeapAssumption
  <1>4. Adopt(fitted, [value EXCEPT ![k] = v], exp)
    BY DEF Insert
  <1>5. exp = [expiresAt EXCEPT ![k] = now + ttl]
    OBVIOUS
  <1> HIDE DEF exp
  <1>6. /\ List(L) /\ ToSet(L) = entries \cup {k} /\ Len(L) = Len(recency) + 1
        /\ Places(L) = Promise!Promoted(position, k)
    <2>1. k \notin ToSet(recency)
      BY <1>1
    <2> QED
      BY <1>1, <2>1, FrontFacts, InsertedRanks
  <1> HIDE DEF L
  <1>7. Placed(h, Keys) /\ Ordered(h, exp) /\ Entries(h) = entries \cup {k}
    <2>1. Ordered(heap, exp)
      BY <1>2, <1>3, OrderedFramed
    <2>2. k \notin Entries(heap)
      BY <1>2
    <2>3. LET g == HeapPush(heap, exp, k) IN
          Placed(g, Keys) /\ Ordered(g, exp) /\ Entries(g) = Entries(heap) \cup {k}
      BY <1>2, <1>3, <2>1, <2>2, HeapPushSound
    <2> QED
      BY <1>2, <2>3
  <1> HIDE DEF h
  <1>8. Agree(inserted, exp) /\ inserted.recency = L /\ inserted.entries = entries \cup {k}
    <2>1. entries \cup {k} \in SUBSET Keys /\ L \in Seq(Keys) /\ h \in Heaps(Keys)
      BY <1>1, <1>6, <1>7 DEF List, Placed
    <2>2. /\ inserted \in States /\ inserted.entries = entries \cup {k}
          /\ inserted.recency = L /\ inserted.heap = h
      BY <2>1, StatesBuilt
    <2> HIDE DEF inserted
    <2> QED
      BY <1>6, <1>7, <2>2 DEF Agree
  <1> HIDE DEF inserted
  <1>9. overdue = {j \in ToSet(L) : exp[j] <= now}
    <2>1. \A j \in ToSet(L) : exp[j] \in Int
      <3>1. ToSet(L) \subseteq Keys
        BY <1>6, ListFacts
      <3> QED
        BY <1>3, <3>1
    <2> QED
      BY <1>2, <1>6, <1>8, <2>1 DEF Overdue
  <1> HIDE DEF overdue
  <1>10. Len(L) \in Nat /\ Len(recency) \in Nat /\ MaxEntries \in Nat /\ MaxEntries > 0
    BY <1>1, <1>6, ListFacts, LRUHeapAssumption
  <1>11. \E S : /\ Agree(fitted, exp) /\ Thinned(L, fitted.recency, S)
                /\ Len(fitted.recency) <= MaxEntries
                /\ S = Promise!Evicted(Places(L), exp)
    <2>1. CASE Len(L) <= MaxEntries
      <3>1. fitted = inserted
        BY <1>8, <1>10, <2>1
      <3>2. Thinned(L, L, {})
        BY <1>6 DEF Thinned
      <3>3. Promise!Evicted(Places(L), exp) = {}
        BY <1>6, <2>1, EvictedOf
      <3> QED
        BY <1>8, <2>1, <3>1, <3>2, <3>3
    <2>2. CASE ~(Len(L) <= MaxEntries)
      <3>1. purged = ExpiredRemoved(inserted, exp)
        BY <1>8, <1>10, <2>2
      <3> HIDE DEF purged
      <3>2. /\ Agree(purged, exp) /\ Thinned(L, purged.recency, overdue)
            /\ purged.entries = (entries \cup {k}) \ overdue
        BY <1>2, <1>3, <1>8, <3>1, ExpiredRemovedAgrees DEF overdue
      <3>3. /\ Len(purged.recency) \in Nat /\ Len(purged.recency) <= Len(L)
            /\ (\E j \in ToSet(L) : j \in overdue) => Len(purged.recency) < Len(L)
        BY <1>6, <3>2, ThinnedFits
      <3>4. CASE overdue # {}
        <4>1. Len(purged.recency) < Len(L)
          BY <1>9, <3>3, <3>4
        <4>2. Len(purged.recency) <= MaxEntries
          BY <1>2, <1>6, <1>10, <3>3, <4>1
        <4>3. fitted = purged
          BY <1>10, <3>3, <4>2
        <4>4. Promise!Evicted(Places(L), exp) = overdue
          BY <1>6, <1>9, <2>2, <3>4, EvictedOf
        <4> QED
          BY <3>2, <4>2, <4>3, <4>4
      <3>5. CASE overdue = {}
        <4> DEFINE last == Last(purged.recency)
        <4>1. List(purged.recency) /\ ToSet(purged.recency) = ToSet(L) /\ purged.entries = ToSet(L)
          BY <1>6, <3>2, <3>5 DEF Thinned
        <4>2. Len(purged.recency) = Len(L)
          BY <1>6, <4>1, ListLength
        <4>3. Places(purged.recency) = Places(L)
          \* both thin L by nothing
          <5>1. Thinned(L, L, {}) /\ Thinned(L, purged.recency, {})
            BY <1>6, <3>2, <3>5 DEF Thinned
          <5> QED
            BY <1>6, <5>1, ThinnedRanks
        <4>4. last = Last(L)
          <5>1. Len(L) \in 1..Len(L)
            BY <1>10, <2>2
          <5>2. Last(L) \in ToSet(L) /\ Places(L)[Last(L)] = Len(L)
            BY <1>6, <5>1, ListFacts DEF Last
          <5>3. purged.recency[Places(purged.recency)[Last(L)]] = Last(L)
            BY <4>1, <5>2, ListFacts
          <5> QED
            BY <4>2, <4>3, <5>2, <5>3 DEF Last
        <4>5. last \in purged.entries
          <5>1. Len(L) \in 1..Len(L)
            BY <1>10, <2>2
          <5>2. Last(L) \in ToSet(L)
            BY <1>6, <5>1, ListFacts DEF Last
          <5> QED
            BY <4>1, <4>4, <5>2
        <4> HIDE DEF last
        <4>6. fitted = Removed(purged, exp, last)
          BY <1>10, <2>2, <4>2 DEF last
        <4> HIDE DEF fitted
        <4>7. /\ Agree(fitted, exp) /\ Thinned(purged.recency, fitted.recency, {last})
              /\ Len(fitted.recency) = Len(purged.recency) - 1
          <5>1. last \in purged.entries /\ Agree(purged, exp) /\ exp \in [Keys -> Int]
            BY <1>3, <3>2, <4>5
          <5>2. LET r == Removed(purged, exp, last) IN
                /\ Agree(r, exp) /\ r.entries = purged.entries \ {last}
                /\ Thinned(purged.recency, r.recency, {last})
                /\ Len(r.recency) = Len(purged.recency) - 1
                /\ Size(r.heap) = Size(purged.heap) - 1
            BY <5>1, RemovedAgrees, ZenonT(60)
          <5> QED
            BY <4>6, <5>2
        <4>8. Thinned(L, fitted.recency, {last})
          <5>1. Thinned(L, fitted.recency, overdue \cup {last})
            BY <3>2, <4>7, ThinnedAgain
          <5>2. overdue \cup {last} = {last}
            BY <3>5
          <5> QED
            BY <5>1, <5>2
        <4>9. Len(fitted.recency) <= MaxEntries
          BY <1>2, <1>6, <1>10, <4>2, <4>7
        <4>10. Promise!Evicted(Places(L), exp) = {last}
          BY <1>6, <1>9, <2>2, <3>5, <4>4, EvictedOf
        <4> QED
          BY <4>7, <4>8, <4>9, <4>10
      <3> QED
        BY <3>4, <3>5
    <2> QED
      BY <2>1, <2>2
  <1> HIDE DEF fitted, purged
  <1>12. PICK S : /\ Agree(fitted, exp) /\ Thinned(L, fitted.recency, S)
                  /\ Len(fitted.recency) <= MaxEntries
                  /\ S = Promise!Evicted(Places(L), exp)
    BY <1>11
  <1> QED
    BY <1>4, <1>5, <1>6, <1>12, StoreKeeps

LEMMA SetKeeps ==
    ASSUME Inv, NEW k \in Keys, NEW v \in Values, NEW ttl \in TTLs, Set(k, v, ttl)
    PROVE  Inv' /\ Promise!Set(k, v, ttl)
  <1>1. ttl \in Int
    BY LRUHeapAssumption
  <1>2. CASE ttl <= 0
    BY <1>2, DeleteKeeps DEF Set, Promise!Set
  <1>3. CASE ~(ttl <= 0)
    <2>1. ttl > 0 /\ reply' = None /\ now' = now
      BY <1>1, <1>3 DEF Set
    <2>2. Inv' /\ Promise!Store(k, v, ttl)
      <3>1. CASE k \in entries
        <4>1. Update(k, v, ttl)
          BY <1>3, <3>1 DEF Set
        <4> QED
          BY <2>1, <3>1, <4>1, UpdateKeeps
      <3>2. CASE k \notin entries
        <4>1. Insert(k, v, ttl)
          BY <1>3, <3>2 DEF Set
        <4> QED
          BY <2>1, <3>2, <4>1, InsertKeeps
      <3> QED
        BY <3>1, <3>2
    <2> QED
      BY <2>2 DEF Promise!Set
  <1> QED
    BY <1>2, <1>3

LEMMA TickKeeps ==
    ASSUME Inv, Tick
    PROVE  Inv' /\ Promise!Tick
  <1>1. /\ now < MaxTime /\ now' = now + 1
        /\ UNCHANGED <<entries, recency, heap, value, expiresAt, reply>>
    BY DEF Tick
  <1>2. Structures' = Structures /\ position' = position
    BY <1>1 DEF Structures, position
  <1> QED
    BY <1>1, <1>2 DEF Inv, Promise!Tick

LEMMA InitHolds ==
    ASSUME Init
    PROVE  Inv /\ Promise!Init
  <1>1. /\ now = 0 /\ entries = {} /\ recency = << >> /\ reply = None
        /\ heap = [items |-> << >>, index |-> [k \in Keys |-> -1]]
        /\ value = [k \in Keys |-> None] /\ expiresAt = [k \in Keys |-> 0]
    BY DEF Init
  <1>2. recency \in Seq(Keys) /\ Len(recency) = 0 /\ DOMAIN recency = {} /\ ToSet(recency) = {}
    BY <1>1 DEF ToSet
  <1>3. List(recency)
    BY <1>2 DEF List, IsInjective
  <1>4. heap.items = << >> /\ heap.index = [k \in Keys |-> -1] /\ Size(heap) = 0
    BY <1>1 DEF Size
  <1>5. Placed(heap, Keys)
    <2>1. heap = [items |-> heap.items, index |-> heap.index]
      BY <1>1
    <2>2. heap.items \in Seq(Keys) /\ heap.index \in [Keys -> Int]
      BY <1>4
    <2>3. /\ \A p \in 0..(Size(heap) - 1) : heap.index[At(heap, p)] = p
          /\ \A e \in Keys : heap.index[e] # -1 => \E p \in 0..(Size(heap) - 1) : At(heap, p) = e
      BY <1>4
    <2> QED
      BY <2>1, <2>2, <2>3, PlacedByFacts
  <1>6. Entries(heap) = {}
    BY <1>4, <1>5, HeapFacts
  <1>7. Ordered(heap, expiresAt)
    BY <1>4 DEF Ordered
  <1>8. /\ Structures \in States /\ Structures.entries = entries
        /\ Structures.recency = recency /\ Structures.heap = heap
    <2>1. entries \in SUBSET Keys /\ heap \in Heaps(Keys)
      BY <1>1, <1>5 DEF Placed
    <2> QED
      BY <1>2, <2>1, StatesBuilt DEF Structures
  <1>9. Agree(Structures, expiresAt)
    BY <1>1, <1>2, <1>3, <1>5, <1>6, <1>7, <1>8 DEF Agree
  <1>10. Inv
    BY <1>1, <1>2, <1>9, LRUHeapAssumption DEF Inv
  <1>11. position = [k \in Keys |-> 0]
    BY <1>2 DEF position
  <1>12. Promise!Init
    BY <1>1, <1>11 DEF Promise!Init
  <1> QED
    BY <1>10, <1>12

LEMMA NextKeeps ==
    ASSUME Inv, [Next]_vars
    PROVE  Inv' /\ [Promise!Next]_(Promise!vars)
  <1>1. ASSUME NEW k \in Keys, Get(k) PROVE Inv' /\ Promise!Next
    BY <1>1, GetKeeps DEF Promise!Next
  <1>2. ASSUME NEW k \in Keys, NEW v \in Values, NEW ttl \in TTLs, Set(k, v, ttl)
        PROVE  Inv' /\ Promise!Next
    BY <1>2, SetKeeps DEF Promise!Next
  <1>3. ASSUME NEW k \in Keys, Delete(k) PROVE Inv' /\ Promise!Next
    BY <1>3, DeleteKeeps DEF Promise!Next
  <1>4. CASE Count
    BY <1>4, CountKeeps DEF Promise!Next
  <1>5. CASE Tick
    BY <1>5, TickKeeps DEF Promise!Next
  <1>6. CASE UNCHANGED vars
    <2>1. Structures' = Structures /\ position' = position
      BY <1>6 DEF Structures, position, vars
    <2> QED
      BY <1>6, <2>1 DEF Inv, vars, Promise!vars
  <1> QED
    BY <1>1, <1>2, <1>3, <1>4, <1>5, <1>6 DEF Next

THEOREM Invariant == Spec => []Inv
  <1>1. Init => Inv
    BY InitHolds
  <1>2. Inv /\ [Next]_vars => Inv'
    BY NextKeeps
  <1> QED
    BY <1>1, <1>2, PTL DEF Spec

\* The map, the list and the heap hold the same keys, each once, every
\* heapIndex is right and the heap is ordered by expiresAt, after any sequence
\* of calls.
THEOREM StructuresStayInStep == Spec => []StructuresAgree
  <1>1. Inv => StructuresAgree
    <2> SUFFICES ASSUME Inv PROVE StructuresAgree
      OBVIOUS
    <2>1. /\ List(recency) /\ ToSet(recency) = entries
          /\ Placed(heap, Keys) /\ Entries(heap) = entries /\ Ordered(heap, expiresAt)
      BY DEF Inv, Agree, Structures
    <2> QED
      BY <2>1 DEF StructuresAgree, Sound, List, Placed
  <1> QED
    BY <1>1, Invariant, PTL

\* The cache holds no more entries than it was made for.
THEOREM NeverOverfull == Spec => [](Cardinality(entries) <= MaxEntries)
  <1>1. Inv => Cardinality(entries) <= MaxEntries
    BY Ranks, ListLength DEF Inv
  <1> QED
    BY <1>1, Invariant, PTL

\* Whatever the callers do, the list, the map and the heap of lru.go answer as
\* the bounded cache promises: hits and misses, who is evicted, what Len counts.
THEOREM HeapAndListImplementLRU == Spec => ImplementsLRU
  <1>1. Init => Promise!Init
    BY InitHolds
  <1>2. Inv /\ [Next]_vars => [Promise!Next]_(Promise!vars)
    BY NextKeeps
  <1> QED
    BY <1>1, <1>2, Invariant, PTL DEF Spec, ImplementsLRU, Promise!Spec
==============================================================================
