------------------------------ MODULE FeedProofs ------------------------------
(****************************************************************************)
(* What Feed promises for any texts, answers, limits and requests.  The       *)
(* loops over a list are recursive functions; the first sections say what     *)
(* they return, the later ones follow a request through the pipeline.         *)
(****************************************************************************)
EXTENDS Feed, FiniteSetTheorems, FunctionTheorems, NaturalsInduction, SequenceTheorems, TLAPS

------------------------------------------------------------------------------
(* Numbers and loops                                                         *)

\* A set of numbers that is not empty has a least one.
LEMMA LeastExists ==
    ASSUME NEW S \in SUBSET Nat, S # {}
    PROVE  \E m \in S : \A x \in S : m <= x
  <1> DEFINE Below == OpToRel(<, Nat)
  <1>1. IsWellFoundedOn(Below, Nat)
    BY NatLessThanWellFounded
  <1>2. \A i, j \in Nat : i < j => <<i, j>> \in Below
    BY DEF OpToRel
  <1> HIDE DEF Below
  <1>3. \E m \in S : \A x \in S : ~(<<x, m>> \in Below)
    BY <1>1, WFMin
  <1>4. PICK m \in S : \A x \in S : <<x, m>> \notin Below
    BY <1>3, Zenon
  <1>5. \A x \in S : m <= x
    <2>1. m \in Nat /\ \A x \in S : x \in Nat
      OBVIOUS
    <2>2. \A x \in S : ~(x < m)
      BY <1>2, <1>4, <2>1, Zenon
    <2> QED
      BY <2>1, <2>2
  <1> QED
    BY <1>5

\* The first of some positions is one of them, and none comes before it.
LEMMA MinIsFirst ==
    ASSUME NEW S \in SUBSET Nat, S # {}
    PROVE  Min(S) \in S /\ \A x \in S : Min(S) <= x
  <1>1. \E m \in S : \A x \in S : m <= x
    BY LeastExists
  <1> QED
    BY <1>1 DEF Min

\* The smaller and the larger of two numbers.
LEMMA MinOfTwo ==
    ASSUME NEW a \in Int, NEW b \in Int
    PROVE  /\ Min({a, b}) = IF a <= b THEN a ELSE b
           /\ Max({a, b}) = IF a <= b THEN b ELSE a
  <1>1. \E m \in {a, b} : \A x \in {a, b} : m <= x
    OBVIOUS
  <1>2. \E m \in {a, b} : \A x \in {a, b} : m >= x
    OBVIOUS
  <1>3. Min({a, b}) \in {a, b} /\ Min({a, b}) <= a /\ Min({a, b}) <= b
    BY <1>1 DEF Min
  <1>4. Max({a, b}) \in {a, b} /\ Max({a, b}) >= a /\ Max({a, b}) >= b
    BY <1>2 DEF Max
  <1> QED
    BY <1>3, <1>4

\* What holds before the first turn and is carried from turn to turn holds
\* after every turn.
LEMMA TurnByTurn ==
    ASSUME NEW N \in Nat, NEW Good, 0 \in Good,
           \A n \in 1..N : n - 1 \in Good => n \in Good
    PROVE  \A n \in 0..N : n \in Good
  <1> DEFINE Broken == {n \in 0..N : n \notin Good}
  <1> SUFFICES ASSUME Broken # {} PROVE FALSE
    OBVIOUS
  <1>1. PICK n \in Broken : \A m \in Broken : n <= m
    <2>1. Broken \in SUBSET Nat
      OBVIOUS
    <2> QED
      BY <2>1, LeastExists
  <1>2. n # 0 /\ n \in 0..N
    OBVIOUS
  <1>3. n \in 1..N /\ n - 1 \in 0..N /\ ~(n <= n - 1)
    BY <1>2
  <1>4. n - 1 \in Good
    BY <1>1, <1>3
  <1> QED
    BY <1>3, <1>4

\* f takes N turns from s on, within S; each turn is another.
Runs(f, N, S, step, s) ==
    f \in [0..N -> S] /\ f[0] = s /\ \A n \in 1..N : f[n] = step[n][f[n - 1]]

\* A loop whose turns lead from states to states runs for any number of turns.
LEMMA LoopRuns ==
    ASSUME NEW N \in Nat, NEW S, NEW step \in [1..N -> [S -> S]], NEW s \in S
    PROVE  \E f : Runs(f, N, S, step, s)
  <1> DEFINE Has(k) == \E f \in [0..k -> S] : f[0] = s /\ \A n \in 1..k : f[n] = step[n][f[n - 1]]
             Good   == {k \in 0..N : Has(k)}
  <1>1. Has(0)
    <2> DEFINE f == [n \in 0..0 |-> s]
    <2>1. f \in [0..0 -> S] /\ f[0] = s /\ \A n \in 1..0 : f[n] = step[n][f[n - 1]]
      OBVIOUS
    <2> QED
      BY <2>1
  <1>2. ASSUME NEW k \in 1..N, Has(k - 1) PROVE Has(k)
    <2>1. PICK g \in [0..(k - 1) -> S] : g[0] = s /\ \A n \in 1..(k - 1) : g[n] = step[n][g[n - 1]]
      BY <1>2
    <2> DEFINE f == [n \in 0..k |-> IF n = k THEN step[k][g[k - 1]] ELSE g[n]]
    <2>2. k \in Nat /\ k - 1 \in 0..(k - 1) /\ 0 \in 0..k /\ 0 # k
      OBVIOUS
    <2>3. f \in [0..k -> S]
      <3>1. step[k][g[k - 1]] \in S
        BY <2>2
      <3>2. \A n \in 0..k : n # k => g[n] \in S
        BY <2>2
      <3> QED
        BY <3>1, <3>2
    <2>4. f[0] = s
      BY <2>1, <2>2
    <2>5. ASSUME NEW n \in 1..k PROVE f[n] = step[n][f[n - 1]]
      <3>1. n - 1 \in 0..k /\ n - 1 # k /\ n \in 0..k
        BY <2>2
      <3>2. f[n - 1] = g[n - 1]
        BY <3>1
      <3>3. CASE n = k
        BY <3>1, <3>2, <3>3
      <3>4. CASE n # k
        <4>1. n \in 1..(k - 1)
          BY <2>2, <3>4
        <4>2. g[n] = step[n][g[n - 1]]
          BY <2>1, <4>1
        <4>3. f[n] = g[n]
          BY <3>1, <3>4
        <4> QED
          BY <3>2, <4>2, <4>3
      <3> QED
        BY <3>3, <3>4
    <2> HIDE DEF f
    <2> QED
      BY <2>3, <2>4, <2>5
  <1> HIDE DEF Has
  <1>3. 0 \in Good
    BY <1>1
  <1>4. \A k \in 1..N : k - 1 \in Good => k \in Good
    BY <1>2
  <1> HIDE DEF Good
  <1>5. \A k \in 0..N : k \in Good
    BY <1>3, <1>4, TurnByTurn
  <1>6. N \in Good
    BY <1>5
  <1> QED
    BY <1>6 DEF Good, Has, Runs

------------------------------------------------------------------------------
(* Picking the elements at some positions                                    *)

\* at lists the members of P, m numbers, from the least to the greatest.
Enumerates(at, m, P) ==
    /\ at \in [1..m -> P]
    /\ \A j, k \in 1..m : j < k => at[j] < at[k]
    /\ \A i \in P : \E k \in 1..m : at[k] = i

\* One of two enumerations cannot fall behind the other.
LEMMA NotBehind ==
    ASSUME NEW P \in SUBSET Nat, NEW m \in Nat, NEW n \in Nat, NEW f, NEW g,
           Enumerates(f, m, P), Enumerates(g, n, P),
           NEW k \in 1..m, k \in 1..n, \A j \in 1..(k - 1) : f[j] = g[j]
    PROVE  g[k] <= f[k]
  <1>1. f[k] \in P /\ g[k] \in P /\ f[k] \in Nat /\ g[k] \in Nat
    BY DEF Enumerates
  <1>2. PICK j \in 1..n : g[j] = f[k]
    BY <1>1 DEF Enumerates
  <1>3. ~(j < k)
    <2> SUFFICES ASSUME j < k PROVE FALSE
      OBVIOUS
    <2>1. j \in 1..(k - 1) /\ j \in 1..m
      OBVIOUS
    <2>2. f[j] = f[k] /\ f[j] < f[k]
      BY <1>2, <2>1 DEF Enumerates
    <2> QED
      BY <1>1, <2>2
  <1>4. j = k \/ k < j
    BY <1>3
  <1>5. k < j => g[k] < g[j]
    BY DEF Enumerates
  <1> QED
    BY <1>1, <1>2, <1>4, <1>5

\* There is one way to enumerate a set of numbers.
LEMMA OneEnumeration ==
    ASSUME NEW P \in SUBSET Nat, NEW m \in Nat, NEW n \in Nat, NEW f, NEW g,
           Enumerates(f, m, P), Enumerates(g, n, P)
    PROVE  m = n /\ f = g
  <1>1. ASSUME NEW k \in 1..m, k \in 1..n, \A j \in 1..(k - 1) : f[j] = g[j]
        PROVE  f[k] = g[k]
    <2>1. g[k] <= f[k]
      BY <1>1, NotBehind
    <2>2. \A j \in 1..(k - 1) : g[j] = f[j]
      BY <1>1
    <2>3. f[k] <= g[k]
      BY <1>1, <2>2, NotBehind
    <2>4. f[k] \in Nat /\ g[k] \in Nat
      BY <1>1 DEF Enumerates
    <2> QED
      BY <2>1, <2>3, <2>4
  <1>2. \A k \in 1..m : k \in 1..n => f[k] = g[k]
    <2> DEFINE Wrong == {k \in 1..m : k \in 1..n /\ f[k] # g[k]}
    <2> SUFFICES ASSUME Wrong # {} PROVE FALSE
      OBVIOUS
    <2>1. Wrong \in SUBSET Nat
      OBVIOUS
    <2>2. PICK k \in Wrong : \A j \in Wrong : k <= j
      BY <2>1, LeastExists
    <2>3. k \in 1..m /\ k \in 1..n /\ f[k] # g[k]
      OBVIOUS
    <2>4. \A j \in 1..(k - 1) : j \in 1..m /\ j \in 1..n /\ ~(k <= j)
      BY <2>3
    <2>5. \A j \in 1..(k - 1) : f[j] = g[j]
      BY <2>2, <2>4
    <2> QED
      BY <1>1, <2>3, <2>5
  <1>3. ~(m < n)
    <2> SUFFICES ASSUME m < n PROVE FALSE
      OBVIOUS
    <2>1. m + 1 \in 1..n /\ g[m + 1] \in P
      BY DEF Enumerates
    <2>2. PICK k \in 1..m : f[k] = g[m + 1]
      BY <2>1 DEF Enumerates
    <2>3. k \in 1..n /\ k < m + 1
      OBVIOUS
    <2>4. g[k] < g[m + 1] /\ g[k] = g[m + 1] /\ g[k] \in Nat
      BY <1>2, <2>1, <2>2, <2>3 DEF Enumerates
    <2> QED
      BY <2>4
  <1>4. ~(n < m)
    <2> SUFFICES ASSUME n < m PROVE FALSE
      OBVIOUS
    <2>1. n + 1 \in 1..m /\ f[n + 1] \in P
      BY DEF Enumerates
    <2>2. PICK k \in 1..n : g[k] = f[n + 1]
      BY <2>1 DEF Enumerates
    <2>3. k \in 1..m /\ k < n + 1
      OBVIOUS
    <2>4. f[k] < f[n + 1] /\ f[k] = f[n + 1] /\ f[k] \in Nat
      BY <1>2, <2>1, <2>2, <2>3 DEF Enumerates
    <2> QED
      BY <2>4
  <1>5. m = n
    BY <1>3, <1>4
  <1> QED
    BY <1>2, <1>5 DEF Enumerates

\* The loop of Pick, turn by turn.
Keeps(kept, list, P, S) ==
    /\ kept \in [0..Len(list) -> Seq(S)] /\ kept[0] = << >>
    /\ \A i \in 1..Len(list) :
          kept[i] = IF i \in P THEN Append(kept[i - 1], list[i]) ELSE kept[i - 1]
    /\ Pick(list, P) = kept[Len(list)]

LEMMA PickRuns ==
    ASSUME NEW S, NEW list \in Seq(S), NEW P
    PROVE  \E kept : Keeps(kept, list, P, S)
  <1> DEFINE N        == Len(list)
             Lists    == Seq(S)
             Turns(t) == [i \in 0..N |-> IF i = 0 THEN << >>
                             ELSE IF i \in P THEN Append(t[i - 1], list[i]) ELSE t[i - 1]]
             kept     == CHOOSE t : t = Turns(t)
             step     == [i \in 1..N |-> [l \in Lists |->
                             IF i \in P THEN Append(l, list[i]) ELSE l]]
  <1>1. N \in Nat /\ \A i \in 1..N : list[i] \in S
    OBVIOUS
  <1>2. Pick(list, P) = kept[N]
    BY DEF Pick
  <1>3. << >> \in Lists /\ \A l \in Lists, i \in 1..N : Append(l, list[i]) \in Lists
    BY <1>1
  <1> HIDE DEF Lists, N
  <1>4. step \in [1..N -> [Lists -> Lists]]
    BY <1>3
  <1>5. \A i \in 1..N : \A l \in Lists :
           step[i][l] = IF i \in P THEN Append(l, list[i]) ELSE l
    OBVIOUS
  <1> HIDE DEF step
  <1>6. PICK f : Runs(f, N, Lists, step, << >>)
    BY <1>1, <1>3, <1>4, LoopRuns
  <1>7. /\ f \in [0..N -> Lists] /\ f[0] = << >>
        /\ \A i \in 1..N : f[i] = IF i \in P THEN Append(f[i - 1], list[i]) ELSE f[i - 1]
    <2>1. f \in [0..N -> Lists] /\ f[0] = << >> /\ \A i \in 1..N : f[i] = step[i][f[i - 1]]
      BY <1>6 DEF Runs
    <2>2. \A i \in 1..N : i - 1 \in 0..N
      BY <1>1
    <2>3. \A i \in 1..N : f[i - 1] \in Lists
      BY <2>1, <2>2
    <2> QED
      BY <1>5, <2>1, <2>3
  <1>8. f = Turns(f)
    <2>1. f = [i \in 0..N |-> f[i]]
      BY <1>7
    <2>2. \A i \in 0..N : i # 0 => i \in 1..N
      BY <1>1
    <2>3. \A i \in 0..N : f[i] = IF i = 0 THEN << >>
             ELSE IF i \in P THEN Append(f[i - 1], list[i]) ELSE f[i - 1]
      BY <1>7, <2>2
    <2> QED
      BY <2>1, <2>3
  <1>9. kept = Turns(kept)
    BY <1>8
  <1> HIDE DEF kept
  <1>10. kept = f
    <2> DEFINE Same == {i \in 0..N : kept[i] = f[i]}
    <2>1. \A i \in 0..N : kept[i] = IF i = 0 THEN << >>
             ELSE IF i \in P THEN Append(kept[i - 1], list[i]) ELSE kept[i - 1]
      BY <1>9
    <2>2. 0 \in Same
      BY <1>1, <1>7, <2>1
    <2>3. \A i \in 1..N : i - 1 \in Same => i \in Same
      <3>1. \A i \in 1..N : i \in 0..N /\ i # 0
        BY <1>1
      <3> QED
        BY <1>7, <2>1, <3>1
    <2> HIDE DEF Same
    <2>4. \A i \in 0..N : i \in Same
      BY <1>1, <2>2, <2>3, TurnByTurn
    <2>5. \A i \in 0..N : kept[i] = f[i]
      BY <2>4 DEF Same
    <2>6. kept = [i \in 0..N |-> kept[i]]
      BY <1>9
    <2>7. f = [i \in 0..N |-> f[i]]
      BY <1>7
    <2> QED
      BY <2>5, <2>6, <2>7
  <1> QED
    BY <1>2, <1>7, <1>10 DEF N, Lists, Keeps

\* What is picked are the elements at the positions, in their order.
LEMMA PickInOrder ==
    ASSUME NEW S, NEW list \in Seq(S), NEW P \in SUBSET (1..Len(list))
    PROVE  /\ Pick(list, P) \in Seq(S)
           /\ \E at : /\ Enumerates(at, Len(Pick(list, P)), P)
                      /\ \A k \in 1..Len(Pick(list, P)) : Pick(list, P)[k] = list[at[k]]
  <1> DEFINE N == Len(list)
  <1>1. N \in Nat /\ \A i \in 1..N : list[i] \in S
    OBVIOUS
  <1>0. PICK kept : Keeps(kept, list, P, S)
    BY PickRuns
  <1>2. /\ kept \in [0..N -> Seq(S)] /\ kept[0] = << >>
        /\ \A i \in 1..N : kept[i] = IF i \in P THEN Append(kept[i - 1], list[i]) ELSE kept[i - 1]
        /\ Pick(list, P) = kept[N]
    BY <1>0 DEF Keeps
  <1>3. \A i \in P : i \in 1..N /\ i \in Nat
    OBVIOUS
  <1> HIDE DEF N
  <1> DEFINE Upto(n) == {i \in P : i <= n}
             Picks(n, at) == /\ Enumerates(at, Len(kept[n]), Upto(n))
                             /\ \A k \in 1..Len(kept[n]) : kept[n][k] = list[at[k]]
             Good == {n \in 0..N : \E at : Picks(n, at)}
  <1>4. 0 \in Good
    <2>1. Len(kept[0]) = 0
      BY <1>2
    <2>2. Upto(0) = {}
      <3>1. \A i \in P : ~(i <= 0)
        BY <1>3
      <3> QED
        BY <3>1
    <2> DEFINE at == [k \in 1..0 |-> 0]
    <2>3. Enumerates(at, 0, {})
      BY DEF Enumerates
    <2> HIDE DEF at, Upto
    <2>4. \A k \in 1..Len(kept[0]) : FALSE
      BY <2>1
    <2>5. Picks(0, at)
      BY <2>1, <2>2, <2>3, <2>4
    <2> HIDE DEF Picks
    <2> QED
      BY <1>1, <2>5
  <1>5. ASSUME NEW n \in 1..N, n - 1 \in Good PROVE n \in Good
    <2>1. PICK at : Picks(n - 1, at)
      BY <1>5
    <2>2. n \in Nat /\ n - 1 \in 0..N /\ n \in 0..N /\ list[n] \in S
      BY <1>1
    <2> DEFINE old == kept[n - 1]
               m   == Len(old)
    <2>3. old \in Seq(S) /\ m \in Nat
      BY <1>2, <2>2
    <2>4. CASE n \notin P
      <3>1. kept[n] = old
        BY <1>2, <2>4
      <3>2. Upto(n) = Upto(n - 1)
        <4>1. \A i \in P : i <= n <=> i <= n - 1
          BY <1>3, <2>2, <2>4
        <4> QED
          BY <4>1
      <3> HIDE DEF Upto
      <3>3. Picks(n, at)
        BY <2>1, <3>1, <3>2
      <3> HIDE DEF Picks
      <3> QED
        BY <2>2, <3>3
    <2>5. CASE n \in P
      <3> DEFINE new == Append(old, list[n])
                 b   == [k \in 1..(m + 1) |-> IF k = m + 1 THEN n ELSE at[k]]
      <3>1. kept[n] = new
        BY <1>2, <2>5
      <3>2. Len(new) = m + 1 /\ new[m + 1] = list[n] /\ \A k \in 1..m : new[k] = old[k]
        BY <2>2, <2>3, AppendProperties
      <3>3. /\ at \in [1..m -> Upto(n - 1)]
            /\ \A j, k \in 1..m : j < k => at[j] < at[k]
            /\ \A i \in Upto(n - 1) : \E k \in 1..m : at[k] = i
            /\ \A k \in 1..m : old[k] = list[at[k]]
        BY <2>1 DEF Enumerates
      <3> HIDE DEF old, m
      <3>4. \A k \in 1..m : at[k] \in P /\ at[k] \in Nat /\ at[k] < n /\ k # m + 1 /\ k \in 1..(m + 1)
        <4>1. \A k \in 1..m : at[k] \in Upto(n - 1) /\ k # m + 1 /\ k \in 1..(m + 1)
          BY <2>3, <3>3
        <4>2. \A i \in Upto(n - 1) : i \in P /\ i \in Nat /\ i < n
          BY <1>3, <2>2
        <4> HIDE DEF Upto
        <4> QED
          BY <4>1, <4>2
      <3>5. b[m + 1] = n /\ \A k \in 1..m : b[k] = at[k]
        BY <2>3, <3>4
      <3>6. \A k \in 1..(m + 1) : k = m + 1 \/ k \in 1..m
        BY <2>3
      <3>7. b \in [1..(m + 1) -> Upto(n)]
        <4>1. n \in Upto(n) /\ \A k \in 1..m : at[k] \in Upto(n)
          BY <2>2, <2>5, <3>4
        <4> QED
          BY <3>5, <3>6, <4>1
      <3>8. \A j, k \in 1..(m + 1) : j < k => b[j] < b[k]
        <4>1. \A j, k \in 1..(m + 1) : j < k => j \in 1..m
          BY <2>3
        <4> HIDE DEF b
        <4> QED
          BY <3>3, <3>4, <3>5, <3>6, <4>1
      <3>9. \A i \in Upto(n) : \E k \in 1..(m + 1) : b[k] = i
        <4>1. \A i \in Upto(n) : i = n \/ i \in Upto(n - 1)
          BY <1>3, <2>2
        <4>2. m + 1 \in 1..(m + 1) /\ \A k \in 1..m : k \in 1..(m + 1)
          BY <2>3
        <4> HIDE DEF b, Upto
        <4> QED
          BY <3>3, <3>5, <4>1, <4>2
      <3>10. \A k \in 1..(m + 1) : new[k] = list[b[k]]
        <4> HIDE DEF b, new
        <4> QED
          BY <3>2, <3>3, <3>5, <3>6
      <3> HIDE DEF b, new, Upto
      <3>11. Picks(n, b)
        BY <3>1, <3>2, <3>7, <3>8, <3>9, <3>10 DEF Enumerates
      <3> HIDE DEF Picks
      <3> QED
        BY <2>2, <3>11
    <2> QED
      BY <2>4, <2>5
  <1> HIDE DEF Good
  <1>6. \A n \in 0..N : n \in Good
    BY <1>1, <1>4, <1>5, TurnByTurn
  <1>7. N \in 0..N
    BY <1>1
  <1>8. Upto(N) = P
    <2>1. \A i \in P : i <= N
      BY <1>1, <1>3
    <2> QED
      BY <2>1
  <1>9. \E at : Picks(N, at)
    BY <1>6, <1>7 DEF Good
  <1>10. Pick(list, P) \in Seq(S)
    BY <1>2, <1>7
  <1> HIDE DEF Upto
  <1> QED
    BY <1>2, <1>8, <1>9, <1>10

\* And that determines what is picked.
LEMMA PickDetermined ==
    ASSUME NEW S, NEW list \in Seq(S), NEW P \in SUBSET (1..Len(list)),
           NEW s \in Seq(S), NEW at, Enumerates(at, Len(s), P),
           \A k \in 1..Len(s) : s[k] = list[at[k]]
    PROVE  s = Pick(list, P)
  <1> DEFINE r == Pick(list, P)
  <1>1. r \in Seq(S)
    BY PickInOrder
  <1>2. PICK b : Enumerates(b, Len(r), P) /\ \A k \in 1..Len(r) : r[k] = list[b[k]]
    BY PickInOrder
  <1> HIDE DEF r
  <1>3. P \in SUBSET Nat /\ Len(r) \in Nat /\ Len(s) \in Nat
    BY <1>1
  <1>4. Len(s) = Len(r) /\ at = b
    BY <1>2, <1>3, OneEnumeration
  <1>5. \A k \in 1..Len(s) : s[k] = r[k]
    BY <1>2, <1>4
  <1>6. s = r
    BY <1>1, <1>4, <1>5, SeqEqual
  <1> QED
    BY <1>6 DEF r

\* Whoever picks all is left with the same list.
LEMMA PickAll ==
    ASSUME NEW S, NEW list \in Seq(S), NEW P, P = 1..Len(list)
    PROVE  Pick(list, P) = list
  <1> DEFINE at == [k \in 1..Len(list) |-> k]
  <1>1. Enumerates(at, Len(list), P)
    BY DEF Enumerates
  <1>2. \A k \in 1..Len(list) : list[k] = list[at[k]]
    OBVIOUS
  <1> HIDE DEF at
  <1>3. P \in SUBSET (1..Len(list))
    OBVIOUS
  <1> QED
    BY <1>1, <1>2, <1>3, PickDetermined

\* The elements that are picked.
LEMMA PickElements ==
    ASSUME NEW S, NEW list \in Seq(S), NEW P \in SUBSET (1..Len(list))
    PROVE  LET s == Pick(list, P) IN
           /\ s \in Seq(S) /\ Len(s) \in Nat
           /\ \A k \in 1..Len(s) : \E i \in P : s[k] = list[i]
           /\ \A i \in P : \E k \in 1..Len(s) : s[k] = list[i]
  <1> DEFINE s == Pick(list, P)
  <1>1. s \in Seq(S)
    BY PickInOrder
  <1>2. PICK at : Enumerates(at, Len(s), P) /\ \A k \in 1..Len(s) : s[k] = list[at[k]]
    BY PickInOrder
  <1> HIDE DEF s
  <1>3. /\ \A k \in 1..Len(s) : at[k] \in P /\ s[k] = list[at[k]]
        /\ \A i \in P : \E k \in 1..Len(s) : at[k] = i
    BY <1>2 DEF Enumerates
  <1>4. \A k \in 1..Len(s) : \E i \in P : s[k] = list[i]
    BY <1>3, Zenon
  <1>5. ASSUME NEW i \in P PROVE \E k \in 1..Len(s) : s[k] = list[i]
    <2>1. PICK k \in 1..Len(s) : at[k] = i
      BY <1>3
    <2>2. s[k] = list[i]
      BY <1>3, <2>1
    <2> QED
      BY <2>2
  <1>6. Len(s) \in Nat
    BY <1>1
  <1> QED
    BY <1>1, <1>4, <1>5, <1>6 DEF s

\* Picking from what was picked.
LEMMA PickTwice ==
    ASSUME NEW S, NEW list \in Seq(S), NEW P \in SUBSET (1..Len(list)), NEW E
    PROVE  LET s == Pick(list, P) IN
           Pick(s, {k \in 1..Len(s) : s[k] \in E}) = Pick(list, {i \in P : list[i] \in E})
  <1> DEFINE s == Pick(list, P)
             Q == {k \in 1..Len(s) : s[k] \in E}
             r == Pick(s, Q)
             R == {i \in P : list[i] \in E}
  <1>1. s \in Seq(S)
    BY PickInOrder
  <1>2. PICK at : Enumerates(at, Len(s), P) /\ \A k \in 1..Len(s) : s[k] = list[at[k]]
    BY PickInOrder
  <1> HIDE DEF s
  <1>3. Q \in SUBSET (1..Len(s))
    OBVIOUS
  <1>4. r \in Seq(S)
    BY <1>1, <1>3, PickInOrder
  <1>5. PICK b : Enumerates(b, Len(r), Q) /\ \A k \in 1..Len(r) : r[k] = s[b[k]]
    BY <1>1, <1>3, PickInOrder
  <1> HIDE DEF r
  <1> DEFINE c == [k \in 1..Len(r) |-> at[b[k]]]
  <1>6. \A k \in 1..Len(r) : b[k] \in Q /\ b[k] \in 1..Len(s) /\ s[b[k]] \in E
    BY <1>5 DEF Enumerates
  <1>7. Enumerates(c, Len(r), R)
    <2>1. c \in [1..Len(r) -> R]
      BY <1>2, <1>6 DEF Enumerates
    <2>2. ASSUME NEW j \in 1..Len(r), NEW k \in 1..Len(r), j < k PROVE c[j] < c[k]
      <3>1. b[j] < b[k]
        BY <1>5, <2>2 DEF Enumerates
      <3> QED
        BY <1>2, <1>6, <3>1 DEF Enumerates
    <2>3. ASSUME NEW i \in R PROVE \E k \in 1..Len(r) : c[k] = i
      <3>1. PICK j \in 1..Len(s) : at[j] = i
        BY <1>2 DEF Enumerates
      <3>2. j \in Q
        BY <1>2, <3>1
      <3>3. PICK k \in 1..Len(r) : b[k] = j
        BY <1>5, <3>2 DEF Enumerates
      <3> QED
        BY <3>1, <3>3
    <2> HIDE DEF c
    <2> QED
      BY <2>1, <2>2, <2>3 DEF Enumerates
  <1>8. \A k \in 1..Len(r) : r[k] = list[c[k]]
    BY <1>2, <1>5, <1>6
  <1>9. R \in SUBSET (1..Len(list))
    OBVIOUS
  <1> HIDE DEF c, R, Q
  <1>10. r = Pick(list, R)
    BY <1>4, <1>7, <1>8, <1>9, PickDetermined
  <1> QED
    BY <1>10 DEF r, R, Q, s

------------------------------------------------------------------------------
(* Flattening a list of lists                                                *)

\* The loop of FlattenSeq, turn by turn.
Joins(flat, seqs, S) ==
    /\ flat \in [0..Len(seqs) -> Seq(S)] /\ flat[0] = << >>
    /\ \A i \in 1..Len(seqs) : flat[i] = flat[i - 1] \o seqs[i]
    /\ FlattenSeq(seqs) = flat[Len(seqs)]

LEMMA FlattenRuns ==
    ASSUME NEW S, NEW seqs \in Seq(Seq(S))
    PROVE  \E flat : Joins(flat, seqs, S)
  <1> DEFINE N        == Len(seqs)
             Lists    == Seq(S)
             Turns(t) == [i \in 1..N |-> IF i = 1 THEN seqs[i] ELSE t[i - 1] \o seqs[i]]
             flatten  == CHOOSE t : t = Turns(t)
             step     == [i \in 1..N |-> [l \in Lists |-> l \o seqs[i]]]
  <1>1. N \in Nat /\ \A i \in 1..N : seqs[i] \in Lists
    OBVIOUS
  <1>2. FlattenSeq(seqs) = IF N = 0 THEN seqs ELSE flatten[N]
    BY DEF FlattenSeq
  <1>3. << >> \in Lists /\ \A l \in Lists, m \in Lists : l \o m \in Lists /\ << >> \o m = m
    BY ConcatProperties, ConcatEmptySeq
  <1>4. N = 0 => seqs = << >>
    OBVIOUS
  <1> HIDE DEF Lists, N
  <1>5. step \in [1..N -> [Lists -> Lists]]
    BY <1>1, <1>3
  <1>6. \A i \in 1..N : \A l \in Lists : step[i][l] = l \o seqs[i]
    OBVIOUS
  <1> HIDE DEF step
  <1>7. PICK f : Runs(f, N, Lists, step, << >>)
    BY <1>1, <1>3, <1>5, LoopRuns
  <1>8. /\ f \in [0..N -> Lists] /\ f[0] = << >>
        /\ \A i \in 1..N : f[i] = f[i - 1] \o seqs[i]
    <2>1. f \in [0..N -> Lists] /\ f[0] = << >> /\ \A i \in 1..N : f[i] = step[i][f[i - 1]]
      BY <1>7 DEF Runs
    <2>2. \A i \in 1..N : i - 1 \in 0..N
      BY <1>1
    <2>3. \A i \in 1..N : f[i - 1] \in Lists
      BY <2>1, <2>2
    <2> QED
      BY <1>6, <2>1, <2>3
  <1> DEFINE g == [i \in 1..N |-> f[i]]
  <1>9. g = Turns(g)
    <2>1. ASSUME NEW i \in 1..N
          PROVE  f[i] = IF i = 1 THEN seqs[i] ELSE g[i - 1] \o seqs[i]
      <3>1. CASE i = 1
        <4>0. i - 1 = 0
          BY <3>1
        <4>1. f[i] = << >> \o seqs[i]
          BY <1>8, <4>0
        <4> QED
          BY <1>1, <1>3, <3>1, <4>1
      <3>2. CASE i # 1
        <4>1. i - 1 \in 1..N
          BY <1>1, <3>2
        <4> QED
          BY <1>8, <3>2, <4>1
      <3> QED
        BY <3>1, <3>2
    <2> QED
      BY <2>1
  <1>10. flatten = Turns(flatten)
    BY <1>9
  <1> HIDE DEF flatten
  <1>11. \A i \in 1..N : flatten[i] = f[i]
    <2> DEFINE Same == {i \in 0..N : i # 0 => flatten[i] = f[i]}
    <2>1. \A i \in 1..N : flatten[i] = IF i = 1 THEN seqs[i] ELSE flatten[i - 1] \o seqs[i]
      BY <1>10
    <2>2. 0 \in Same
      BY <1>1
    <2>3. ASSUME NEW i \in 1..N, i - 1 \in Same PROVE i \in Same
      <3>1. CASE i = 1
        <4>0. i - 1 = 0
          BY <3>1
        <4>1. flatten[i] = seqs[i] /\ f[i] = << >> \o seqs[i]
          BY <1>8, <2>1, <3>1, <4>0
        <4>2. flatten[i] = f[i]
          BY <1>1, <1>3, <4>1
        <4> QED
          BY <1>1, <4>2
      <3>2. CASE i # 1
        <4>1. i - 1 # 0 /\ i \in 0..N
          BY <1>1, <3>2
        <4>2. flatten[i - 1] = f[i - 1]
          BY <2>3, <4>1
        <4>3. flatten[i] = f[i]
          BY <1>8, <2>1, <3>2, <4>2
        <4> QED
          BY <4>1, <4>3
      <3> QED
        BY <3>1, <3>2
    <2> HIDE DEF Same
    <2>4. \A i \in 0..N : i \in Same
      BY <1>1, <2>2, <2>3, TurnByTurn
    <2>5. \A i \in 1..N : i \in 0..N /\ i # 0
      BY <1>1
    <2> QED
      BY <2>4, <2>5 DEF Same
  <1>12. FlattenSeq(seqs) = f[N]
    <2>1. CASE N = 0
      BY <1>2, <1>4, <1>8, <2>1
    <2>2. CASE N # 0
      <3>1. N \in 1..N
        BY <1>1, <2>2
      <3> QED
        BY <1>2, <1>11, <2>2, <3>1
    <2> QED
      BY <2>1, <2>2
  <1>13. Joins(f, seqs, S)
    BY <1>8, <1>12 DEF Joins, N, Lists
  <1> QED
    BY <1>13

LEMMA FlattenType ==
    ASSUME NEW S, NEW seqs \in Seq(Seq(S))
    PROVE  FlattenSeq(seqs) \in Seq(S)
  <1>1. PICK flat : Joins(flat, seqs, S)
    BY FlattenRuns
  <1>2. Len(seqs) \in 0..Len(seqs)
    OBVIOUS
  <1> QED
    BY <1>1, <1>2 DEF Joins

\* F of every element of a list.
Mapped(F, list) == [k \in 1..Len(list) |-> F[list[k]]]

LEMMA MappedSeq ==
    ASSUME NEW S, NEW T, NEW F, \A x \in S : F[x] \in T, NEW list \in Seq(S)
    PROVE  Mapped(F, list) \in Seq(T) /\ Len(Mapped(F, list)) = Len(list)
  <1>1. Len(list) \in Nat /\ \A k \in 1..Len(list) : F[list[k]] \in T
    OBVIOUS
  <1>2. Mapped(F, list) \in [1..Len(list) -> T]
    BY <1>1 DEF Mapped
  <1> QED
    BY <1>1, <1>2

LEMMA MappedConcat ==
    ASSUME NEW S, NEW F, NEW s \in Seq(S), NEW t \in Seq(S)
    PROVE  Mapped(F, s \o t) = Mapped(F, s) \o Mapped(F, t)
  <1> DEFINE T == {F[x] : x \in S}
             u == s \o t
             v == Mapped(F, s) \o Mapped(F, t)
  <1>1. u \in Seq(S) /\ Len(u) = Len(s) + Len(t)
        /\ \A i \in 1..(Len(s) + Len(t)) : u[i] = IF i <= Len(s) THEN s[i] ELSE t[i - Len(s)]
    BY ConcatProperties
  <1>0. \A l \in Seq(S) : Mapped(F, l) \in Seq(T) /\ Len(Mapped(F, l)) = Len(l)
    <2>1. \A x \in S : F[x] \in T
      OBVIOUS
    <2> HIDE DEF T
    <2>2. ASSUME NEW l \in Seq(S)
          PROVE  Mapped(F, l) \in Seq(T) /\ Len(Mapped(F, l)) = Len(l)
      <3>1. Len(l) \in Nat /\ \A k \in 1..Len(l) : F[l[k]] \in T
        BY <2>1
      <3>2. Mapped(F, l) \in [1..Len(l) -> T]
        BY <3>1 DEF Mapped
      <3> QED
        BY <3>1, <3>2, SMTT(30)
    <2> QED
      BY <2>2
  <1> HIDE DEF T
  <1>2. /\ Mapped(F, s) \in Seq(T) /\ Len(Mapped(F, s)) = Len(s)
        /\ Mapped(F, t) \in Seq(T) /\ Len(Mapped(F, t)) = Len(t)
    BY <1>0
  <1>3. v \in Seq(T) /\ Len(v) = Len(s) + Len(t)
        /\ \A i \in 1..(Len(s) + Len(t)) :
              v[i] = IF i <= Len(s) THEN Mapped(F, s)[i] ELSE Mapped(F, t)[i - Len(s)]
    <2> DEFINE a == Mapped(F, s)
               b == Mapped(F, t)
    <2>1. a \in Seq(T) /\ Len(a) = Len(s) /\ b \in Seq(T) /\ Len(b) = Len(t) /\ v = a \o b
      BY <1>2
    <2> HIDE DEF a, b, v
    <2>2. /\ a \o b \in Seq(T) /\ Len(a \o b) = Len(a) + Len(b)
          /\ \A i \in 1..(Len(a) + Len(b)) :
                (a \o b)[i] = IF i <= Len(a) THEN a[i] ELSE b[i - Len(a)]
      BY <2>1, ConcatProperties
    <2>3. v \in Seq(T) /\ Len(v) = Len(s) + Len(t)
          /\ \A i \in 1..(Len(s) + Len(t)) : v[i] = IF i <= Len(s) THEN a[i] ELSE b[i - Len(s)]
      BY <2>1, <2>2
    <2> QED
      BY <2>3 DEF a, b
  <1>4. Mapped(F, u) \in Seq(T) /\ Len(Mapped(F, u)) = Len(u)
    BY <1>0, <1>1
  <1> HIDE DEF u, v
  <1>5. ASSUME NEW i \in 1..Len(u) PROVE Mapped(F, u)[i] = v[i]
    <2>1. Mapped(F, u)[i] = F[u[i]]
      BY DEF Mapped
    <2>2. CASE i <= Len(s)
      <3>1. i \in 1..Len(s)
        BY <2>2
      <3> QED
        BY <1>1, <1>3, <2>1, <2>2, <3>1 DEF Mapped
    <2>3. CASE ~(i <= Len(s))
      <3>1. i - Len(s) \in 1..Len(t)
        BY <1>1, <2>3
      <3> QED
        BY <1>1, <1>3, <2>1, <2>3, <3>1 DEF Mapped
    <2> QED
      BY <2>2, <2>3
  <1>6. Mapped(F, u) = v
    BY <1>1, <1>3, <1>4, <1>5, SeqEqual
  <1> QED
    BY <1>6 DEF u, v

\* Flattening and mapping may change places.
LEMMA FlattenMapped ==
    ASSUME NEW S, NEW T, NEW F \in [S -> T], NEW seqs \in Seq(Seq(S)),
           NEW other, other = [i \in 1..Len(seqs) |-> Mapped(F, seqs[i])]
    PROVE  FlattenSeq(other) = Mapped(F, FlattenSeq(seqs))
  <1> DEFINE N == Len(seqs)
  <1>1. N \in Nat /\ \A i \in 1..N : seqs[i] \in Seq(S)
    OBVIOUS
  <1>2. \A i \in 1..N : Mapped(F, seqs[i]) \in Seq(T)
    <2>1. \A x \in S : F[x] \in T
      OBVIOUS
    <2> QED
      BY <1>1, <2>1, MappedSeq
  <1>3. other \in Seq(Seq(T)) /\ Len(other) = N
    BY <1>1, <1>2
  <1>4. PICK flat : Joins(flat, seqs, S)
    BY FlattenRuns
  <1>5. PICK both : Joins(both, other, T)
    BY <1>3, FlattenRuns
  <1>6. /\ flat \in [0..N -> Seq(S)] /\ flat[0] = << >>
        /\ \A i \in 1..N : flat[i] = flat[i - 1] \o seqs[i]
        /\ FlattenSeq(seqs) = flat[N]
    BY <1>4 DEF Joins
  <1>7. /\ both \in [0..N -> Seq(T)] /\ both[0] = << >>
        /\ \A i \in 1..N : both[i] = both[i - 1] \o Mapped(F, seqs[i])
        /\ FlattenSeq(other) = both[N]
    BY <1>3, <1>5 DEF Joins
  <1> HIDE DEF N
  <1> DEFINE Good == {n \in 0..N : both[n] = Mapped(F, flat[n])}
  <1>8. 0 \in Good
    <2>1. Mapped(F, << >>) = << >>
      BY DEF Mapped
    <2> QED
      BY <1>1, <1>6, <1>7, <2>1
  <1>9. ASSUME NEW n \in 1..N, n - 1 \in Good PROVE n \in Good
    <2>1. n - 1 \in 0..N /\ n \in 0..N
      BY <1>1
    <2>2. flat[n - 1] \in Seq(S) /\ seqs[n] \in Seq(S)
      BY <1>1, <1>6, <2>1
    <2>3. Mapped(F, flat[n - 1] \o seqs[n]) = Mapped(F, flat[n - 1]) \o Mapped(F, seqs[n])
      <3>1. \A s, t \in Seq(S) : Mapped(F, s \o t) = Mapped(F, s) \o Mapped(F, t)
        BY MappedConcat
      <3> QED
        BY <2>2, <3>1
    <2>4. both[n - 1] = Mapped(F, flat[n - 1])
      BY <1>9
    <2>5. both[n] = Mapped(F, flat[n])
      BY <1>6, <1>7, <2>3, <2>4
    <2> QED
      BY <2>1, <2>5
  <1> HIDE DEF Good
  <1>10. \A n \in 0..N : n \in Good
    BY <1>1, <1>8, <1>9, TurnByTurn
  <1>11. N \in 0..N
    BY <1>1
  <1> QED
    BY <1>6, <1>7, <1>10, <1>11 DEF Good

------------------------------------------------------------------------------
(* Titles                                                                    *)

LEMMA CollapseType ==
    ASSUME NEW text \in Texts
    PROVE  CollapseSpace(text) \in Texts
  <1> DEFINE P == {i \in DOMAIN text :
                      \/ text[i] # Space
                      \/ /\ i > 1 /\ text[i - 1] # Space
                         /\ \E j \in (i + 1)..Len(text) : text[j] # Space}
  <1>1. text \in Seq(Lexemes) /\ P \in SUBSET (1..Len(text))
    BY DEF Texts
  <1>2. CollapseSpace(text) = Pick(text, P)
    BY DEF CollapseSpace
  <1> HIDE DEF P
  <1>3. Pick(text, P) \in Seq(Lexemes)
    BY <1>1, PickInOrder
  <1> QED
    BY <1>2, <1>3 DEF Texts

LEMMA SemanticType ==
    ASSUME NEW label \in Texts
    PROVE  Semantic(label) \in Texts
  <1> DEFINE groups  == {i \in DOMAIN label : label[i].kind = "["}
             n       == IF groups = {} THEN Len(label) ELSE Min(groups) - 1
             start   == SubSeq(label, 1, n)
             heading == CollapseSpace(start)
  <1>1. label \in Seq(Lexemes) /\ Len(label) \in Nat /\ groups \in SUBSET (1..Len(label))
    BY DEF Texts
  <1>2. n \in 0..Len(label)
    <2>1. CASE groups = {}
      BY <1>1, <2>1
    <2>2. CASE groups # {}
      <3>1. groups \in SUBSET Nat
        BY <1>1
      <3>2. Min(groups) \in groups
        BY <2>2, <3>1, MinIsFirst
      <3>3. Min(groups) \in 1..Len(label)
        BY <1>1, <3>2
      <3> HIDE DEF groups
      <3> QED
        BY <1>1, <2>2, <3>3
    <2> QED
      BY <2>1, <2>2
  <1>3. Semantic(label) = IF heading # << >> /\ Last(heading).kind = "distributor"
                          THEN CollapseSpace(Front(heading)) ELSE heading
    BY DEF Semantic
  <1> HIDE DEF n
  <1>4. start \in Texts
    <2>1. \A i \in 1..n : label[i] \in Lexemes
      BY <1>1, <1>2
    <2>2. n \in Int
      BY <1>2
    <2> QED
      BY <2>1, <2>2, SubSeqProperties DEF Texts
  <1> HIDE DEF start
  <1>5. heading \in Texts
    BY <1>4, CollapseType
  <1> HIDE DEF heading
  <1>6. heading # << >> => Front(heading) \in Texts
    <2>1. heading \in Seq(Lexemes) /\ Len(heading) \in Nat
      BY <1>5 DEF Texts
    <2>2. \A i \in 1..(Len(heading) - 1) : heading[i] \in Lexemes
      BY <2>1
    <2>3. Len(heading) - 1 \in Int
      BY <2>1
    <2>4. SubSeq(heading, 1, Len(heading) - 1) \in Seq(Lexemes)
      BY <2>2, <2>3, SubSeqProperties
    <2> QED
      BY <2>4 DEF Front, Texts
  <1> QED
    BY <1>3, <1>5, <1>6, CollapseType

LEMMA SeasonsInBounds ==
    ASSUME NEW text
    PROVE  ParseSeason(text) \in 0..maxSeason
  <1>1. \A n : (IF Bounded(n, maxSeason) THEN n ELSE 0) \in 0..maxSeason
    BY DEF Bounded, maxSeason
  <1>2. \A t : RomanSeason(t) \in 0..maxSeason
    BY DEF RomanSeason, Bounded, maxSeason
  <1>3. 0 \in 0..maxSeason
    BY DEF maxSeason
  <1> QED
    BY <1>1, <1>2, <1>3 DEF ParseSeason

\* Episodes that are announced are in bounds and in order.
EpisodesSound(e) ==
    \/ e = NoEpisodes
    \/ e.first \in 1..maxEpisode /\ e.last \in 1..maxEpisode /\ e.first <= e.last

LEMMA GroupsSound ==
    ASSUME NEW content
    PROVE  EpisodesSound(ParseGroup(content))
  BY DEF ParseGroup, EpisodesSound, Bounded

LEMMA EpisodesInBounds ==
    ASSUME NEW label
    PROVE  EpisodesSound(ParseEpisodes(label))
  <1>1. ParseEpisodes(label) = NoEpisodes \/ \E content : ParseEpisodes(label) = ParseGroup(content)
    BY DEF ParseEpisodes
  <1>2. EpisodesSound(NoEpisodes)
    BY DEF EpisodesSound
  <1> QED
    BY <1>1, <1>2, GroupsSound

\* What a title announces.
LEMMA TitleSound ==
    ASSUME NEW type, NEW main, NEW label
    PROVE  LET title == ParseTitle(type, main, label) IN
           title.first # 0 =>
              /\ title.season \in 1..maxSeason
              /\ title.first \in 1..maxEpisode /\ title.last \in 1..maxEpisode
              /\ title.first <= title.last
  <1> DEFINE title == ParseTitle(type, main, label)
             found == ParseSeason(Semantic(CollapseSpace(label)))
             episodes == ParseEpisodes(CollapseSpace(label))
  <1>1. /\ title.season = IF type = "MOVIE" /\ episodes = NoEpisodes THEN 0
                          ELSE IF found = 0 THEN 1 ELSE found
        /\ title.first = episodes.first /\ title.last = episodes.last
    BY DEF ParseTitle
  <1>2. found \in 0..maxSeason
    BY SeasonsInBounds
  <1>3. EpisodesSound(episodes)
    BY EpisodesInBounds
  <1> HIDE DEF title, found, episodes
  <1> SUFFICES ASSUME title.first # 0
               PROVE  /\ title.season \in 1..maxSeason
                      /\ title.first \in 1..maxEpisode /\ title.last \in 1..maxEpisode
                      /\ title.first <= title.last
    BY DEF title
  <1>4. episodes # NoEpisodes
    BY <1>1 DEF NoEpisodes
  <1>5. title.season \in 1..maxSeason
    BY <1>1, <1>2, <1>4 DEF maxSeason
  <1> QED
    BY <1>1, <1>3, <1>4, <1>5 DEF EpisodesSound

\* The season of a label whose first explicit season is out of bounds.
LEMMA UnsafeSeason ==
    ASSUME NEW type, NEW main, NEW label \in Texts, NEW name, name = Semantic(CollapseSpace(label)),
           NEW j \in ExplicitSeason(name), \A k \in ExplicitSeason(name) : j <= k,
           name[j].season \notin 1..maxSeason
    PROVE  ParseTitle(type, main, label).season \in {0, 1}
  <1>1. name \in Texts
    BY CollapseType, SemanticType
  <1>2. ExplicitSeason(name) \in SUBSET Nat
    BY <1>1 DEF ExplicitSeason, CompleteAt, Texts
  <1>3. Min(ExplicitSeason(name)) = j
    <2>1. Min(ExplicitSeason(name)) \in ExplicitSeason(name) /\ Min(ExplicitSeason(name)) <= j
      BY <1>2, MinIsFirst
    <2>2. j <= Min(ExplicitSeason(name))
      BY <2>1
    <2>3. Min(ExplicitSeason(name)) \in Nat /\ j \in Nat
      BY <1>2, <2>1
    <2> QED
      BY <2>1, <2>2, <2>3
  <1>4. ParseSeason(name) = 0
    BY <1>3 DEF ParseSeason, Bounded
  <1> QED
    BY <1>4 DEF ParseTitle

------------------------------------------------------------------------------
(* The invariant of the pipeline                                             *)

Items == [hash : Nat, updated : Nat, category : {"tv", "anime"}, alias : STRING]

TypeOK ==
    /\ request \in Requests /\ answers \in Seq(Answers)
    /\ source \in {"latest", "search"}
    /\ phase \in {"received", "loading", "refused", "failed", "scanning", "done", "aborted"}
    /\ rejections \in [total : Nat, sampled : Nat, by : [Reasons -> Nat]]

\* Once the query is read it is what NormalizeQuery made of it.
QueryRead ==
    phase \notin {"received", "aborted"} =>
        query = NormalizeQuery(request.q, request.season, request.ep)

\* What is scanned are the sound torrents of the answers.
Loaded == input = [i \in 1..Len(Sound) |-> Validated(Sound[i])]

InputRead ==
    /\ phase \in {"received", "loading", "refused"} => input = << >> /\ items = << >>
    /\ phase \in {"scanning", "done", "failed"} => Loaded
    /\ phase = "aborted" => input = << >> \/ Loaded

\* The hashes met are those of the torrents scanned.
SeenSoFar ==
    /\ next \in 1..(Len(input) + 1)
    /\ seen = {input[j].hash : j \in 1..(next - 1)}

\* The first torrent of each hash, and what becomes of them.
News(n)       == {i \in 1..n : \A j \in 1..(i - 1) : input[j].hash # input[i].hash}
Ruled(why, n) == {i \in News(n) : Verdict(input[i]) = why}

\* Every rejection is counted under its reason.
Counted ==
    /\ \A why \in Reasons : rejections.by[why] = Cardinality(Ruled(why, next - 1))
    /\ rejections.total = rejections.by["unsupported_release_type"]
                          + rejections.by["invalid_title"]
                          + rejections.by["peer_count_overflow"]
    /\ rejections.sampled = Min({rejections.total, processedTorrentLogSampleLimit})

\* No two items of a list share a hash.
Distinct(list) == \A j, k \in 1..Len(list) : list[j].hash = list[k].hash => j = k

\* The items so far are those of the torrents that were accepted.
ItemsSoFar ==
    phase \in {"received", "loading", "scanning"} =>
        /\ items \in Seq(Items) /\ Distinct(items)
        /\ \A k \in 1..Len(items) : \E i \in Ruled("item", next - 1) : items[k] = Item(input[i])
        /\ \A i \in Ruled("item", next - 1) : \E k \in 1..Len(items) : items[k] = Item(input[i])

\* The feed is in order and holds the items that can be printed.
Ordered(list) == \A j, k \in 1..Len(list) : j < k => Before(list[j], list[k])

FeedComplete ==
    phase = "done" =>
        /\ next = Len(input) + 1
        /\ items \in Seq(Items) /\ Ordered(items)
        /\ \A k \in 1..Len(items) :
              /\ Printable(items[k])
              /\ \E i \in Ruled("item", Len(input)) : items[k] = Item(input[i])
        /\ \A i \in Ruled("item", Len(input)) : Printable(Item(input[i])) =>
              \E k \in 1..Len(items) : items[k] = Item(input[i])

IInv ==
    /\ TypeOK
    /\ QueryRead
    /\ InputRead
    /\ SeenSoFar
    /\ Counted
    /\ ItemsSoFar
    /\ FeedComplete

------------------------------------------------------------------------------
(* What is read of the answers                                               *)

Kept == {t \in Torrents : t.flaws = {}}

LEMMA AnswerFacts ==
    ASSUME NEW a \in Answers
    PROVE  /\ a.release \in Nat \ {0}
           /\ a.body.shape \in {"array", "object", "other"} /\ a.body.items \in Seq(Torrents)
           /\ Len(a.body.items) \in Nat /\ DOMAIN a.body.items = 1..Len(a.body.items)
           /\ \A i \in 1..Len(a.body.items) : a.body.items[i] \in Torrents
  <1> DEFINE Lists == Seq(Torrents)
  <1>1. Lists = Seq(Torrents)
    OBVIOUS
  <1> HIDE DEF Lists
  <1>2. a \in [release : Nat \ {0}, body : [shape : {"array", "object", "other"}, items : Lists]]
    BY <1>1 DEF Answers
  <1>3. a.release \in Nat \ {0} /\ a.body.shape \in {"array", "object", "other"}
        /\ a.body.items \in Lists
    BY <1>2
  <1> HIDE DEF Torrents
  <1> QED
    BY <1>1, <1>3

LEMMA WindowFacts ==
    ASSUME NEW a \in Answers
    PROVE  /\ Window(a) \in Seq(Torrents) /\ Len(Window(a)) \in Nat
           /\ DOMAIN Window(a) = 1..Len(Window(a))
           /\ \A i \in 1..Len(Window(a)) : Window(a)[i] \in Torrents
  <1>1. a.body.items \in Seq(Torrents) /\ Len(a.body.items) \in Nat
        /\ \A i \in 1..Len(a.body.items) : a.body.items[i] \in Torrents
    BY AnswerFacts
  <1>2. Window(a) \in Seq(Torrents)
    <2>1. CASE source = "latest" /\ Len(a.body.items) > latestLimit
      <3>1. latestLimit \in Int /\ \A i \in 1..latestLimit : a.body.items[i] \in Torrents
        BY <1>1, <2>1, DecodingAssumption
      <3>2. SubSeq(a.body.items, 1, latestLimit) \in Seq(Torrents)
        BY <3>1, SubSeqProperties
      <3> QED
        BY <2>1, <3>2 DEF Window
    <2>2. CASE ~(source = "latest" /\ Len(a.body.items) > latestLimit)
      BY <1>1, <2>2 DEF Window
    <2> QED
      BY <2>1, <2>2
  <1> QED
    BY <1>2

LEMMA SoundOfType ==
    ASSUME NEW a \in Answers
    PROVE  SoundOf(a) \in Seq(Kept)
  <1> DEFINE P == {i \in DOMAIN Window(a) :
                      /\ Window(a)[i].flaws = {}
                      /\ source = "latest" \/ Window(a)[i].release = a.release}
             s == Pick(Window(a), P)
  <1>1. SoundOf(a) = s
    BY DEF SoundOf
  <1>2. Window(a) \in Seq(Torrents) /\ P \in SUBSET (1..Len(Window(a)))
    BY WindowFacts
  <1>3. \A i \in P : Window(a)[i] \in Kept
    BY WindowFacts DEF Kept
  <1> HIDE DEF P
  <1>4. s \in Seq(Torrents) /\ \A k \in 1..Len(s) : \E i \in P : s[k] = Window(a)[i]
    BY <1>2, PickElements
  <1> HIDE DEF s
  <1>5. \A k \in 1..Len(s) : s[k] \in Kept
    BY <1>3, <1>4
  <1>6. s \in [1..Len(s) -> Kept] /\ Len(s) \in Nat
    BY <1>4, <1>5
  <1> QED
    BY <1>1, <1>6

\* The answers that can be read, and what each of them holds.
ReadAnswers == Pick(answers, {i \in DOMAIN answers : Readable(answers[i])})
SoundLists  == [i \in DOMAIN ReadAnswers |-> SoundOf(ReadAnswers[i])]

LEMMA ReadAnswersType ==
    ASSUME answers \in Seq(Answers)
    PROVE  /\ ReadAnswers \in Seq(Answers) /\ DOMAIN ReadAnswers = 1..Len(ReadAnswers)
           /\ Len(ReadAnswers) \in Nat /\ \A i \in 1..Len(ReadAnswers) : ReadAnswers[i] \in Answers
           /\ \A i \in 1..Len(ReadAnswers) : Readable(ReadAnswers[i])
           /\ SoundLists \in Seq(Seq(Kept)) /\ Len(SoundLists) = Len(ReadAnswers)
           /\ Sound = FlattenSeq(SoundLists) /\ Sound \in Seq(Kept)
  <1> DEFINE P == {i \in DOMAIN answers : Readable(answers[i])}
  <1>1. P \in SUBSET (1..Len(answers)) /\ \A i \in P : Readable(answers[i])
    OBVIOUS
  <1>2. ReadAnswers = Pick(answers, P)
    BY DEF ReadAnswers
  <1> HIDE DEF P
  <1>3. /\ ReadAnswers \in Seq(Answers)
        /\ \A k \in 1..Len(ReadAnswers) : \E i \in P : ReadAnswers[k] = answers[i]
    BY <1>1, <1>2, PickElements
  <1>4. \A k \in 1..Len(ReadAnswers) : Readable(ReadAnswers[k])
    BY <1>1, <1>3
  <1>5. DOMAIN ReadAnswers = 1..Len(ReadAnswers) /\ Len(ReadAnswers) \in Nat
        /\ \A i \in 1..Len(ReadAnswers) : ReadAnswers[i] \in Answers
    BY <1>3
  <1>6. \A i \in 1..Len(ReadAnswers) : SoundOf(ReadAnswers[i]) \in Seq(Kept)
    BY <1>5, SoundOfType
  <1>7. SoundLists \in Seq(Seq(Kept)) /\ Len(SoundLists) = Len(ReadAnswers)
    BY <1>5, <1>6 DEF SoundLists
  <1>8. Sound = FlattenSeq(SoundLists)
    BY DEF Sound, SoundLists, ReadAnswers
  <1>9. Sound \in Seq(Kept)
    BY <1>7, <1>8, FlattenType
  <1> QED
    BY <1>3, <1>4, <1>5, <1>7, <1>8, <1>9

\* The decoder reads what is readable.
LEMMA DecodedOk ==
    ASSUME NEW a \in Answers, source \in {"latest", "search"}
    PROVE  Decoded(a).ok <=> Readable(a)
  <1>1. a.body.shape \in {"array", "object", "other"}
    BY AnswerFacts
  <1>2. DecodeList(a.body.items).ok <=> \A i \in DOMAIN a.body.items : ~a.body.items[i].mistyped
    BY DEF DecodeList
  <1>3. CASE source = "latest"
    <2>1. Decoded(a) = DecodeLatest(a.body)
      BY <1>3 DEF Decoded
    <2>2. DecodeLatest(a.body).ok <=> a.body.shape = "array" /\ DecodeList(a.body.items).ok
      BY DEF DecodeLatest, DecodeList
    <2> QED
      BY <1>2, <1>3, <2>1, <2>2 DEF Readable
  <1>4. CASE source = "search"
    <2>1. Decoded(a) = DecodeCollection(a.body)
      BY <1>4 DEF Decoded
    <2>2. DecodeCollection(a.body).ok
          <=> a.body.shape \in {"array", "object"} /\ DecodeList(a.body.items).ok
      BY DEF DecodeCollection
    <2> QED
      BY <1>2, <1>4, <2>1, <2>2 DEF Readable
  <1> QED
    BY <1>3, <1>4

\* What the decoder hands on of an answer it can read.
LEMMA DecodedRaw ==
    ASSUME NEW a \in Answers, source \in {"latest", "search"}, Readable(a)
    PROVE  Decoded(a).raw = Window(a)
  <1>1. DecodeList(a.body.items) = [ok |-> TRUE, raw |-> a.body.items]
    BY DEF DecodeList, Readable
  <1>2. CASE source = "latest"
    <2>1. Decoded(a).raw = SubSeq(a.body.items, 1, Min({Len(a.body.items), latestLimit}))
      <3>1. Decoded(a) = DecodeLatest(a.body) /\ a.body.shape = "array"
        BY <1>2 DEF Decoded, Readable
      <3> DEFINE d   == DecodeList(a.body.items)
                 new == SubSeq(d.raw, 1, Min({Len(d.raw), latestLimit}))
      <3>2. DecodeLatest(a.body) = [d EXCEPT !.raw = new]
        BY <3>1 DEF DecodeLatest
      <3>3. d = [ok |-> TRUE, raw |-> a.body.items] /\ d.raw = a.body.items
        BY <1>1
      <3> HIDE DEF d, new
      <3>4. [d EXCEPT !.raw = new].raw = new
        BY <3>3
      <3>5. Decoded(a).raw = new
        BY <3>1, <3>2, <3>4
      <3> QED
        BY <3>3, <3>5 DEF new
    <2>2. a.body.items \in Seq(Torrents) /\ Len(a.body.items) \in Int /\ latestLimit \in Int
      BY AnswerFacts, DecodingAssumption
    <2>3. Min({Len(a.body.items), latestLimit})
          = IF Len(a.body.items) <= latestLimit THEN Len(a.body.items) ELSE latestLimit
      BY <2>2, MinOfTwo
    <2>4. SubSeq(a.body.items, 1, Len(a.body.items)) = a.body.items
      BY <2>2, SubSeqFull
    <2>5. CASE Len(a.body.items) <= latestLimit
      BY <1>2, <2>1, <2>2, <2>3, <2>4, <2>5 DEF Window
    <2>6. CASE ~(Len(a.body.items) <= latestLimit)
      <3>1. Decoded(a).raw = SubSeq(a.body.items, 1, latestLimit)
        BY <2>1, <2>3, <2>6
      <3>2. Len(a.body.items) > latestLimit
        BY <2>2, <2>6
      <3> QED
        BY <1>2, <3>1, <3>2 DEF Window
    <2> QED
      BY <2>5, <2>6
  <1>3. CASE source = "search"
    BY <1>1, <1>3 DEF Decoded, DecodeCollection, Readable, Window
  <1> QED
    BY <1>2, <1>3

\* A torrent is handed on if nothing is at fault.
LEMMA FaultFree ==
    ASSUME NEW t \in Torrents, NEW expected \in Nat
    PROVE  FieldAtFault(t, expected) = "" <=> t.flaws = {} /\ (expected = 0 \/ t.release = expected)
  <1> DEFINE failed == {i \in DOMAIN Fields : Fields[i] \in t.flaws}
  <1>1. DOMAIN Fields = 1..14
    BY DEF Fields
  <1>2. t.flaws \subseteq ToSet(Fields)
    BY DEF Torrents
  <1>3. failed # {} <=> t.flaws # {}
    BY <1>1, <1>2 DEF ToSet
  <1>4. \A i \in 1..14 : Fields[i] # ""
    <2>1. \A i \in 1..14 : \/ i = 1 \/ i = 2 \/ i = 3 \/ i = 4 \/ i = 5 \/ i = 6 \/ i = 7
                           \/ i = 8 \/ i = 9 \/ i = 10 \/ i = 11 \/ i = 12 \/ i = 13 \/ i = 14
      OBVIOUS
    <2>2. /\ Fields[1] = "encoding" /\ Fields[2] = "hash" /\ Fields[3] = "size"
          /\ Fields[4] = "seeders" /\ Fields[5] = "leechers" /\ Fields[6] = "completed_times"
          /\ Fields[7] = "release.id" /\ Fields[8] = "release.year"
          /\ Fields[9] = "release.type.value" /\ Fields[10] = "updated_at"
          /\ Fields[11] = "magnet" /\ Fields[12] = "label" /\ Fields[13] = "release.name.main"
          /\ Fields[14] = "release.alias"
      BY DEF Fields
    <2> QED
      BY <2>1, <2>2
  <1>5. FieldAtFault(t, expected) =
           IF failed # {} THEN Fields[Min(failed)]
           ELSE IF expected > 0 /\ t.release # expected THEN "release.id" ELSE ""
    BY DEF FieldAtFault
  <1>6. failed # {} => Min(failed) \in 1..14
    <2>1. failed \in SUBSET Nat
      BY <1>1
    <2>2. failed # {} => Min(failed) \in failed
      BY <2>1, MinIsFirst
    <2> QED
      BY <1>1, <2>2
  <1> HIDE DEF failed
  <1>7. CASE failed # {}
    BY <1>3, <1>4, <1>5, <1>6, <1>7
  <1>8. CASE failed = {}
    <2>1. expected > 0 <=> expected # 0
      OBVIOUS
    <2> QED
      BY <1>3, <1>5, <1>8, <2>1
  <1> QED
    BY <1>7, <1>8

\* Validation as a function on the sound torrents.
Validating == [t \in Kept |-> Validated(t)]

LEMMA AnswerRead ==
    ASSUME NEW a \in Answers, source \in {"latest", "search"}, Readable(a)
    PROVE  ValidTorrents(Decoded(a).raw, Expected(a)).torrents = Mapped(Validating, SoundOf(a))
  <1> DEFINE raw    == Window(a)
             faulty == {i \in DOMAIN raw : FieldAtFault(raw[i], Expected(a)) # ""}
             P      == {i \in DOMAIN Window(a) :
                           /\ Window(a)[i].flaws = {}
                           /\ source = "latest" \/ Window(a)[i].release = a.release}
             valid  == Pick(raw, DOMAIN raw \ faulty)
  <1>1. Decoded(a).raw = raw
    BY DecodedRaw
  <1>2. ValidTorrents(raw, Expected(a)).torrents = [i \in DOMAIN valid |-> Validated(valid[i])]
    BY DEF ValidTorrents
  <1>3. SoundOf(a) = Pick(raw, P)
    BY DEF SoundOf
  <1>4. DOMAIN raw \ faulty = P
    <2>1. ASSUME NEW i \in DOMAIN raw
          PROVE  FieldAtFault(raw[i], Expected(a)) = ""
                 <=> raw[i].flaws = {} /\ (source = "latest" \/ raw[i].release = a.release)
      <3>1. raw[i] \in Torrents /\ a.release \in Nat \ {0}
        BY WindowFacts, AnswerFacts
      <3>2. Expected(a) = IF source = "latest" THEN 0 ELSE a.release
        BY DEF Expected
      <3>3. Expected(a) \in Nat /\ (Expected(a) = 0 <=> source = "latest")
        BY <3>1, <3>2
      <3> HIDE DEF raw
      <3>4. FieldAtFault(raw[i], Expected(a)) = ""
            <=> raw[i].flaws = {} /\ (Expected(a) = 0 \/ raw[i].release = Expected(a))
        BY <3>1, <3>3, FaultFree
      <3> QED
        BY <3>2, <3>3, <3>4
    <2> QED
      BY <2>1
  <1>5. valid = SoundOf(a)
    BY <1>3, <1>4
  <1> HIDE DEF valid
  <1>6. SoundOf(a) \in Seq(Kept)
    BY SoundOfType
  <1>7. DOMAIN SoundOf(a) = 1..Len(SoundOf(a)) /\ \A i \in 1..Len(SoundOf(a)) : SoundOf(a)[i] \in Kept
    BY <1>6
  <1>8. \A i \in 1..Len(SoundOf(a)) : Validating[SoundOf(a)[i]] = Validated(SoundOf(a)[i])
    BY <1>7 DEF Validating
  <1> HIDE DEF raw
  <1> QED
    BY <1>1, <1>2, <1>5, <1>7, <1>8 DEF Mapped

\* The load reads what is sound, in the order of the answers.
LEMMA LoadReads ==
    ASSUME TypeOK, Load
    PROVE  input' = [i \in 1..Len(Sound) |-> Validated(Sound[i])]
  <1> DEFINE read  == Pick(answers, {i \in DOMAIN answers : Decoded(answers[i]).ok})
             lists == [i \in DOMAIN read |->
                          ValidTorrents(Decoded(read[i]).raw, Expected(read[i])).torrents]
  <1>1. answers \in Seq(Answers) /\ source \in {"latest", "search"}
    BY DEF TypeOK
  <1>2. input' = FlattenSeq(lists)
    BY DEF Load
  <1>3. read = ReadAnswers
    <2>1. \A i \in DOMAIN answers : Decoded(answers[i]).ok <=> Readable(answers[i])
      BY <1>1, DecodedOk
    <2>2. {i \in DOMAIN answers : Decoded(answers[i]).ok} = {i \in DOMAIN answers : Readable(answers[i])}
      BY <2>1
    <2> QED
      BY <2>2 DEF ReadAnswers
  <1> HIDE DEF read
  <1>4. /\ DOMAIN ReadAnswers = 1..Len(ReadAnswers)
        /\ \A i \in 1..Len(ReadAnswers) : ReadAnswers[i] \in Answers /\ Readable(ReadAnswers[i])
        /\ SoundLists \in Seq(Seq(Kept)) /\ Len(SoundLists) = Len(ReadAnswers)
        /\ Sound = FlattenSeq(SoundLists) /\ Sound \in Seq(Kept)
    BY <1>1, ReadAnswersType
  <1>5. \A i \in 1..Len(ReadAnswers) :
           ValidTorrents(Decoded(ReadAnswers[i]).raw, Expected(ReadAnswers[i])).torrents
           = Mapped(Validating, SoundOf(ReadAnswers[i]))
    BY <1>1, <1>4, AnswerRead
  <1>6. \A i \in 1..Len(ReadAnswers) : SoundLists[i] = SoundOf(ReadAnswers[i])
    BY <1>4 DEF SoundLists
  <1>7. lists = [i \in 1..Len(SoundLists) |-> Mapped(Validating, SoundLists[i])]
    BY <1>3, <1>4, <1>5, <1>6
  <1> HIDE DEF lists
  <1>8. FlattenSeq(lists) = Mapped(Validating, FlattenSeq(SoundLists))
    <2> DEFINE T == {Validated(t) : t \in Kept}
    <2>1. Validating \in [Kept -> T]
      BY DEF Validating
    <2> HIDE DEF T
    <2> QED
      BY <1>4, <1>7, <2>1, FlattenMapped
  <1>9. input' = Mapped(Validating, Sound)
    BY <1>2, <1>4, <1>8
  <1>10. \A i \in 1..Len(Sound) : Sound[i] \in Kept
    BY <1>4
  <1>11. \A i \in 1..Len(Sound) : Validating[Sound[i]] = Validated(Sound[i])
    BY <1>10 DEF Validating
  <1> QED
    BY <1>9, <1>11 DEF Mapped

\* What is sound depends on what was asked and answered alone.
LEMMA SoundStays ==
    ASSUME UNCHANGED <<answers, source>>
    PROVE  Sound' = Sound
  BY DEF Sound, Readable, SoundOf, Window

------------------------------------------------------------------------------
(* The steps up to the loop                                                  *)

\* What is known of a torrent that is scanned.
TorrentSound(t) ==
    /\ t.hash \in Nat /\ t.updated \in Nat /\ t.alias \in STRING /\ t.label \in Texts
    /\ t.seeders \in 0..MaxCount /\ t.leechers \in 0..MaxCount
    /\ Known(t.type)

LEMMA KeptFacts ==
    ASSUME NEW t \in Kept
    PROVE  TorrentSound(Validated(t))
  <1>1. /\ t \in [flaws : SUBSET ToSet(Fields), mistyped : BOOLEAN, hash : Nat \X BOOLEAN,
                  release : Int, type : STRING, label : Texts, main : Texts, alias : STRING,
                  updated : Nat, seeders : 0..MaxCount, leechers : 0..MaxCount]
        /\ Known(t.type)
    BY DEF Kept, Torrents
  <1>2. t.hash[1] \in Nat
    BY <1>1
  <1> HIDE DEF Known, Texts
  <1> QED
    BY <1>1, <1>2 DEF TorrentSound, Validated, Lower

LEMMA InputFacts ==
    ASSUME TypeOK, InputRead
    PROVE  /\ Sound \in Seq(Kept) /\ Len(Sound) \in Nat
           /\ Len(input) \in Nat /\ DOMAIN input = 1..Len(input)
           /\ \A i \in 1..Len(input) : TorrentSound(input[i])
           /\ input = << >> \/ Loaded
           /\ Loaded => /\ Len(input) = Len(Sound)
                        /\ \A i \in 1..Len(input) : Sound[i] \in Kept /\ input[i] = Validated(Sound[i])
  <1>1. answers \in Seq(Answers)
    BY DEF TypeOK
  <1>2. Sound \in Seq(Kept) /\ Len(Sound) \in Nat
    BY <1>1, ReadAnswersType
  <1>3. input = << >> \/ Loaded
    BY DEF InputRead, TypeOK
  <1>4. CASE input = << >>
    <2>1. Len(input) = 0 /\ DOMAIN input = 1..0
      BY <1>4
    <2>2. Loaded => Len(Sound) = 0
      <3>1. Loaded => DOMAIN input = 1..Len(Sound)
        BY DEF Loaded
      <3> QED
        BY <1>2, <2>1, <3>1
    <2> QED
      BY <1>2, <1>3, <2>1, <2>2
  <1>5. CASE Loaded
    <2>1. DOMAIN input = 1..Len(Sound) /\ \A i \in 1..Len(Sound) : input[i] = Validated(Sound[i])
      BY <1>5 DEF Loaded
    <2>2. Len(input) = Len(Sound)
      BY <1>2, <1>5 DEF Loaded
    <2>3. \A i \in 1..Len(Sound) : Sound[i] \in Kept
      BY <1>2
    <2>4. \A i \in 1..Len(Sound) : TorrentSound(input[i])
      BY <2>1, <2>3, KeptFacts
    <2> QED
      BY <1>2, <1>3, <2>1, <2>2, <2>3, <2>4
  <1> QED
    BY <1>3, <1>4, <1>5

LEMMA NothingRuled == \A why : News(0) = {} /\ Ruled(why, 0) = {}
  BY DEF News, Ruled

LEMMA RuledStays ==
    ASSUME UNCHANGED <<request, query, input>>, NEW why, NEW n
    PROVE  News(n)' = News(n) /\ Ruled(why, n)' = Ruled(why, n)
  <1>1. News(n)' = News(n)
    BY DEF News
  <1>2. \A t : Verdict(t)' = Verdict(t)
    BY DEF Verdict, CategoryMatches
  <1> QED
    BY <1>1, <1>2 DEF Ruled

\* The next turn looks at one more.
LEMMA RuledNext ==
    ASSUME UNCHANGED <<request, query, input>>, next' - 1 = next, NEW why
    PROVE  Ruled(why, next - 1)' = Ruled(why, next)
  <1>1. News(next - 1)' = News(next)
    BY DEF News
  <1>2. \A t : Verdict(t)' = Verdict(t)
    BY DEF Verdict, CategoryMatches
  <1> QED
    BY <1>1, <1>2 DEF Ruled

LEMMA Initially == Init => IInv
  <1> SUFFICES ASSUME Init PROVE IInv
    OBVIOUS
  <1>1. request \in Requests /\ answers \in Seq(Answers)
    BY ScenarioAssumption DEF Init
  <1>2. 0 \in Nat /\ rejections \in [total : Nat, sampled : Nat, by : [Reasons -> Nat]]
    BY DEF Init
  <1>3. TypeOK
    BY <1>1, <1>2 DEF Init, TypeOK
  <1>4. QueryRead /\ InputRead
    BY DEF Init, QueryRead, InputRead
  <1>5. input = << >> /\ Len(input) = 0 /\ next = 1 /\ next - 1 = 0
    <2>1. input = << >> /\ next = 1
      BY DEF Init
    <2> QED
      BY <2>1
  <1>6. SeenSoFar
    <2>1. seen = {}
      BY DEF Init
    <2>2. {input[j].hash : j \in 1..(next - 1)} = {}
      BY <1>5
    <2> QED
      BY <1>5, <2>1, <2>2 DEF SeenSoFar
  <1>7. Counted
    <2>1. \A why \in Reasons : rejections.by[why] = 0
      BY DEF Init
    <2>2. rejections.total = 0 /\ rejections.sampled = 0
      BY DEF Init
    <2>3. Min({0, processedTorrentLogSampleLimit}) = 0
      BY MinOfTwo, FeedAssumption
    <2>4. /\ "unsupported_release_type" \in Reasons /\ "invalid_title" \in Reasons
          /\ "peer_count_overflow" \in Reasons
      BY DEF Reasons
    <2>5. \A why \in Reasons : rejections.by[why] = Cardinality(Ruled(why, next - 1))
      <3>1. \A why : Ruled(why, next - 1) = {}
        BY <1>5, NothingRuled
      <3> QED
        BY <2>1, <3>1, FS_EmptySet
    <2>6. rejections.total = rejections.by["unsupported_release_type"]
                             + rejections.by["invalid_title"]
                             + rejections.by["peer_count_overflow"]
      BY <2>1, <2>2, <2>4
    <2> QED
      BY <2>2, <2>3, <2>5, <2>6 DEF Counted
  <1>8. ItemsSoFar
    <2>1. items = << >> /\ Len(items) = 0
      BY DEF Init
    <2>2. << >> \in Seq(Items)
      OBVIOUS
    <2> QED
      BY <1>5, <2>1, <2>2, NothingRuled DEF ItemsSoFar, Distinct
  <1>9. FeedComplete
    BY DEF Init, FeedComplete
  <1> QED
    BY <1>3, <1>4, <1>6, <1>7, <1>8, <1>9 DEF IInv

\* Before the loop, nothing is counted and nothing is an item.
LEMMA LoopNotBegun ==
    ASSUME IInv, phase \in {"received", "loading"},
           UNCHANGED <<next, seen, items, rejections>>, Len(input') \in Nat, phase' # "done"
    PROVE  SeenSoFar' /\ Counted' /\ ItemsSoFar' /\ FeedComplete'
  <1>1. input = << >> /\ items = << >> /\ next = 1 /\ next - 1 = 0 /\ Len(input) = 0
    BY DEF IInv, InputRead, SeenSoFar
  <1>2. SeenSoFar'
    BY <1>1 DEF IInv, SeenSoFar
  <1>3. Counted'
    <2>1. \A why : Ruled(why, 0)' = {}
      BY DEF News, Ruled
    <2> QED
      BY <1>1, <2>1, NothingRuled DEF IInv, Counted
  <1>4. ItemsSoFar'
    <2>1. Ruled("item", 0)' = {}
      BY DEF News, Ruled
    <2>2. Len(items) = 0 /\ << >> \in Seq(Items)
      BY <1>1
    <2> QED
      BY <1>1, <2>1, <2>2 DEF ItemsSoFar, Distinct
  <1>5. FeedComplete'
    BY DEF FeedComplete
  <1> QED
    BY <1>2, <1>3, <1>4, <1>5

LEMMA NormalizeKeeps == IInv /\ Normalize => IInv'
  <1> SUFFICES ASSUME IInv, Normalize PROVE IInv'
    OBVIOUS
  <1>1. UNCHANGED <<request, answers, input, next, seen, items, rejections>>
        /\ phase = "received" /\ phase' \in {"refused", "loading"}
        /\ source' \in {"latest", "search"}
        /\ query' = NormalizeQuery(request.q, request.season, request.ep)
    BY DEF Normalize, scenario
  <1>2. TypeOK'
    BY <1>1 DEF IInv, TypeOK
  <1>3. QueryRead'
    BY <1>1 DEF QueryRead
  <1>4. input = << >> /\ items = << >> /\ Len(input) = 0
    BY <1>1 DEF IInv, InputRead
  <1>5. InputRead'
    BY <1>1, <1>4 DEF InputRead
  <1> QED
    BY <1>1, <1>2, <1>3, <1>4, <1>5, LoopNotBegun DEF IInv

LEMMA LoadKeeps == IInv /\ Load => IInv'
  <1> SUFFICES ASSUME IInv, Load PROVE IInv'
    OBVIOUS
  <1>1. UNCHANGED <<request, answers, query, source, next, seen, items, rejections>>
        /\ phase = "loading" /\ phase' \in {"failed", "scanning"}
    BY DEF Load, asked, scenario
  <1>2. TypeOK'
    BY <1>1 DEF IInv, TypeOK
  <1>3. QueryRead'
    BY <1>1 DEF IInv, QueryRead
  <1>4. Sound' = Sound /\ input' = [i \in 1..Len(Sound) |-> Validated(Sound[i])]
    BY <1>1, SoundStays, LoadReads DEF IInv
  <1>5. Loaded' /\ Len(input') \in Nat
    <2>1. Len(Sound) \in Nat
      BY InputFacts DEF IInv
    <2>2. Loaded'
      BY <1>4 DEF Loaded
    <2>3. Len(input') = Len(Sound)
      BY <1>4, <2>1
    <2> QED
      BY <2>1, <2>2, <2>3
  <1>6. InputRead'
    BY <1>1, <1>5 DEF InputRead
  <1> QED
    BY <1>1, <1>2, <1>3, <1>5, <1>6, LoopNotBegun DEF IInv

------------------------------------------------------------------------------
(* The loop                                                                  *)

\* The torrents ruled on so far are finitely many.
LEMMA RuledFinite ==
    ASSUME NEW n \in Nat, NEW why
    PROVE  /\ News(n) \subseteq 1..n /\ Ruled(why, n) \subseteq News(n)
           /\ IsFiniteSet(Ruled(why, n)) /\ Cardinality(Ruled(why, n)) \in Nat
  <1>1. News(n) \subseteq 1..n /\ Ruled(why, n) \subseteq News(n)
    BY DEF News, Ruled
  <1>2. IsFiniteSet(1..n)
    BY FS_Interval
  <1>3. IsFiniteSet(Ruled(why, n))
    BY <1>1, <1>2, FS_Subset
  <1> QED
    BY <1>1, <1>3, FS_CardinalityType

\* One more torrent is ruled on, if its hash is new.
LEMMA OneMore ==
    ASSUME NEW n \in Nat \ {0}, NEW why
    PROVE  /\ n \in News(n) <=> input[n].hash \notin {input[j].hash : j \in 1..(n - 1)}
           /\ Ruled(why, n) = IF n \in News(n) /\ Verdict(input[n]) = why
                              THEN Ruled(why, n - 1) \cup {n} ELSE Ruled(why, n - 1)
           /\ n \notin Ruled(why, n - 1)
  <1>1. \A i : i \in 1..n <=> i \in 1..(n - 1) \/ i = n
    OBVIOUS
  <1>2. n \notin 1..(n - 1) /\ n - 1 \in Nat
    OBVIOUS
  <1>3. \A i : i \in News(n) <=> i \in News(n - 1) \/ (i = n /\ n \in News(n))
    BY <1>1 DEF News
  <1>4. n \notin News(n - 1)
    BY <1>2 DEF News
  <1>5. n \in News(n) <=> input[n].hash \notin {input[j].hash : j \in 1..(n - 1)}
    BY <1>1 DEF News
  <1>6. \A i : i \in Ruled(why, n) <=> i \in News(n) /\ Verdict(input[i]) = why
    BY DEF Ruled
  <1>7. \A i : i \in Ruled(why, n - 1) <=> i \in News(n - 1) /\ Verdict(input[i]) = why
    BY DEF Ruled
  <1>8. CASE n \in News(n) /\ Verdict(input[n]) = why
    <2>1. \A i : i \in Ruled(why, n) <=> i \in Ruled(why, n - 1) \cup {n}
      BY <1>3, <1>6, <1>7, <1>8
    <2> QED
      BY <1>4, <1>5, <1>7, <1>8, <2>1
  <1>9. CASE ~(n \in News(n) /\ Verdict(input[n]) = why)
    <2>1. \A i : i \in Ruled(why, n) <=> i \in Ruled(why, n - 1)
      BY <1>3, <1>6, <1>7, <1>9
    <2> QED
      BY <1>4, <1>5, <1>7, <1>9, <2>1
  <1> QED
    BY <1>8, <1>9

\* What the loop body does, in terms of the torrents ruled on.
Ruling == IF next \in News(next) THEN Verdict(input[next]) ELSE "unwanted"

LEMMA ScanFacts ==
    ASSUME IInv, Scan
    PROVE  /\ next \in Nat \ {0} /\ next \in 1..Len(input)
           /\ phase = "scanning" /\ next' = next + 1 /\ next' - 1 = next
           /\ UNCHANGED <<request, answers, query, source, input, phase>>
           /\ seen' = {input[j].hash : j \in 1..next}
           /\ items' = IF Ruling = "item" THEN Append(items, Item(input[next])) ELSE items
           /\ rejections' = IF Ruling \in Reasons THEN Rejected(Ruling) ELSE rejections
           /\ \A why \in Reasons \cup {"item"} :
                 Ruled(why, next) = IF Ruling = why THEN Ruled(why, next - 1) \cup {next}
                                    ELSE Ruled(why, next - 1)
           /\ \A why : next \notin Ruled(why, next - 1)
  <1>1. next \in 1..(Len(input) + 1) /\ next <= Len(input) /\ Len(input) \in Nat
        /\ seen = {input[j].hash : j \in 1..(next - 1)}
    BY InputFacts DEF IInv, SeenSoFar, Scan
  <1>2. next \in Nat \ {0} /\ next \in 1..Len(input) /\ next - 1 \in Nat
    BY <1>1
  <1>3. /\ phase = "scanning" /\ next' = next + 1 /\ seen' = seen \cup {input[next].hash}
        /\ UNCHANGED <<request, answers, query, source, input, phase>>
    BY DEF Scan, asked, scenario
  <1>4. next' - 1 = next
    BY <1>2, <1>3
  <1>5. next \in News(next) <=> input[next].hash \notin seen
    BY <1>1, <1>2, OneMore
  <1>6. Ruling = IF input[next].hash \in seen THEN "unwanted" ELSE Verdict(input[next])
    BY <1>5 DEF Ruling
  <1>7. /\ items' = IF Ruling = "item" THEN Append(items, Item(input[next])) ELSE items
        /\ rejections' = IF Ruling \in Reasons THEN Rejected(Ruling) ELSE rejections
    BY <1>6 DEF Scan
  <1>8. seen' = {input[j].hash : j \in 1..next}
    <2>1. \A j : j \in 1..next <=> j \in 1..(next - 1) \/ j = next
      BY <1>2
    <2> QED
      BY <1>1, <1>3, <2>1
  <1>9. ASSUME NEW why \in Reasons \cup {"item"}
        PROVE  Ruled(why, next) = IF Ruling = why THEN Ruled(why, next - 1) \cup {next}
                                  ELSE Ruled(why, next - 1)
    <2>1. why # "unwanted"
      BY DEF Reasons
    <2>2. Ruling = why <=> next \in News(next) /\ Verdict(input[next]) = why
      BY <2>1 DEF Ruling
    <2> QED
      BY <1>2, <2>2, OneMore
  <1>10. \A why : next \notin Ruled(why, next - 1)
    BY <1>2, OneMore
  <1> QED
    BY <1>2, <1>3, <1>4, <1>7, <1>8, <1>9, <1>10

\* A rejection more is a rejection more under its reason, and in the sum.
LEMMA ScanCounts ==
    ASSUME IInv, Scan
    PROVE  Counted' /\ rejections' \in [total : Nat, sampled : Nat, by : [Reasons -> Nat]]
  <1> DEFINE limit == processedTorrentLogSampleLimit
             by    == rejections.by
  <1>1. /\ rejections = [total |-> rejections.total, sampled |-> rejections.sampled, by |-> by]
        /\ rejections.total \in Nat /\ rejections.sampled \in Nat /\ by \in [Reasons -> Nat]
    BY DEF IInv, TypeOK
  <1>2. /\ \A why \in Reasons : by[why] = Cardinality(Ruled(why, next - 1))
        /\ rejections.total = by["unsupported_release_type"] + by["invalid_title"]
                              + by["peer_count_overflow"]
        /\ rejections.sampled = Min({rejections.total, limit})
    BY DEF IInv, Counted
  <1>3. /\ next \in Nat \ {0} /\ next' - 1 = next
        /\ UNCHANGED <<request, query, input>>
        /\ rejections' = IF Ruling \in Reasons THEN Rejected(Ruling) ELSE rejections
        /\ \A why \in Reasons :
              Ruled(why, next) = IF Ruling = why THEN Ruled(why, next - 1) \cup {next}
                                 ELSE Ruled(why, next - 1)
        /\ \A why : next \notin Ruled(why, next - 1)
    BY ScanFacts
  <1>4. \A why \in Reasons : Ruled(why, next - 1)' = Ruled(why, next)
    BY <1>3, RuledNext
  <1>5. next - 1 \in Nat
    BY <1>3
  <1>6. \A why \in Reasons : Cardinality(Ruled(why, next))
           = IF Ruling = why THEN by[why] + 1 ELSE by[why]
    <2>1. \A why \in Reasons : IsFiniteSet(Ruled(why, next - 1))
      BY <1>5, RuledFinite
    <2> QED
      BY <1>2, <1>3, <2>1, FS_AddElement
  <1>7. CASE Ruling \in Reasons
    <2>1. rejections' = [total |-> rejections.total + 1,
                         sampled |-> Min({rejections.sampled + 1, limit}),
                         by |-> [by EXCEPT ![Ruling] = @ + 1]]
      BY <1>3, <1>7 DEF Rejected
    <2> DEFINE new == [by EXCEPT ![Ruling] = @ + 1]
    <2>2. new \in [Reasons -> Nat] /\ \A why \in Reasons :
             new[why] = IF Ruling = why THEN by[why] + 1 ELSE by[why]
      BY <1>1, <1>7
    <2>3. rejections'.total = rejections.total + 1
          /\ rejections'.sampled = Min({rejections.sampled + 1, limit}) /\ rejections'.by = new
      BY <2>1
    <2> HIDE DEF new, by
    <2>4. \A why \in Reasons : rejections'.by[why] = Cardinality(Ruled(why, next - 1)')
      BY <1>4, <1>6, <2>2, <2>3
    <2>5. rejections'.total = new["unsupported_release_type"] + new["invalid_title"]
                              + new["peer_count_overflow"]
      <3>1. /\ "unsupported_release_type" \in Reasons /\ "invalid_title" \in Reasons
            /\ "peer_count_overflow" \in Reasons
        BY DEF Reasons
      <3>2. \/ Ruling = "unsupported_release_type" \/ Ruling = "invalid_title"
            \/ Ruling = "peer_count_overflow"
        BY <1>7 DEF Reasons
      <3>3. /\ by["unsupported_release_type"] \in Nat /\ by["invalid_title"] \in Nat
            /\ by["peer_count_overflow"] \in Nat
        BY <1>1, <3>1
      <3> QED
        BY <1>2, <2>2, <2>3, <3>1, <3>2, <3>3
    <2>6. rejections'.sampled = Min({rejections'.total, limit}) /\ rejections'.sampled \in Nat
      <3>1. limit \in Nat
        BY FeedAssumption
      <3>2. rejections.sampled = IF rejections.total <= limit THEN rejections.total ELSE limit
        BY <1>1, <1>2, <3>1, MinOfTwo
      <3>9. rejections.sampled + 1 \in Int /\ rejections.total + 1 \in Int /\ limit \in Int
        BY <1>1, <3>1
      <3>3. Min({rejections.sampled + 1, limit})
            = IF rejections.sampled + 1 <= limit THEN rejections.sampled + 1 ELSE limit
        BY <3>9, MinOfTwo
      <3>4. Min({rejections.total + 1, limit})
            = IF rejections.total + 1 <= limit THEN rejections.total + 1 ELSE limit
        BY <3>9, MinOfTwo
      <3>5. Min({rejections.sampled + 1, limit}) = Min({rejections.total + 1, limit})
            /\ Min({rejections.sampled + 1, limit}) \in Nat
        BY <1>1, <3>1, <3>2, <3>3, <3>4
      <3> QED
        BY <2>3, <3>5
    <2>7. rejections' \in [total : Nat, sampled : Nat, by : [Reasons -> Nat]]
      BY <1>1, <2>1, <2>2, <2>3, <2>6 DEF new
    <2> QED
      BY <2>3, <2>4, <2>5, <2>6, <2>7 DEF Counted
  <1>8. CASE Ruling \notin Reasons
    <2>1. rejections' = rejections
      BY <1>3, <1>8
    <2>2. \A why \in Reasons : rejections'.by[why] = Cardinality(Ruled(why, next - 1)')
      BY <1>2, <1>4, <1>6, <1>8, <2>1
    <2> QED
      BY <1>2, <2>1, <2>2 DEF Counted, IInv, TypeOK
  <1> QED
    BY <1>7, <1>8

LEMMA ItemType ==
    ASSUME NEW t, TorrentSound(t)
    PROVE  Item(t) \in Items /\ Item(t).hash = t.hash
  <1>1. CategoryFor(t.type) \in {"tv", "anime"}
    BY DEF CategoryFor
  <1> QED
    BY <1>1 DEF TorrentSound, Item, Items

\* An item more is one of a hash that no item has.
LEMMA ScanItems ==
    ASSUME IInv, Scan
    PROVE  ItemsSoFar'
  <1> DEFINE old == Ruled("item", next - 1)
             new == Ruled("item", next)
             x   == Item(input[next])
  <1>1. /\ next \in Nat \ {0} /\ next \in 1..Len(input) /\ next' - 1 = next
        /\ phase = "scanning"
        /\ UNCHANGED <<request, query, input>>
        /\ items' = IF Ruling = "item" THEN Append(items, x) ELSE items
        /\ new = IF Ruling = "item" THEN old \cup {next} ELSE old
    BY ScanFacts
  <1>2. /\ items \in Seq(Items) /\ Distinct(items)
        /\ \A k \in 1..Len(items) : \E i \in old : items[k] = Item(input[i])
        /\ \A i \in old : \E k \in 1..Len(items) : items[k] = Item(input[i])
    BY <1>1 DEF IInv, ItemsSoFar
  <1>3. Ruled("item", next - 1)' = new
    BY <1>1, RuledNext
  <1>4. \A i \in 1..Len(input) : Item(input[i]) \in Items /\ Item(input[i]).hash = input[i].hash
    <2>1. \A i \in 1..Len(input) : TorrentSound(input[i])
      BY InputFacts DEF IInv
    <2> QED
      BY <2>1, ItemType
  <1>5. old \subseteq 1..(next - 1) /\ old \subseteq 1..Len(input) /\ Len(items) \in Nat
    <2>1. next - 1 \in Nat
      BY <1>1
    <2>2. old \subseteq 1..(next - 1)
      BY <2>1, RuledFinite
    <2>3. Len(input) \in Nat
      BY InputFacts DEF IInv
    <2> QED
      BY <1>1, <1>2, <2>2, <2>3
  <1>6. CASE Ruling = "item"
    <2>1. \A j \in 1..(next - 1) : input[j].hash # input[next].hash
      BY <1>6 DEF Ruling, News
    <2>2. \A k \in 1..Len(items) : items[k].hash # x.hash
      <3> SUFFICES ASSUME NEW k \in 1..Len(items) PROVE items[k].hash # x.hash
        OBVIOUS
      <3>1. PICK i \in old : items[k] = Item(input[i])
        BY <1>2
      <3>2. Item(input[i]).hash = input[i].hash /\ x.hash = input[next].hash /\ i \in 1..(next - 1)
        BY <1>1, <1>4, <1>5
      <3> QED
        BY <2>1, <3>1, <3>2
    <2>3. x \in Items
      BY <1>1, <1>4
    <2>4. items' = Append(items, x) /\ new = old \cup {next}
      BY <1>1, <1>6
    <2> HIDE DEF old, new
    <2>5. x = Item(input[next])
      OBVIOUS
    <2> HIDE DEF x
    <2>6. /\ items' \in Seq(Items) /\ Len(items') = Len(items) + 1
          /\ items'[Len(items) + 1] = x /\ \A k \in 1..Len(items) : items'[k] = items[k]
      BY <1>2, <1>5, <2>3, <2>4
    <2>7. \A k \in 1..Len(items') : k \in 1..Len(items) \/ k = Len(items) + 1
      BY <1>5, <2>6
    <2>8. \A k \in 1..Len(items) : k \in 1..Len(items') /\ k # Len(items) + 1
      BY <1>5, <2>6
    <2>9. Distinct(items')
      <3> SUFFICES ASSUME NEW j \in 1..Len(items'), NEW k \in 1..Len(items'),
                          items'[j].hash = items'[k].hash
                   PROVE  j = k
        BY DEF Distinct
      <3>1. CASE j \in 1..Len(items) /\ k \in 1..Len(items)
        BY <1>2, <2>6, <3>1 DEF Distinct
      <3>2. CASE j \in 1..Len(items) /\ k = Len(items) + 1
        BY <2>2, <2>6, <3>2
      <3>3. CASE j = Len(items) + 1 /\ k \in 1..Len(items)
        BY <2>2, <2>6, <3>3
      <3> QED
        BY <2>7, <3>1, <3>2, <3>3
    <2>10. \A k \in 1..Len(items') : \E i \in new : items'[k] = Item(input[i])
      BY <1>2, <2>4, <2>5, <2>6, <2>7
    <2>11. \A i \in new : \E k \in 1..Len(items') : items'[k] = Item(input[i])
      <3> SUFFICES ASSUME NEW i \in new PROVE \E k \in 1..Len(items') : items'[k] = Item(input[i])
        OBVIOUS
      <3>1. CASE i \in old
        <4>1. PICK k \in 1..Len(items) : items[k] = Item(input[i])
          BY <1>2, <3>1
        <4> QED
          BY <2>6, <2>8, <4>1
      <3>2. CASE i = next
        <4>1. Len(items) + 1 \in 1..Len(items')
          BY <1>5, <2>6
        <4> QED
          BY <2>5, <2>6, <3>2, <4>1
      <3> QED
        BY <2>4, <3>1, <3>2
    <2> QED
      BY <1>1, <1>3, <2>6, <2>9, <2>10, <2>11, ZenonT(30) DEF ItemsSoFar, Distinct
  <1>7. CASE Ruling # "item"
    <2>1. items' = items /\ new = old
      BY <1>1, <1>7
    <2> HIDE DEF old, new
    <2> QED
      BY <1>1, <1>2, <1>3, <2>1 DEF ItemsSoFar, Distinct
  <1> QED
    BY <1>6, <1>7

LEMMA ScanKeeps == IInv /\ Scan => IInv'
  <1> SUFFICES ASSUME IInv, Scan PROVE IInv'
    OBVIOUS
  <1>1. /\ next \in 1..Len(input) /\ next' = next + 1 /\ next' - 1 = next
        /\ phase = "scanning"
        /\ UNCHANGED <<request, answers, query, source, input, phase>>
        /\ seen' = {input[j].hash : j \in 1..next}
    BY ScanFacts
  <1>2. Counted' /\ rejections' \in [total : Nat, sampled : Nat, by : [Reasons -> Nat]]
    BY ScanCounts
  <1>3. ItemsSoFar'
    BY ScanItems
  <1>4. TypeOK'
    BY <1>1, <1>2 DEF IInv, TypeOK
  <1>5. QueryRead'
    BY <1>1 DEF IInv, QueryRead
  <1>6. Loaded' = Loaded
    <2>1. Sound' = Sound
      BY <1>1, SoundStays
    <2> QED
      BY <1>1, <2>1 DEF Loaded
  <1>7. InputRead'
    BY <1>1, <1>6 DEF IInv, InputRead
  <1>8. SeenSoFar'
    <2>1. Len(input) \in Nat
      BY InputFacts DEF IInv
    <2>2. next' \in 1..(Len(input') + 1)
      BY <1>1, <2>1
    <2>3. seen' = {input'[j].hash : j \in 1..(next' - 1)}
      BY <1>1
    <2> QED
      BY <2>2, <2>3 DEF SeenSoFar
  <1>9. FeedComplete'
    BY <1>1 DEF FeedComplete
  <1> QED
    BY <1>2, <1>3, <1>4, <1>5, <1>7, <1>8, <1>9 DEF IInv

\* The request may end at any time.
LEMMA AbortKeeps == IInv /\ Abort => IInv'
  <1> SUFFICES ASSUME IInv, Abort PROVE IInv'
    OBVIOUS
  <1>1. /\ UNCHANGED <<request, answers, query, source, input, next, seen, rejections>>
        /\ phase' = "aborted" /\ phase \in {"received", "loading", "scanning"}
    BY DEF Abort, asked, scenario
  <1>2. TypeOK' /\ QueryRead' /\ SeenSoFar' /\ ItemsSoFar' /\ FeedComplete'
    BY <1>1 DEF IInv, TypeOK, QueryRead, SeenSoFar, ItemsSoFar, FeedComplete
  <1>3. Loaded' = Loaded
    <2>1. Sound' = Sound
      BY <1>1, SoundStays
    <2> QED
      BY <1>1, <2>1 DEF Loaded
  <1>4. InputRead'
    BY <1>1, <1>3 DEF IInv, InputRead
  <1>5. Counted'
    <2>1. \A why : Ruled(why, next - 1)' = Ruled(why, next - 1)
      BY <1>1 DEF Ruled, News, Verdict, CategoryMatches
    <2> QED
      BY <1>1, <2>1 DEF IInv, Counted
  <1> QED
    BY <1>2, <1>4, <1>5 DEF IInv

LEMMA UnchangedKeeps ==
    ASSUME IInv, UNCHANGED <<request, answers, query, source, input, next, seen, items,
                             rejections, phase>>
    PROVE  IInv'
  <1>1. TypeOK' /\ QueryRead' /\ SeenSoFar'
    BY DEF IInv, TypeOK, QueryRead, SeenSoFar
  <1>2. Loaded' = Loaded
    <2>1. Sound' = Sound
      BY SoundStays
    <2> QED
      BY <2>1 DEF Loaded
  <1>3. InputRead'
    BY <1>2 DEF IInv, InputRead
  <1>4. \A t : Verdict(t)' = Verdict(t)
    BY DEF Verdict, CategoryMatches
  <1>5. \A why : /\ Ruled(why, next - 1)' = Ruled(why, next - 1)
                 /\ Ruled(why, Len(input))' = Ruled(why, Len(input))
    BY <1>4 DEF Ruled, News
  <1>6. Counted'
    BY <1>5 DEF IInv, Counted
  <1>7. ItemsSoFar'
    <2>1. Ruled("item", next - 1)' = Ruled("item", next - 1)
      BY <1>5
    <2> QED
      BY <2>1 DEF IInv, ItemsSoFar, Distinct
  <1>8. FeedComplete'
    <2>1. Ruled("item", Len(input))' = Ruled("item", Len(input))
      BY <1>5
    <2> QED
      BY <2>1 DEF IInv, FeedComplete, Ordered
  <1> QED
    BY <1>1, <1>3, <1>6, <1>7, <1>8 DEF IInv

------------------------------------------------------------------------------
(* The end of the loop                                                       *)

\* Those ahead of each of N things, in an order that leaves nothing open: the
\* numbers of those ahead are the places 0 to N - 1.
LEMMA Places ==
    ASSUME NEW N \in Nat, NEW A \in [1..N -> SUBSET (1..N)],
           \A i \in 1..N : i \notin A[i],
           \A i, j \in 1..N : i # j => i \in A[j] \/ j \in A[i],
           \A i, j \in 1..N : i \in A[j] => A[i] \subseteq A[j]
    PROVE  /\ \A i \in 1..N : Cardinality(A[i]) \in 0..(N - 1)
           /\ \A i, j \in 1..N : Cardinality(A[i]) < Cardinality(A[j]) => i \in A[j]
           /\ \A i, j \in 1..N : Cardinality(A[i]) = Cardinality(A[j]) => i = j
           /\ \A n \in 1..N : \E i \in 1..N : Cardinality(A[i]) = n - 1
  <1> DEFINE place == [i \in 1..N |-> Cardinality(A[i]) + 1]
  <1>1. IsFiniteSet(1..N) /\ Cardinality(1..N) = N
    BY FS_Interval
  <1>2. ASSUME NEW i \in 1..N, NEW j \in 1..N, i \in A[j]
        PROVE  Cardinality(A[i]) < Cardinality(A[j])
    <2>1. A[i] \subseteq A[j] /\ A[i] # A[j]
      BY <1>2
    <2>2. IsFiniteSet(A[i]) /\ IsFiniteSet(A[j])
      BY <1>1, FS_Subset
    <2>3. /\ Cardinality(A[i]) <= Cardinality(A[j])
          /\ Cardinality(A[j]) = Cardinality(A[i]) => A[j] = A[i]
      BY <2>1, <2>2, FS_Subset
    <2>4. Cardinality(A[i]) \in Nat /\ Cardinality(A[j]) \in Nat
      BY <2>2, FS_CardinalityType
    <2> QED
      BY <2>1, <2>3, <2>4
  <1>3. \A i \in 1..N : Cardinality(A[i]) \in 0..(N - 1)
    <2> SUFFICES ASSUME NEW i \in 1..N PROVE Cardinality(A[i]) \in 0..(N - 1)
      OBVIOUS
    <2>1. A[i] \subseteq (1..N) \ {i}
      OBVIOUS
    <2>2. IsFiniteSet((1..N) \ {i}) /\ Cardinality((1..N) \ {i}) = N - 1
      BY <1>1, FS_RemoveElement
    <2>3. Cardinality(A[i]) <= N - 1 /\ IsFiniteSet(A[i])
      BY <2>1, <2>2, FS_Subset
    <2>4. Cardinality(A[i]) \in Nat
      BY <2>3, FS_CardinalityType
    <2> QED
      BY <2>3, <2>4
  <1>4. \A i, j \in 1..N : Cardinality(A[i]) = Cardinality(A[j]) => i = j
    <2> SUFFICES ASSUME NEW i \in 1..N, NEW j \in 1..N, i # j
                 PROVE  Cardinality(A[i]) # Cardinality(A[j])
      OBVIOUS
    <2>1. Cardinality(A[i]) < Cardinality(A[j]) \/ Cardinality(A[j]) < Cardinality(A[i])
      BY <1>2
    <2>2. Cardinality(A[i]) \in Int /\ Cardinality(A[j]) \in Int
      BY <1>3
    <2> QED
      BY <2>1, <2>2
  <1>5. \A i, j \in 1..N : Cardinality(A[i]) < Cardinality(A[j]) => i \in A[j]
    <2> SUFFICES ASSUME NEW i \in 1..N, NEW j \in 1..N, Cardinality(A[i]) < Cardinality(A[j]),
                        i \notin A[j]
                 PROVE  FALSE
      OBVIOUS
    <2>1. Cardinality(A[i]) \in Int /\ Cardinality(A[j]) \in Int
      BY <1>3
    <2>2. i # j
      BY <2>1
    <2>3. Cardinality(A[j]) < Cardinality(A[i])
      BY <1>2, <2>2
    <2> QED
      BY <2>1, <2>3
  <1>6. place \in Injection(1..N, 1..N)
    <2>1. \A i \in 1..N : place[i] \in 1..N
      BY <1>3
    <2>2. \A i, j \in 1..N : place[i] = place[j] => i = j
      <3> SUFFICES ASSUME NEW i \in 1..N, NEW j \in 1..N, place[i] = place[j] PROVE i = j
        OBVIOUS
      <3>1. Cardinality(A[i]) \in Int /\ Cardinality(A[j]) \in Int
        BY <1>3
      <3>2. Cardinality(A[i]) = Cardinality(A[j])
        BY <3>1
      <3> QED
        BY <1>4, <3>2
    <2>3. place \in [1..N -> 1..N]
      BY <2>1
    <2> HIDE DEF place
    <2> QED
      BY <2>2, <2>3, Fun_IsInj
  <1>7. \A n \in 1..N : \E i \in 1..N : Cardinality(A[i]) = n - 1
    <2> HIDE DEF place
    <2>1. place \in Surjection(1..N, 1..N)
      BY <1>1, <1>6, FS_Injection
    <2>2. \A n \in 1..N : \E i \in 1..N : place[i] = n
      BY <2>1 DEF Surjection
    <2>3. \A i \in 1..N : place[i] - 1 = Cardinality(A[i])
      <3> SUFFICES ASSUME NEW i \in 1..N PROVE place[i] - 1 = Cardinality(A[i])
        OBVIOUS
      <3>1. Cardinality(A[i]) \in Int /\ place[i] = Cardinality(A[i]) + 1
        BY <1>3 DEF place
      <3> QED
        BY <3>1
    <2> QED
      BY <2>2, <2>3
  <1> QED
    BY <1>3, <1>4, <1>5, <1>7

LEMMA OneBefore ==
    ASSUME NEW x \in Items, NEW y \in Items, x.hash # y.hash
    PROVE  Before(x, y) \/ Before(y, x)
  <1>1. x.hash \in Int /\ y.hash \in Int /\ x.updated \in Int /\ y.updated \in Int
    BY DEF Items
  <1> QED
    BY <1>1 DEF Before

\* Sorting a list of items with different hashes puts all of them in order.
LEMMA SortedInOrder ==
    ASSUME NEW list \in Seq(Items), Distinct(list)
    PROVE  /\ Sorted(list) \in Seq(Items) /\ Len(Sorted(list)) = Len(list)
           /\ Ordered(Sorted(list))
           /\ \A n \in 1..Len(list) : \E i \in 1..Len(list) : Sorted(list)[n] = list[i]
           /\ \A i \in 1..Len(list) : \E n \in 1..Len(list) : Sorted(list)[n] = list[i]
  <1> DEFINE N      == Len(list)
             A      == [i \in 1..N |-> Ahead(list, i)]
             at(n)  == CHOOSE i \in 1..N : Cardinality(Ahead(list, i)) = n - 1
             sorted == [n \in 1..N |-> list[at(n)]]
  <1>1. /\ N \in Nat /\ DOMAIN list = 1..N
        /\ \A i \in 1..N : list[i] \in Items /\ list[i].hash \in Nat /\ list[i].updated \in Nat
        /\ \A i, j \in 1..N : list[i].hash = list[j].hash => i = j
    <2>1. N \in Nat /\ DOMAIN list = 1..N /\ \A i \in 1..N : list[i] \in Items
      OBVIOUS
    <2>2. \A x \in Items : x.hash \in Nat /\ x.updated \in Nat
      BY DEF Items
    <2>3. \A i, j \in 1..N : list[i].hash = list[j].hash => i = j
      BY DEF Distinct
    <2> QED
      BY <2>1, <2>2, <2>3
  <1>2. \A i \in 1..N : A[i] = {j \in 1..N : Before(list[j], list[i])}
    <2> SUFFICES ASSUME NEW i \in 1..N, NEW j \in 1..N
                 PROVE  (Before(list[j], list[i]) \/ (~Before(list[i], list[j]) /\ j < i))
                        <=> Before(list[j], list[i])
      BY <1>1 DEF Ahead
    <2>1. /\ list[i].hash \in Nat /\ list[i].updated \in Nat
          /\ list[j].hash \in Nat /\ list[j].updated \in Nat
      BY <1>1
    <2>2. CASE i = j
      BY <2>1, <2>2 DEF Before
    <2>3. CASE i # j
      <3>1. list[i].hash # list[j].hash
        BY <1>1, <2>3
      <3>2. Before(list[j], list[i]) \/ Before(list[i], list[j])
        <4>1. list[i] \in Items /\ list[j] \in Items /\ list[j].hash # list[i].hash
          BY <1>1, <3>1
        <4> HIDE DEF N
        <4> QED
          BY <4>1, OneBefore
      <3> QED
        BY <3>2
    <2> QED
      BY <2>2, <2>3
  <1>3. A \in [1..N -> SUBSET (1..N)]
    BY <1>2
  <1>4. \A i, j \in 1..N : j \in A[i] <=> Before(list[j], list[i])
    BY <1>2
  <1>5. \A i \in 1..N : A[i] = Ahead(list, i)
    OBVIOUS
  <1>6. Sorted(list) = sorted
    BY <1>1 DEF Sorted
  <1> HIDE DEF A, N
  <1>7. \A i \in 1..N : i \notin A[i]
    BY <1>1, <1>4 DEF Before
  <1>8. \A i, j \in 1..N : i # j => i \in A[j] \/ j \in A[i]
    BY <1>1, <1>4 DEF Before
  <1>9. \A i, j \in 1..N : i \in A[j] => A[i] \subseteq A[j]
    <2> SUFFICES ASSUME NEW i \in 1..N, NEW j \in 1..N, i \in A[j], NEW k \in A[i]
                 PROVE  k \in A[j]
      OBVIOUS
    <2>1. k \in 1..N
      BY <1>3
    <2>2. Before(list[i], list[j]) /\ Before(list[k], list[i])
      BY <1>4, <2>1
    <2>3. Before(list[k], list[j])
      BY <1>1, <2>1, <2>2 DEF Before
    <2> QED
      BY <1>4, <2>1, <2>3
  <1>10. /\ \A i \in 1..N : Cardinality(A[i]) \in 0..(N - 1)
         /\ \A i, j \in 1..N : Cardinality(A[i]) < Cardinality(A[j]) => i \in A[j]
         /\ \A i, j \in 1..N : Cardinality(A[i]) = Cardinality(A[j]) => i = j
         /\ \A n \in 1..N : \E i \in 1..N : Cardinality(A[i]) = n - 1
    BY <1>1, <1>3, <1>7, <1>8, <1>9, Places
  <1>11. \A n \in 1..N : at(n) \in 1..N /\ Cardinality(A[at(n)]) = n - 1
    <2> SUFFICES ASSUME NEW n \in 1..N PROVE at(n) \in 1..N /\ Cardinality(A[at(n)]) = n - 1
      OBVIOUS
    <2>1. \E i \in 1..N : Cardinality(Ahead(list, i)) = n - 1
      BY <1>5, <1>10
    <2>2. at(n) \in 1..N /\ Cardinality(Ahead(list, at(n))) = n - 1
      BY <2>1
    <2> QED
      BY <1>5, <2>2
  <1> HIDE DEF at
  <1>12. sorted \in Seq(Items) /\ Len(sorted) = N
    <2>1. sorted \in [1..N -> Items]
      BY <1>1, <1>11
    <2> QED
      BY <1>1, <2>1
  <1>13. \A m, n \in 1..N : m < n => Before(sorted[m], sorted[n])
    <2> SUFFICES ASSUME NEW m \in 1..N, NEW n \in 1..N, m < n
                 PROVE  Before(list[at(m)], list[at(n)])
      OBVIOUS
    <2>1. Cardinality(A[at(m)]) < Cardinality(A[at(n)])
      <3>1. Cardinality(A[at(m)]) = m - 1 /\ Cardinality(A[at(n)]) = n - 1
        BY <1>11
      <3>2. m - 1 < n - 1
        BY <1>1
      <3> QED
        BY <3>1, <3>2
    <2>2. at(m) \in A[at(n)]
      BY <1>10, <1>11, <2>1
    <2> QED
      BY <1>4, <1>11, <2>2
  <1>14. \A i \in 1..N : \E n \in 1..N : sorted[n] = list[i]
    <2> SUFFICES ASSUME NEW i \in 1..N PROVE \E n \in 1..N : sorted[n] = list[i]
      OBVIOUS
    <2> DEFINE n == Cardinality(A[i]) + 1
    <2>1. n \in 1..N /\ n - 1 = Cardinality(A[i])
      BY <1>1, <1>10
    <2> HIDE DEF n
    <2>2. at(n) = i
      BY <1>10, <1>11, <2>1
    <2> QED
      BY <2>1, <2>2
  <1>15. \A n \in 1..N : \E i \in 1..N : sorted[n] = list[i]
    BY <1>11
  <1>16. Ordered(sorted)
    BY <1>12, <1>13 DEF Ordered
  <1> HIDE DEF sorted
  <1> QED
    BY <1>6, <1>12, <1>14, <1>15, <1>16 DEF N

\* What can be printed of a list in order is in order.
LEMMA FilteredInOrder ==
    ASSUME NEW list \in Seq(Items), Ordered(list)
    PROVE  LET feed == FilterValidItems(list) IN
           /\ feed \in Seq(Items) /\ Len(feed) \in Nat /\ Ordered(feed)
           /\ \A k \in 1..Len(feed) :
                 Printable(feed[k]) /\ \E i \in 1..Len(list) : feed[k] = list[i]
           /\ \A i \in 1..Len(list) : Printable(list[i]) => \E k \in 1..Len(feed) : feed[k] = list[i]
  <1> DEFINE P    == {i \in DOMAIN list : Printable(list[i])}
             feed == Pick(list, P)
  <1>1. FilterValidItems(list) = feed
    BY DEF FilterValidItems
  <1>2. DOMAIN list = 1..Len(list)
    OBVIOUS
  <1>3. /\ P \in SUBSET (1..Len(list))
        /\ \A i \in 1..Len(list) : i \in P <=> Printable(list[i])
    BY <1>2
  <1> HIDE DEF P
  <1>4. feed \in Seq(Items)
    BY <1>3, PickInOrder
  <1>5. PICK at : Enumerates(at, Len(feed), P) /\ \A k \in 1..Len(feed) : feed[k] = list[at[k]]
    BY <1>3, PickInOrder
  <1> HIDE DEF feed
  <1>6. Len(feed) \in Nat
    BY <1>4
  <1>7. \A k \in 1..Len(feed) : at[k] \in P /\ at[k] \in 1..Len(list) /\ feed[k] = list[at[k]]
    BY <1>3, <1>5 DEF Enumerates
  <1>8. \A j, k \in 1..Len(feed) : j < k => at[j] < at[k]
    BY <1>5 DEF Enumerates
  <1>9. Ordered(feed)
    BY <1>7, <1>8 DEF Ordered
  <1>10. \A i \in 1..Len(list) : Printable(list[i]) => \E k \in 1..Len(feed) : feed[k] = list[i]
    <2> SUFFICES ASSUME NEW i \in 1..Len(list), Printable(list[i])
                 PROVE  \E k \in 1..Len(feed) : feed[k] = list[i]
      OBVIOUS
    <2>1. PICK k \in 1..Len(feed) : at[k] = i
      BY <1>3, <1>5 DEF Enumerates
    <2> QED
      BY <1>7, <2>1
  <1>11. \A k \in 1..Len(feed) : Printable(feed[k]) /\ \E i \in 1..Len(list) : feed[k] = list[i]
    BY <1>3, <1>7
  <1> QED
    BY <1>1, <1>4, <1>6, <1>9, <1>10, <1>11

LEMMA FinishKeeps == IInv /\ Finish => IInv'
  <1> SUFFICES ASSUME IInv, Finish PROVE IInv'
    OBVIOUS
  <1> DEFINE sorted == Sorted(items)
             feed   == FilterValidItems(sorted)
             old    == Ruled("item", next - 1)
  <1>1. /\ UNCHANGED <<request, answers, query, source, input, next, seen, rejections>>
        /\ phase = "scanning" /\ phase' = "done" /\ next > Len(input) /\ items' = feed
    BY DEF Finish, asked, scenario
  <1>2. next = Len(input) + 1 /\ next - 1 = Len(input) /\ Len(input) \in Nat
    <2>1. next \in 1..(Len(input) + 1) /\ Len(input) \in Nat
      BY InputFacts DEF IInv, SeenSoFar
    <2> QED
      BY <1>1, <2>1
  <1>3. /\ items \in Seq(Items) /\ Distinct(items)
        /\ \A k \in 1..Len(items) : \E i \in old : items[k] = Item(input[i])
        /\ \A i \in old : \E k \in 1..Len(items) : items[k] = Item(input[i])
    BY <1>1 DEF IInv, ItemsSoFar
  <1>4. old = Ruled("item", Len(input))
    BY <1>2
  <1> HIDE DEF old
  <1>5. /\ sorted \in Seq(Items) /\ Len(sorted) = Len(items) /\ Ordered(sorted)
        /\ \A n \in 1..Len(items) : \E i \in 1..Len(items) : sorted[n] = items[i]
        /\ \A i \in 1..Len(items) : \E n \in 1..Len(items) : sorted[n] = items[i]
    BY <1>3, SortedInOrder
  <1> HIDE DEF sorted
  <1>6. /\ feed \in Seq(Items) /\ Ordered(feed)
        /\ \A k \in 1..Len(feed) :
              Printable(feed[k]) /\ \E i \in 1..Len(sorted) : feed[k] = sorted[i]
        /\ \A i \in 1..Len(sorted) : Printable(sorted[i]) =>
              \E k \in 1..Len(feed) : feed[k] = sorted[i]
    BY <1>5, FilteredInOrder
  <1> HIDE DEF feed
  <1>7. \A k \in 1..Len(feed) : \E i \in old : feed[k] = Item(input[i])
    <2> SUFFICES ASSUME NEW k \in 1..Len(feed) PROVE \E i \in old : feed[k] = Item(input[i])
      OBVIOUS
    <2>1. PICK n \in 1..Len(items) : feed[k] = sorted[n]
      BY <1>5, <1>6
    <2>2. PICK m \in 1..Len(items) : sorted[n] = items[m]
      BY <1>5
    <2> QED
      BY <1>3, <2>1, <2>2
  <1>8. \A i \in old : Printable(Item(input[i])) => \E k \in 1..Len(feed) : feed[k] = Item(input[i])
    <2> SUFFICES ASSUME NEW i \in old, Printable(Item(input[i]))
                 PROVE  \E k \in 1..Len(feed) : feed[k] = Item(input[i])
      OBVIOUS
    <2>1. PICK m \in 1..Len(items) : items[m] = Item(input[i])
      BY <1>3
    <2>2. PICK n \in 1..Len(items) : sorted[n] = items[m]
      BY <1>5
    <2>3. n \in 1..Len(sorted) /\ Printable(sorted[n])
      BY <1>5, <2>1, <2>2
    <2> QED
      BY <1>6, <2>1, <2>2, <2>3
  <1>9. \A t : Verdict(t)' = Verdict(t)
    BY <1>1 DEF Verdict, CategoryMatches
  <1>10. /\ \A why : Ruled(why, next - 1)' = Ruled(why, next - 1)
         /\ Ruled("item", Len(input))' = old
    <2>1. \A why : Ruled(why, next - 1)' = Ruled(why, next - 1)
      BY <1>1, <1>9 DEF Ruled, News
    <2>2. Ruled("item", Len(input))' = Ruled("item", Len(input))
      BY <1>1, <1>9 DEF Ruled, News
    <2> QED
      BY <1>4, <2>1, <2>2
  <1>11. FeedComplete'
    BY <1>1, <1>2, <1>6, <1>7, <1>8, <1>10 DEF FeedComplete, Ordered
  <1>12. TypeOK' /\ QueryRead' /\ SeenSoFar' /\ ItemsSoFar'
    BY <1>1 DEF IInv, TypeOK, QueryRead, SeenSoFar, ItemsSoFar
  <1>13. Loaded' = Loaded
    <2>1. Sound' = Sound
      BY <1>1, SoundStays
    <2> QED
      BY <1>1, <2>1 DEF Loaded
  <1>14. InputRead'
    BY <1>1, <1>13 DEF IInv, InputRead
  <1>15. Counted'
    BY <1>1, <1>10 DEF IInv, Counted
  <1> QED
    BY <1>11, <1>12, <1>14, <1>15 DEF IInv

\* The pipeline keeps its invariant, whatever is asked and answered.
THEOREM PipelineInvariant == Spec => []IInv
  <1>1. IInv /\ [Next]_vars => IInv'
    <2> SUFFICES ASSUME IInv, [Next]_vars PROVE IInv'
      OBVIOUS
    <2>1. CASE Normalize
      BY <2>1, NormalizeKeeps
    <2>2. CASE Load
      BY <2>2, LoadKeeps
    <2>3. CASE Scan
      BY <2>3, ScanKeeps
    <2>4. CASE Finish
      BY <2>4, FinishKeeps
    <2>5. CASE Abort
      BY <2>5, AbortKeeps
    <2>6. CASE ContextEnds
      BY <2>6, UnchangedKeeps DEF ContextEnds, asked, scenario
    <2>7. CASE UNCHANGED vars
      BY <2>7, UnchangedKeeps DEF vars, asked, scenario
    <2> QED
      BY <2>1, <2>2, <2>3, <2>4, <2>5, <2>6, <2>7 DEF Next
  <1> QED
    BY <1>1, Initially, PTL DEF Spec

------------------------------------------------------------------------------
(* The season of a label                                                     *)

LEMMA UnsafeSeasonStays ==
    ASSUME TypeOK, InputRead
    PROVE  UnsafeSeasonNotReplaced
  <1>1. Len(input) \in Nat /\ DOMAIN input = 1..Len(input)
        /\ \A i \in 1..Len(input) : TorrentSound(input[i])
    BY InputFacts
  <1>2. ASSUME NEW i \in DOMAIN input,
               NEW name, name = Semantic(CollapseSpace(input[i].label)),
               NEW j \in DOMAIN name,
               name[j].kind \in {"S", "Sspaced", "Season", "Series"}, CompleteToken(name, j, j),
               name[j].season \notin 1..999,
               \A k \in 1..(j - 1) : ~(/\ name[k].kind \in {"S", "Sspaced", "Season", "Series"}
                                       /\ CompleteToken(name, k, k))
        PROVE  ParseTitle(input[i].type, input[i].main, input[i].label).season \in {0, 1}
    <2>1. input[i].label \in Texts
      BY <1>1 DEF TorrentSound
    <2>2. name \in Texts
      BY <1>2, <2>1, CollapseType, SemanticType
    <2>3. DOMAIN name = 1..Len(name) /\ Len(name) \in Nat
      BY <2>2 DEF Texts
    <2>4. \A k : k \in ExplicitSeason(name) <=>
                    /\ k \in DOMAIN name
                    /\ name[k].kind \in {"S", "Sspaced", "Season", "Series"}
                    /\ CompleteToken(name, k, k)
      BY DEF ExplicitSeason, CompleteAt
    <2>5. j \in ExplicitSeason(name)
      BY <1>2, <2>4
    <2>6. \A k \in ExplicitSeason(name) : j <= k
      <3> SUFFICES ASSUME NEW k \in ExplicitSeason(name), ~(j <= k) PROVE FALSE
        OBVIOUS
      <3>1. k \in 1..Len(name) /\ j \in 1..Len(name)
        BY <2>3, <2>4
      <3>2. k \in 1..(j - 1)
        BY <2>3, <3>1
      <3> QED
        BY <1>2, <2>4, <3>2
    <2>7. name[j].season \notin 1..maxSeason
      BY <1>2 DEF maxSeason
    <2> QED
      BY <1>2, <2>1, <2>5, <2>6, <2>7, UnsafeSeason
  <1> QED
    BY <1>2 DEF UnsafeSeasonNotReplaced

\* A label whose first explicit season is out of bounds is an item of season 1
\* or of none, whatever else of it looks like a season: parseSeason stops there.
THEOREM UnsafeSeasonIsNotReplaced == Spec => []UnsafeSeasonNotReplaced
  <1>1. IInv => UnsafeSeasonNotReplaced
    BY UnsafeSeasonStays DEF IInv
  <1> QED
    BY <1>1, PipelineInvariant, PTL

------------------------------------------------------------------------------
(* What becomes of a torrent                                                 *)

\* The loop asks in its order what the docs ask together.
LEMMA VerdictFacts ==
    ASSUME NEW s \in Kept
    PROVE  LET verdict == Verdict(Validated(s))
               matches == CategoryMatches(CategoryFor(s.type))
               many    == s.seeders + s.leechers > MaxCount IN
           /\ verdict # "unsupported_release_type"
           /\ verdict = "invalid_title" <=> matches /\ ~Titled(s)
           /\ verdict = "peer_count_overflow" <=> Titled(s) /\ Wanted(s) /\ many
           /\ verdict = "item" <=> Titled(s) /\ Wanted(s) /\ ~many
           /\ Wanted(s) => matches
  <1> DEFINE t       == Validated(s)
             title   == ParseTitle(s.type, s.main, s.label)
             matches == CategoryMatches(CategoryFor(s.type))
             many    == s.seeders + s.leechers > MaxCount
             fits    == TitleMatches(title, query.season, query.episode)
  <1>1. /\ t.type = s.type /\ t.main = s.main /\ t.label = s.label
        /\ t.seeders = s.seeders /\ t.leechers = s.leechers
    BY DEF Validated
  <1>2. TorrentSound(t)
    BY KeptFacts
  <1>3. Known(s.type) /\ s.seeders \in 0..MaxCount /\ s.leechers \in 0..MaxCount
    BY <1>1, <1>2 DEF TorrentSound
  <1>4. PeersOverflow(t) <=> many
    BY <1>1, <1>3, FeedAssumption DEF PeersOverflow
  <1>5. Wanted(s) <=> matches /\ fits
    BY DEF Wanted, CategoryMatches, CategoryFor
  <1>6. Titled(s) <=> title.ok
    BY DEF Titled
  <1>7. Verdict(t) = IF ~Known(s.type) THEN "unsupported_release_type"
                     ELSE IF ~matches THEN "unwanted"
                     ELSE IF ~title.ok THEN "invalid_title"
                     ELSE IF ~fits THEN "unwanted"
                     ELSE IF PeersOverflow(t) THEN "peer_count_overflow" ELSE "item"
    BY <1>1 DEF Verdict
  <1> HIDE DEF t, title, matches, many, fits
  <1>8. Verdict(t) = IF ~matches THEN "unwanted"
                     ELSE IF ~title.ok THEN "invalid_title"
                     ELSE IF ~fits THEN "unwanted"
                     ELSE IF many THEN "peer_count_overflow" ELSE "item"
    BY <1>3, <1>4, <1>7
  <1>9. /\ Verdict(t) # "unsupported_release_type"
        /\ Verdict(t) = "invalid_title" <=> matches /\ ~title.ok
        /\ Verdict(t) = "peer_count_overflow" <=> title.ok /\ matches /\ fits /\ many
        /\ Verdict(t) = "item" <=> title.ok /\ matches /\ fits /\ ~many
    BY <1>8
  <1> QED
    BY <1>5, <1>6, <1>9 DEF t, matches, many

\* The first of each hash, among the sound torrents and among those scanned.
LEMMA FirstsAreNews ==
    ASSUME TypeOK, InputRead, SeenSoFar, NEW n \in 0..Len(input), n = 0 \/ Loaded
    PROVE  Firsts(n) = News(n)
  <1>1. CASE n = 0
    BY <1>1 DEF Firsts, News
  <1>2. CASE Loaded
    <2>1. Len(input) \in Nat
          /\ \A i \in 1..Len(input) : Sound[i] \in Kept /\ input[i] = Validated(Sound[i])
      <3>1. /\ Len(input) \in Nat
            /\ Loaded => /\ Len(input) = Len(Sound)
                         /\ \A i \in 1..Len(input) : Sound[i] \in Kept
                                                    /\ input[i] = Validated(Sound[i])
        BY InputFacts
      <3> QED
        BY <1>2, <3>1
    <2>2. \A i \in 1..Len(input) : Sound[i].hash[1] = input[i].hash
      <3>1. \A s : Validated(s).hash = s.hash[1]
        BY DEF Validated, Lower
      <3> QED
        BY <2>1, <3>1
    <2>3. \A i \in 1..n : i \in 1..Len(input) /\ \A j \in 1..(i - 1) : j \in 1..Len(input)
      BY <2>1
    <2>4. \A i \in 1..n : (\A j \in 1..(i - 1) : Sound[j].hash[1] # Sound[i].hash[1])
                          <=> (\A j \in 1..(i - 1) : input[j].hash # input[i].hash)
      BY <2>2, <2>3
    <2> QED
      BY <2>4 DEF Firsts, News
  <1> QED
    BY <1>1, <1>2

LEMMA Accounted == IInv => RejectionsAccounted
  <1> SUFFICES ASSUME IInv PROVE RejectionsAccounted
    OBVIOUS
  <1> DEFINE n        == next - 1
             bad      == {i \in Firsts(n) : /\ CategoryMatches(CategoryFor(Sound[i].type))
                                            /\ \/ ~Titled(Sound[i])
                                               \/ /\ Wanted(Sound[i])
                                                  /\ Sound[i].seeders + Sound[i].leechers > MaxCount}
             untitled == Ruled("invalid_title", n)
             crowded  == Ruled("peer_count_overflow", n)
  <1>1. TypeOK /\ InputRead /\ SeenSoFar /\ Counted
    BY DEF IInv
  <1>2. n \in 0..Len(input) /\ n \in Nat /\ Len(input) \in Nat
    BY <1>1, InputFacts DEF SeenSoFar
  <1>3. n = 0 \/ Loaded
    <2>1. input = << >> \/ Loaded
      BY <1>1, InputFacts
    <2>2. input = << >> => Len(input) = 0
      OBVIOUS
    <2>3. Len(input) = 0 => n = 0
      <3> HIDE DEF n
      <3> QED
        BY <1>2
    <2> QED
      BY <2>1, <2>2, <2>3
  <1> HIDE DEF n
  <1>4. Firsts(n) = News(n) /\ News(n) \subseteq 1..Len(input)
    <2>1. Firsts(n) = News(n)
      BY <1>1, <1>2, <1>3, FirstsAreNews
    <2>2. News(n) \subseteq 1..n
      BY <1>2, RuledFinite
    <2> QED
      BY <1>2, <2>1, <2>2
  <1>5. \A i \in News(n) : Sound[i] \in Kept /\ input[i] = Validated(Sound[i])
    <2>1. CASE Loaded
      BY <1>1, <1>4, <2>1, InputFacts
    <2>2. CASE n = 0
      BY <2>2, NothingRuled
    <2> QED
      BY <1>3, <2>1, <2>2
  <1>6. \A i \in News(n) :
           LET s == Sound[i] IN
           /\ Verdict(input[i]) # "unsupported_release_type"
           /\ Verdict(input[i]) = "invalid_title"
              <=> CategoryMatches(CategoryFor(s.type)) /\ ~Titled(s)
           /\ Verdict(input[i]) = "peer_count_overflow"
              <=> Titled(s) /\ Wanted(s) /\ s.seeders + s.leechers > MaxCount
           /\ Wanted(s) => CategoryMatches(CategoryFor(s.type))
    BY <1>5, VerdictFacts
  <1>7. Ruled("unsupported_release_type", n) = {}
    BY <1>6 DEF Ruled
  <1>8. \A i : i \in untitled <=> i \in News(n) /\ CategoryMatches(CategoryFor(Sound[i].type))
                                  /\ ~Titled(Sound[i])
    BY <1>6 DEF Ruled
  <1>9. \A i : i \in crowded <=> i \in News(n) /\ Titled(Sound[i]) /\ Wanted(Sound[i])
                                 /\ Sound[i].seeders + Sound[i].leechers > MaxCount
    BY <1>6 DEF Ruled
  <1>10. bad = untitled \cup crowded
    <2>1. \A i : i \in bad <=> i \in News(n) /\ CategoryMatches(CategoryFor(Sound[i].type))
                               /\ (~Titled(Sound[i])
                                   \/ (Wanted(Sound[i])
                                       /\ Sound[i].seeders + Sound[i].leechers > MaxCount))
      BY <1>4
    <2>2. \A i \in News(n) : Wanted(Sound[i]) => CategoryMatches(CategoryFor(Sound[i].type))
      BY <1>6
    <2> HIDE DEF bad, untitled, crowded
    <2>3. \A i : i \in bad <=> i \in untitled \/ i \in crowded
      BY <1>8, <1>9, <2>1, <2>2, Zenon
    <2> QED
      BY <2>3
  <1>11. untitled \cap crowded = {}
    BY <1>8, <1>9
  <1>12. /\ IsFiniteSet(untitled) /\ Cardinality(untitled) \in Nat
         /\ IsFiniteSet(crowded) /\ Cardinality(crowded) \in Nat
    BY <1>2, RuledFinite
  <1> HIDE DEF untitled, crowded
  <1>13. Cardinality(bad) = Cardinality(untitled) + Cardinality(crowded)
    <2>1. Cardinality(untitled \cup crowded)
          = Cardinality(untitled) + Cardinality(crowded) - Cardinality(untitled \cap crowded)
      BY <1>12, FS_Union
    <2>2. Cardinality(untitled \cap crowded) = 0
      BY <1>11, FS_EmptySet
    <2> HIDE DEF bad
    <2>3. Cardinality(bad) = Cardinality(untitled \cup crowded)
      BY <1>10
    <2> QED
      BY <1>12, <2>1, <2>2, <2>3
  <1>14. /\ rejections.by["unsupported_release_type"] = 0
         /\ rejections.by["invalid_title"] = Cardinality(untitled)
         /\ rejections.by["peer_count_overflow"] = Cardinality(crowded)
    <2>1. \A why \in Reasons : rejections.by[why] = Cardinality(Ruled(why, n))
      BY <1>1 DEF Counted, n
    <2>2. /\ "unsupported_release_type" \in Reasons /\ "invalid_title" \in Reasons
          /\ "peer_count_overflow" \in Reasons
      BY DEF Reasons
    <2> QED
      BY <1>7, <2>1, <2>2, FS_EmptySet DEF untitled, crowded
  <1>15. rejections.total = Cardinality(bad)
    <2> HIDE DEF bad
    <2>1. rejections.total = rejections.by["unsupported_release_type"]
                             + rejections.by["invalid_title"]
                             + rejections.by["peer_count_overflow"]
      BY <1>1 DEF Counted
    <2> QED
      BY <1>12, <1>13, <1>14, <2>1
  <1> QED
    BY <1>1, <1>15 DEF RejectionsAccounted, Counted, n

\* However many torrents are rejected, for whatever reasons and limit of the
\* log: each is counted once, under the reason process drops it for.
THEOREM RejectionsAreAccounted == Spec => []RejectionsAccounted
  BY PipelineInvariant, Accounted, PTL

------------------------------------------------------------------------------
(* What the feed holds                                                       *)

\* The items of a feed have different hashes.
LEMMA FeedDistinct ==
    ASSUME IInv, phase = "done"
    PROVE  Distinct(items)
  <1> SUFFICES ASSUME NEW j \in 1..Len(items), NEW k \in 1..Len(items),
                      items[j].hash = items[k].hash, j # k
               PROVE  FALSE
    BY DEF Distinct
  <1> DEFINE accepted == Ruled("item", Len(input))
  <1>1. /\ items \in Seq(Items) /\ Ordered(items)
        /\ \A m \in 1..Len(items) : \E i \in accepted : items[m] = Item(input[i])
    BY DEF IInv, FeedComplete
  <1>2. Len(input) \in Nat
    BY InputFacts DEF IInv
  <1>3. accepted \subseteq News(Len(input)) /\ News(Len(input)) \subseteq 1..Len(input)
    BY <1>2, RuledFinite
  <1> HIDE DEF accepted
  <1>4. PICK i \in accepted : items[j] = Item(input[i])
    BY <1>1
  <1>5. PICK h \in accepted : items[k] = Item(input[h])
    BY <1>1
  <1>6. input[i].hash = input[h].hash
    BY <1>4, <1>5 DEF Item
  <1>7. i \in 1..Len(input) /\ h \in 1..Len(input)
        /\ (\A m \in 1..(i - 1) : input[m].hash # input[i].hash)
        /\ (\A m \in 1..(h - 1) : input[m].hash # input[h].hash)
    BY <1>3 DEF News
  <1>8. i = h
    <2>1. ~(i < h)
      BY <1>2, <1>6, <1>7
    <2>2. ~(h < i)
      BY <1>2, <1>6, <1>7
    <2> QED
      BY <1>2, <1>7, <2>1, <2>2
  <1>9. items[j] = items[k] /\ items[j] \in Items
    BY <1>1, <1>4, <1>5, <1>8
  <1>10. ~Before(items[j], items[j])
    <2>1. items[j].hash \in Nat /\ items[j].updated \in Nat
      BY <1>9 DEF Items
    <2> QED
      BY <2>1 DEF Before
  <1>11. Before(items[j], items[k]) \/ Before(items[k], items[j])
    <2>1. j < k \/ k < j
      BY <1>1
    <2> QED
      BY <1>1, <2>1 DEF Ordered
  <1> QED
    BY <1>9, <1>10, <1>11

LEMMA FirstsDecide == IInv => FirstOccurrenceDecides
  <1> SUFFICES ASSUME IInv, phase = "done" PROVE FirstOccurrenceDecides
    BY DEF FirstOccurrenceDecides
  <1> DEFINE hashes == {items[k].hash : k \in DOMAIN items}
             OK(s)  == /\ Titled(s) /\ Wanted(s)
                       /\ s.seeders + s.leechers <= MaxCount
                       /\ s.alias # "blank" /\ s.updated # 0
             chosen == {j \in Firsts(Len(Sound)) : OK(Sound[j])}
             n      == Len(input)
  <1>1. TypeOK /\ InputRead /\ SeenSoFar /\ Loaded
    BY DEF IInv, InputRead
  <1>2. /\ items \in Seq(Items)
        /\ \A k \in 1..Len(items) :
              /\ Printable(items[k])
              /\ \E i \in Ruled("item", n) : items[k] = Item(input[i])
        /\ \A i \in Ruled("item", n) : Printable(Item(input[i])) =>
              \E k \in 1..Len(items) : items[k] = Item(input[i])
    BY DEF IInv, FeedComplete
  <1>3. DOMAIN items = 1..Len(items) /\ Len(items) \in Nat
    BY <1>2
  <1>4. n \in Nat /\ Len(Sound) = n
        /\ \A i \in 1..n : Sound[i] \in Kept /\ input[i] = Validated(Sound[i])
    <2>1. /\ Len(input) \in Nat
          /\ Loaded => /\ Len(input) = Len(Sound)
                       /\ \A i \in 1..Len(input) : Sound[i] \in Kept
                                                  /\ input[i] = Validated(Sound[i])
      BY <1>1, InputFacts
    <2> QED
      BY <1>1, <2>1
  <1>5. Firsts(n) = News(n) /\ News(n) \subseteq 1..n
    BY <1>1, <1>4, FirstsAreNews, RuledFinite
  <1> HIDE DEF n
  <1>6. Len(items) = Cardinality(hashes)
    <2> DEFINE f == [k \in 1..Len(items) |-> items[k].hash]
    <2>1. \A j, k \in 1..Len(items) : f[j] = f[k] => j = k
      BY FeedDistinct DEF Distinct
    <2>2. f \in [1..Len(items) -> hashes]
      BY <1>3
    <2>3. \A h \in hashes : \E k \in 1..Len(items) : f[k] = h
      BY <1>3
    <2> HIDE DEF f, hashes
    <2>4. f \in Bijection(1..Len(items), hashes)
      BY <2>1, <2>2, <2>3, Fun_IsBij
    <2>5. ExistsBijection(1..Len(items), hashes)
      BY <2>4 DEF ExistsBijection
    <2> QED
      BY <1>3, <2>5, FS_CountingElements
  <1>7. ASSUME NEW i \in News(n)
        PROVE  i \in chosen <=> i \in Ruled("item", n) /\ Printable(Item(input[i]))
    <2>1. Sound[i] \in Kept /\ input[i] = Validated(Sound[i])
      BY <1>4, <1>5
    <2>2. Verdict(input[i]) = "item" <=>
             Titled(Sound[i]) /\ Wanted(Sound[i])
             /\ ~(Sound[i].seeders + Sound[i].leechers > MaxCount)
      BY <2>1, VerdictFacts
    <2>3. Sound[i].seeders \in 0..MaxCount /\ Sound[i].leechers \in 0..MaxCount
      <3>1. TorrentSound(input[i])
        BY <2>1, KeptFacts
      <3> QED
        BY <2>1, <3>1 DEF TorrentSound, Validated
    <2>4. ~(Sound[i].seeders + Sound[i].leechers > MaxCount)
          <=> Sound[i].seeders + Sound[i].leechers <= MaxCount
      BY <2>3, FeedAssumption
    <2>5. Printable(Item(input[i])) <=> Sound[i].alias # "blank" /\ Sound[i].updated # 0
      BY <2>1 DEF Printable, Item, Validated
    <2>6. i \in Ruled("item", n) <=> Verdict(input[i]) = "item"
      BY DEF Ruled
    <2>7. i \in chosen <=> OK(Sound[i])
      BY <1>4, <1>5
    <2> QED
      BY <2>2, <2>4, <2>5, <2>6, <2>7
  <1>8. \A i : i \in chosen => i \in News(n)
    BY <1>4, <1>5
  <1>9. \A i : i \in Ruled("item", n) => i \in News(n)
    BY DEF Ruled
  <1>10. \A i \in News(n) : Item(input[i]).hash = Sound[i].hash[1]
    <2>1. \A s : Item(Validated(s)).hash = s.hash[1]
      BY DEF Item, Validated, Lower
    <2> QED
      BY <1>4, <1>5, <2>1
  <1> HIDE DEF chosen
  <1>11. \A k \in 1..Len(items) : \E i \in chosen : items[k].hash = Sound[i].hash[1]
    <2> SUFFICES ASSUME NEW k \in 1..Len(items)
                 PROVE  \E i \in chosen : items[k].hash = Sound[i].hash[1]
      OBVIOUS
    <2>1. PICK i \in Ruled("item", n) : items[k] = Item(input[i])
      BY <1>2
    <2>2. i \in News(n) /\ Printable(Item(input[i]))
      BY <1>2, <1>9, <2>1
    <2>3. i \in chosen
      BY <1>7, <2>2
    <2> QED
      BY <1>10, <2>1, <2>2, <2>3
  <1>12. \A i \in chosen : \E k \in 1..Len(items) : items[k].hash = Sound[i].hash[1]
    <2> SUFFICES ASSUME NEW i \in chosen
                 PROVE  \E k \in 1..Len(items) : items[k].hash = Sound[i].hash[1]
      OBVIOUS
    <2>1. i \in News(n) /\ i \in Ruled("item", n) /\ Printable(Item(input[i]))
      BY <1>7, <1>8
    <2>2. PICK k \in 1..Len(items) : items[k] = Item(input[i])
      BY <1>2, <2>1
    <2> QED
      BY <1>10, <2>1, <2>2
  <1>13. hashes = {Sound[i].hash[1] : i \in chosen}
    <2>1. \A h : h \in hashes <=> \E k \in 1..Len(items) : h = items[k].hash
      BY <1>3
    <2>2. \A h : h \in {Sound[i].hash[1] : i \in chosen} <=> \E i \in chosen : h = Sound[i].hash[1]
      OBVIOUS
    <2> HIDE DEF hashes
    <2>3. \A h : h \in hashes <=> h \in {Sound[i].hash[1] : i \in chosen}
      BY <1>11, <1>12, <2>1, <2>2, ZenonT(30)
    <2> QED
      BY <2>3, Zenon
  <1> QED
    BY <1>6, <1>13 DEF FirstOccurrenceDecides, chosen

\* In every feed, of any answers, a hash stands once, and stands there if and
\* only if the first sound torrent that has it is wanted and can be printed.
THEOREM FirstOccurrencesDecide == Spec => []FirstOccurrenceDecides
  BY PipelineInvariant, FirstsDecide, PTL

------------------------------------------------------------------------------
(* The pages of the feed                                                     *)

\* The page after p pages begins where the p-th ends.
LEMMA Offsets ==
    ASSUME NEW p \in Nat \ {0}, NEW limit \in Nat \ {0}
    PROVE  /\ (p - 1) * limit \in Nat /\ p * limit \in Nat
           /\ p * limit = (p - 1) * limit + limit
           /\ p * limit >= p
  <1>1. \A a, b \in Int : (a + 1) * b = a * b + b
    OBVIOUS
  <1>2. p - 1 \in Nat /\ (p - 1) + 1 = p
    OBVIOUS
  <1>3. p * limit = (p - 1) * limit + limit
    BY <1>1, <1>2
  <1>4. (p - 1) * limit \in Nat /\ p * limit \in Nat
    BY <1>2
  <1>5. p * limit >= p
    <2>1. \A a, b \in Nat : a * b \in Nat /\ a * (b + 1) = a * b + a
      OBVIOUS
    <2>2. limit - 1 \in Nat /\ (limit - 1) + 1 = limit /\ p \in Nat
      OBVIOUS
    <2>3. p * limit = p * (limit - 1) + p /\ p * (limit - 1) \in Nat
      BY <2>1, <2>2
    <2> QED
      BY <2>2, <2>3
  <1> QED
    BY <1>3, <1>4, <1>5

\* How many items a page has.
PageLength(n, offset, limit) ==
    IF offset >= n THEN 0 ELSE IF limit <= n - offset THEN limit ELSE n - offset

LEMMA PageIs ==
    ASSUME NEW list \in Seq(Items), NEW offset \in Nat, NEW limit \in Nat \ {0},
           \A k \in 1..Len(list) : Printable(list[k])
    PROVE  LET page == Rendered(Page(list, offset, limit)) IN
           /\ page \in Seq(Items) /\ Len(page) = PageLength(Len(list), offset, limit)
           /\ \A k \in 1..Len(page) : page[k] = list[offset + k]
  <1> DEFINE L     == Len(list)
             count == PageLength(L, offset, limit)
             page  == Page(list, offset, limit)
  <1>1. L \in Nat /\ \A k \in 1..L : list[k] \in Items
    OBVIOUS
  <1>2. count \in 0..limit /\ (offset < L => offset + count <= L)
    BY <1>1 DEF PageLength
  <1>3. page = IF offset >= L THEN << >> ELSE SubSeq(list, offset + 1, offset + count)
    <2>1. CASE offset >= L
      BY <2>1 DEF Page
    <2>2. CASE ~(offset >= L)
      <3>1. limit \in Int /\ L - offset \in Int /\ limit # 0
        BY <1>1
      <3>2. Min({limit, L - offset}) = IF limit <= L - offset THEN limit ELSE L - offset
        BY <3>1, MinOfTwo
      <3>3. Min({limit, L - offset}) = count
        BY <2>2, <3>2 DEF PageLength
      <3> HIDE DEF count
      <3> QED
        BY <2>2, <3>1, <3>3 DEF Page
    <2> QED
      BY <2>1, <2>2
  <1> HIDE DEF count
  <1>4. page \in Seq(Items) /\ Len(page) = count /\ \A k \in 1..count : page[k] = list[offset + k]
    <2>1. CASE offset >= L
      <3>1. count = 0
        BY <2>1 DEF count, PageLength
      <3> QED
        BY <1>3, <2>1, <3>1
    <2>2. CASE ~(offset >= L)
      <3>1. /\ offset + 1 \in Int /\ offset + count \in Int
            /\ (offset + count) - (offset + 1) + 1 = count
            /\ \A k \in 1..count : (offset + 1) + k - 1 = offset + k
            /\ \A i \in (offset + 1)..(offset + count) : i \in 1..L
        BY <1>1, <1>2, <2>2
      <3>2. \A i \in (offset + 1)..(offset + count) : list[i] \in Items
        BY <1>1, <3>1
      <3>3. page = SubSeq(list, offset + 1, offset + count)
        BY <1>3, <2>2
      <3>4. /\ page \in Seq(Items)
            /\ Len(page) = IF offset + 1 <= offset + count
                           THEN (offset + count) - (offset + 1) + 1 ELSE 0
            /\ \A k \in 1..((offset + count) - (offset + 1) + 1) :
                  page[k] = list[(offset + 1) + k - 1]
        BY <3>1, <3>2, <3>3, SubSeqProperties
      <3>5. offset + 1 <= offset + count <=> count # 0
        BY <1>2
      <3> QED
        BY <3>1, <3>4, <3>5
    <2> QED
      BY <2>1, <2>2
  <1> HIDE DEF page
  <1>5. \A k \in 1..count : offset + k \in 1..L
    <2>1. count # 0 => offset < L
      BY <1>1 DEF count, PageLength
    <2> QED
      BY <1>1, <1>2, <2>1
  <1>6. Rendered(page) = page
    <2>1. DOMAIN page = 1..Len(page)
      BY <1>4
    <2>2. \A k \in 1..Len(page) : Printable(page[k])
      BY <1>4, <1>5
    <2>3. {i \in DOMAIN page : Printable(page[i])} = 1..Len(page)
      BY <2>1, <2>2
    <2> QED
      BY <1>4, <2>3, PickAll DEF Rendered
  <1> QED
    BY <1>4, <1>6 DEF page, count

LEMMA Beyond ==
    ASSUME NEW u \in Nat, NEW v \in Nat, NEW k \in 1..(u + v), ~(k <= u)
    PROVE  k - u \in 1..v /\ v # 0 /\ u + (k - u) = k
  OBVIOUS

\* Pages on end are the list, from its start to where the last of them ends.
LEMMA PagesJoin ==
    ASSUME NEW list \in Seq(Items), NEW N \in Nat, NEW limit \in Nat \ {0},
           N * limit >= Len(list),
           NEW pages \in Seq(Seq(Items)), Len(pages) = N,
           \A p \in 1..N : /\ Len(pages[p]) = PageLength(Len(list), (p - 1) * limit, limit)
                           /\ \A k \in 1..Len(pages[p]) : pages[p][k] = list[(p - 1) * limit + k]
    PROVE  FlattenSeq(pages) = list
  <1> DEFINE L    == Len(list)
             m(n) == IF n * limit <= L THEN n * limit ELSE L
  <1>1. L \in Nat /\ \A n \in 0..N : n * limit \in Nat
    BY DEF Offsets
  <1>2. PICK flat : Joins(flat, pages, Items)
    BY FlattenRuns
  <1>3. /\ flat \in [0..N -> Seq(Items)] /\ flat[0] = << >>
        /\ \A n \in 1..N : flat[n] = flat[n - 1] \o pages[n]
        /\ FlattenSeq(pages) = flat[N]
    BY <1>2 DEF Joins
  <1> DEFINE Good == {n \in 0..N : Len(flat[n]) = m(n) /\ \A k \in 1..m(n) : flat[n][k] = list[k]}
  <1>4. 0 \in Good
    <2>1. m(0) = 0
      BY <1>1
    <2> QED
      BY <1>3, <2>1
  <1>5. ASSUME NEW n \in 1..N, n - 1 \in Good PROVE n \in Good
    <2> DEFINE x == flat[n - 1]
               y == pages[n]
               a == (n - 1) * limit
               b == n * limit
    <2>1. x \in Seq(Items) /\ y \in Seq(Items) /\ flat[n] = x \o y
      <3>1. n - 1 \in 0..N
        OBVIOUS
      <3>2. x \in Seq(Items) /\ flat[n] = x \o y
        BY <1>3, <3>1
      <3>3. y \in Seq(Items)
        <4> DEFINE Lists == Seq(Items)
        <4>1. pages \in Seq(Lists)
          OBVIOUS
        <4> HIDE DEF Lists
        <4>2. y \in Lists
          BY <4>1
        <4> QED
          BY <4>2 DEF Lists
      <3> QED
        BY <3>2, <3>3
    <2>2. a \in Nat /\ b \in Nat /\ b = a + limit
      <3>1. n \in Nat \ {0}
        OBVIOUS
      <3> QED
        BY <3>1, Offsets
    <2>3. Len(y) = PageLength(L, a, limit) /\ \A k \in 1..Len(y) : y[k] = list[a + k]
      OBVIOUS
    <2>4. Len(x) = (IF a <= L THEN a ELSE L) /\ \A k \in 1..Len(x) : x[k] = list[k]
      BY <1>5
    <2>5. m(n) = IF b <= L THEN b ELSE L
      OBVIOUS
    <2> HIDE DEF x, y, a, b, m
    <2>6. /\ Len(x) \in Nat /\ Len(y) \in Nat /\ m(n) \in Nat
          /\ m(n) = Len(x) + Len(y) /\ (Len(y) # 0 => Len(x) = a)
      <3> HIDE DEF L
      <3>1. L \in Nat /\ limit \in Nat \ {0}
        BY <1>1
      <3>2. CASE a >= L
        BY <2>2, <2>3, <2>4, <2>5, <3>1, <3>2 DEF PageLength
      <3>3. CASE a < L /\ limit <= L - a
        BY <2>2, <2>3, <2>4, <2>5, <3>1, <3>3 DEF PageLength
      <3>4. CASE a < L /\ ~(limit <= L - a)
        BY <2>2, <2>3, <2>4, <2>5, <3>1, <3>4 DEF PageLength
      <3> QED
        BY <2>2, <3>1, <3>2, <3>3, <3>4
    <2>7. Len(x \o y) = m(n)
      BY <2>1, <2>6
    <2>8. \A k \in 1..m(n) : (x \o y)[k] = list[k]
      <3> SUFFICES ASSUME NEW k \in 1..m(n) PROVE (x \o y)[k] = list[k]
        OBVIOUS
      <3>1. CASE k <= Len(x)
        <4>1. k \in 1..Len(x)
          BY <2>6, <3>1
        <4>2. (x \o y)[k] = x[k]
          BY <2>1, <2>6, <4>1
        <4> QED
          BY <2>4, <4>1, <4>2
      <3>2. CASE ~(k <= Len(x))
        <4>0. k \in 1..(Len(x) + Len(y))
          BY <2>6
        <4>3. Len(x) \in Nat /\ Len(y) \in Nat
          BY <2>6
        <4>4. k - Len(x) \in 1..Len(y) /\ Len(y) # 0 /\ Len(x) + (k - Len(x)) = k
          BY ONLY <3>2, <4>0, <4>3, Beyond
        <4>1. k - Len(x) \in 1..Len(y) /\ Len(x) = a /\ a + (k - Len(x)) = k
          BY <2>6, <4>4
        <4>2. (x \o y)[k] = y[k - Len(x)]
          BY <2>1, <2>6, <3>2
        <4> QED
          BY <2>3, <4>1, <4>2
      <3> QED
        BY <3>1, <3>2
    <2>9. Len(flat[n]) = m(n) /\ \A k \in 1..m(n) : flat[n][k] = list[k]
      BY <2>1, <2>7, <2>8
    <2>10. n \in 0..N
      OBVIOUS
    <2> QED
      BY <2>9, <2>10
  <1>6. N \in Good
    <2> HIDE DEF Good
    <2>1. \A n \in 0..N : n \in Good
      BY <1>4, <1>5, TurnByTurn
    <2> QED
      BY <2>1
  <1>7. m(N) = L
    BY <1>1
  <1>8. Len(flat[N]) = L /\ \A k \in 1..L : flat[N][k] = list[k]
    BY <1>6, <1>7
  <1>9. flat[N] \in Seq(Items)
    BY <1>3
  <1>10. flat[N] = list
    BY <1>8, <1>9, SeqEqual
  <1> QED
    BY <1>3, <1>10

LEMMA FeedPaged == IInv => PagesPartitionFeed
  <1> SUFFICES ASSUME IInv, phase = "done" PROVE PagesPartitionFeed
    BY DEF PagesPartitionFeed
  <1> DEFINE L == Len(items)
             pages(limit) == [p \in 1..(L + 1) |-> Rendered(Page(items, (p - 1) * limit, limit))]
  <1>1. items \in Seq(Items) /\ Ordered(items) /\ \A k \in 1..L : Printable(items[k])
    BY DEF IInv, FeedComplete
  <1>2. L \in Nat /\ DOMAIN items = 1..L
    BY <1>1
  <1>3. \A i, j \in DOMAIN items : i < j =>
           \/ items[i].updated > items[j].updated
           \/ items[i].updated = items[j].updated /\ items[i].hash < items[j].hash
    BY <1>1, <1>2 DEF Ordered, Before
  <1>4. ASSUME NEW limit \in 1..(L + 1)
        PROVE  /\ FlattenSeq(pages(limit)) = items
               /\ \A p \in 1..(L + 1) :
                     Len(pages(limit)[p]) = Max({0, Min({limit, L - (p - 1) * limit})})
    <2> DEFINE shown == pages(limit)
               N     == L + 1
    <2>1. limit \in Nat \ {0} /\ limit \in Int /\ N \in Nat \ {0}
      BY <1>2
    <2>2. N * limit >= L
      <3> HIDE DEF N
      <3>1. N * limit >= N /\ N * limit \in Nat
        BY <2>1, Offsets
      <3> QED
        BY <1>2, <3>1 DEF N
    <2> HIDE DEF L, N
    <2>3. ASSUME NEW p \in 1..N
          PROVE  /\ shown[p] \in Seq(Items)
                 /\ Len(shown[p]) = PageLength(L, (p - 1) * limit, limit)
                 /\ \A k \in 1..Len(shown[p]) : shown[p][k] = items[(p - 1) * limit + k]
                 /\ Len(shown[p]) = Max({0, Min({limit, L - (p - 1) * limit})})
      <3> DEFINE offset == (p - 1) * limit
      <3>1. p \in Nat \ {0}
        BY <2>1
      <3>2. offset \in Nat
        BY <2>1, <3>1, Offsets
      <3>3. shown[p] = Rendered(Page(items, offset, limit))
        BY DEF N
      <3> HIDE DEF offset, shown
      <3>4. /\ shown[p] \in Seq(Items) /\ Len(shown[p]) = PageLength(L, offset, limit)
            /\ \A k \in 1..Len(shown[p]) : shown[p][k] = items[offset + k]
        BY <1>1, <2>1, <3>2, <3>3, PageIs DEF L
      <3>5. Max({0, Min({limit, L - offset})}) = PageLength(L, offset, limit)
        <4>1. L - offset \in Int
          BY <1>2, <3>2
        <4>2. Min({limit, L - offset}) = IF limit <= L - offset THEN limit ELSE L - offset
          BY <2>1, <4>1, MinOfTwo
        <4>3. Min({limit, L - offset}) \in Int /\ 0 \in Int
          BY <2>1, <4>1, <4>2
        <4>4. Max({0, Min({limit, L - offset})})
              = IF 0 <= Min({limit, L - offset}) THEN Min({limit, L - offset}) ELSE 0
          BY <4>3, MinOfTwo
        <4> QED
          BY <1>2, <2>1, <3>2, <4>2, <4>4 DEF PageLength
      <3> QED
        BY <3>4, <3>5 DEF offset
    <2>4. shown \in Seq(Seq(Items)) /\ Len(shown) = N
      <3> DEFINE Lists == Seq(Items)
      <3>1. \A p \in 1..N : shown[p] \in Lists
        BY <2>3
      <3> HIDE DEF Lists
      <3>2. shown = [p \in 1..N |-> shown[p]]
        BY DEF N
      <3> HIDE DEF shown
      <3>3. shown \in [1..N -> Lists]
        BY <3>1, <3>2
      <3>4. shown \in Seq(Lists) /\ Len(shown) = N
        BY <2>1, <3>3
      <3> QED
        BY <3>4 DEF Lists
    <2> HIDE DEF shown
    <2>5. FlattenSeq(shown) = items
      <3>1. \A p \in 1..N :
               /\ Len(shown[p]) = PageLength(Len(items), (p - 1) * limit, limit)
               /\ \A k \in 1..Len(shown[p]) : shown[p][k] = items[(p - 1) * limit + k]
        BY <2>3 DEF L
      <3>2. N \in Nat /\ N * limit >= Len(items) /\ limit \in Nat \ {0}
        BY <2>1, <2>2 DEF L
      <3> QED
        BY <1>1, <2>4, <3>1, <3>2, PagesJoin
    <2> QED
      BY <2>3, <2>5 DEF shown, N
  <1>5. \A limit \in 1..(L + 1) : DOMAIN pages(limit) = 1..(L + 1)
    OBVIOUS
  <1> QED
    BY <1>3, <1>4, <1>5 DEF PagesPartitionFeed

\* With any page size, the pages that pageItems cuts and the renderer prints
\* are the whole feed: no item is lost or shown twice, and no page but the last
\* is short.
THEOREM PagesPartitionTheFeed == Spec => []PagesPartitionFeed
  BY PipelineInvariant, FeedPaged, PTL

------------------------------------------------------------------------------
(* The filters of a query                                                    *)

KnownFilters == [error : {"", "q", "season", "ep"}, season : Int, episode : Int]

\* Where tokens begin and end, and what they hold.
LEMMA TokensInText ==
    ASSUME NEW q \in Texts
    PROVE  /\ Len(q) \in Nat /\ DOMAIN q = 1..Len(q)
           /\ \A i \in 1..Len(q) : q[i].season \in Int /\ q[i].episode \in Int
           /\ TokenStarts(q) \subseteq 1..Len(q)
           /\ \A i \in TokenStarts(q) : TokenEnd(q, i) \in 1..Len(q)
  <1>1. Len(q) \in Nat /\ DOMAIN q = 1..Len(q) /\ \A i \in 1..Len(q) : q[i] \in Lexemes
    BY DEF Texts
  <1>2. \A x \in Lexemes : x.season \in Int /\ x.episode \in Int
    BY DEF Lexemes
  <1>3. TokenStarts(q) \subseteq 1..Len(q)
    BY <1>1 DEF TokenStarts
  <1>4. \A i \in 1..Len(q) : TokenEnd(q, i) \in 1..Len(q)
    <2> SUFFICES ASSUME NEW i \in 1..Len(q) PROVE TokenEnd(q, i) \in 1..Len(q)
      OBVIOUS
    <2>1. i \in Joined(q) => i \in 1..(Len(q) - 2)
      BY DEF Joined
    <2>2. i \in 1..(Len(q) - 2) => i + 2 \in 1..Len(q)
      BY <1>1
    <2> QED
      BY <2>1, <2>2 DEF TokenEnd
  <1> QED
    BY <1>1, <1>2, <1>3, <1>4

\* What the loop over the tokens makes of one of them.
LEMMA TokenRead ==
    ASSUME NEW q \in Texts, NEW known \in KnownFilters, NEW i \in TokenStarts(q)
    PROVE  LET season  == q[i].season
               episode == q[TokenEnd(q, i)].episode
               read    == ReadToken(q, known, i) IN
           /\ read \in KnownFilters
           /\ read.error = "" =>
                 /\ known.error = ""
                 /\ Agrees(known.season, season) /\ Agrees(known.episode, episode)
                 /\ read.season = IF season = None THEN known.season ELSE season
                 /\ read.episode = IF episode = None THEN known.episode ELSE episode
  <1> DEFINE season  == q[i].season
             episode == q[TokenEnd(q, i)].episode
             read    == ReadToken(q, known, i)
  <1>1. season \in Int /\ episode \in Int
    BY TokensInText
  <1>2. known = [error |-> known.error, season |-> known.season, episode |-> known.episode]
        /\ known.error \in {"", "q", "season", "ep"} /\ known.season \in Int /\ known.episode \in Int
    BY DEF KnownFilters
  <1>3. \/ read = known /\ known.error # ""
        \/ read = [known EXCEPT !.error = "q"]
        \/ read = [known EXCEPT !.error = "season"]
        \/ read = [known EXCEPT !.error = "ep"]
        \/ /\ known.error = ""
           /\ Agrees(known.season, season) /\ Agrees(known.episode, episode)
           /\ read = [known EXCEPT !.season  = IF season = None THEN @ ELSE season,
                                   !.episode = IF episode = None THEN @ ELSE episode]
    BY DEF ReadToken
  <1> HIDE DEF season, episode, read
  <1>4. CASE read = known /\ known.error # ""
    BY <1>4 DEF season, episode, read
  <1>5. CASE \E e \in {"q", "season", "ep"} : read = [known EXCEPT !.error = e]
    <2>1. PICK e \in {"q", "season", "ep"} : read = [known EXCEPT !.error = e]
      BY <1>5
    <2>2. read = [error |-> e, season |-> known.season, episode |-> known.episode] /\ e # ""
      BY <1>2, <2>1
    <2>3. read \in KnownFilters /\ read.error # ""
      BY <1>2, <2>2 DEF KnownFilters
    <2> QED
      BY <2>3 DEF read
  <1>6. CASE /\ known.error = ""
             /\ Agrees(known.season, season) /\ Agrees(known.episode, episode)
             /\ read = [known EXCEPT !.season  = IF season = None THEN @ ELSE season,
                                     !.episode = IF episode = None THEN @ ELSE episode]
    <2>1. read = [error   |-> known.error,
                  season  |-> IF season = None THEN known.season ELSE season,
                  episode |-> IF episode = None THEN known.episode ELSE episode]
      BY <1>2, <1>6
    <2>2. read \in KnownFilters
      BY <1>1, <1>2, <2>1 DEF KnownFilters
    <2>3. /\ read.season = IF season = None THEN known.season ELSE season
          /\ read.episode = IF episode = None THEN known.episode ELSE episode
      BY <2>1
    <2> QED
      BY <1>6, <2>2, <2>3 DEF season, episode, read
  <1> QED
    BY <1>3, <1>4, <1>5, <1>6

\* The loop over the tokens, turn by turn.
Reads(known, q, before) ==
    /\ known \in [0..Len(q) -> KnownFilters] /\ known[0] = before
    /\ \A i \in 1..Len(q) :
          known[i] = IF i \in TokenStarts(q) THEN ReadToken(q, known[i - 1], i) ELSE known[i - 1]
    /\ ReadTokens(q, before) = known[Len(q)]

LEMMA ReadTokensRuns ==
    ASSUME NEW q \in Texts, NEW before \in KnownFilters
    PROVE  \E known : Reads(known, q, before)
  <1> DEFINE N        == Len(q)
             starts   == TokenStarts(q)
             Turns(t) == [i \in 0..N |-> IF i = 0 THEN before
                             ELSE IF i \in starts THEN ReadToken(q, t[i - 1], i) ELSE t[i - 1]]
             known    == CHOOSE t : t = Turns(t)
             step     == [i \in 1..N |-> [k \in KnownFilters |->
                             IF i \in starts THEN ReadToken(q, k, i) ELSE k]]
  <1>1. N \in Nat /\ starts \subseteq 1..N
    BY TokensInText
  <1>2. ReadTokens(q, before) = known[N]
    BY DEF ReadTokens
  <1>3. \A k \in KnownFilters, i \in starts : ReadToken(q, k, i) \in KnownFilters
    BY TokenRead
  <1> HIDE DEF N, starts
  <1>4. step \in [1..N -> [KnownFilters -> KnownFilters]]
    BY <1>3
  <1>5. \A i \in 1..N : \A k \in KnownFilters :
           step[i][k] = IF i \in starts THEN ReadToken(q, k, i) ELSE k
    OBVIOUS
  <1> HIDE DEF step
  <1>6. PICK f : Runs(f, N, KnownFilters, step, before)
    BY <1>1, <1>4, LoopRuns
  <1>7. /\ f \in [0..N -> KnownFilters] /\ f[0] = before
        /\ \A i \in 1..N : f[i] = IF i \in starts THEN ReadToken(q, f[i - 1], i) ELSE f[i - 1]
    <2>1. f \in [0..N -> KnownFilters] /\ f[0] = before /\ \A i \in 1..N : f[i] = step[i][f[i - 1]]
      BY <1>6 DEF Runs
    <2>2. \A i \in 1..N : i - 1 \in 0..N
      BY <1>1
    <2>3. \A i \in 1..N : f[i - 1] \in KnownFilters
      BY <2>1, <2>2
    <2> QED
      BY <1>5, <2>1, <2>3
  <1>8. f = Turns(f)
    <2>1. f = [i \in 0..N |-> f[i]]
      BY <1>7
    <2>2. \A i \in 0..N : i # 0 => i \in 1..N
      BY <1>1
    <2>3. \A i \in 0..N : f[i] = IF i = 0 THEN before
             ELSE IF i \in starts THEN ReadToken(q, f[i - 1], i) ELSE f[i - 1]
      BY <1>7, <2>2
    <2> QED
      BY <2>1, <2>3
  <1>9. known = Turns(known)
    BY <1>8
  <1> HIDE DEF known
  <1>10. known = f
    <2> DEFINE Same == {i \in 0..N : known[i] = f[i]}
    <2>1. \A i \in 0..N : known[i] = IF i = 0 THEN before
             ELSE IF i \in starts THEN ReadToken(q, known[i - 1], i) ELSE known[i - 1]
      BY <1>9
    <2>2. 0 \in Same
      BY <1>1, <1>7, <2>1
    <2>3. \A i \in 1..N : i - 1 \in Same => i \in Same
      <3>1. \A i \in 1..N : i \in 0..N /\ i # 0
        BY <1>1
      <3> QED
        BY <1>7, <2>1, <3>1
    <2> HIDE DEF Same
    <2>4. \A i \in 0..N : i \in Same
      BY <1>1, <2>2, <2>3, TurnByTurn
    <2>5. \A i \in 0..N : known[i] = f[i]
      BY <2>4 DEF Same
    <2>6. known = [i \in 0..N |-> known[i]]
      BY <1>9
    <2>7. f = [i \in 0..N |-> f[i]]
      BY <1>7
    <2> QED
      BY <2>5, <2>6, <2>7
  <1> QED
    BY <1>2, <1>7, <1>10 DEF N, starts, Reads

\* Tokens cannot replace a filter that is set.
LEMMA FiltersStay ==
    ASSUME NEW q \in Texts, NEW s \in Int, s # 0, NEW e \in Int, e # 0
    PROVE  LET read == ReadTokens(q, [error |-> "", season |-> s, episode |-> e]) IN
           /\ read \in KnownFilters
           /\ read.error = "" => read.season = s /\ read.episode = e
  <1> DEFINE before == [error |-> "", season |-> s, episode |-> e]
             N      == Len(q)
  <1>1. before \in KnownFilters /\ before.error = "" /\ before.season = s /\ before.episode = e
    BY DEF KnownFilters
  <1>2. N \in Nat
    BY TokensInText
  <1> HIDE DEF before, N
  <1>3. PICK known : Reads(known, q, before)
    BY <1>1, ReadTokensRuns
  <1>4. /\ known \in [0..N -> KnownFilters] /\ known[0] = before
        /\ \A i \in 1..N : known[i] = IF i \in TokenStarts(q) THEN ReadToken(q, known[i - 1], i)
                                      ELSE known[i - 1]
        /\ ReadTokens(q, before) = known[N]
    BY <1>3 DEF Reads, N
  <1> DEFINE Good == {i \in 0..N : known[i].error = "" => known[i].season = s /\ known[i].episode = e}
  <1>5. 0 \in Good
    <2>1. 0 \in 0..N
      BY <1>2
    <2>2. known[0] = before
      BY <1>4
    <2> QED
      BY <1>1, <2>1, <2>2
  <1>6. ASSUME NEW i \in 1..N, i - 1 \in Good PROVE i \in Good
    <2>1. i - 1 \in 0..N /\ i \in 0..N
      BY <1>2
    <2>2. known[i - 1] \in KnownFilters
      BY <1>4, <2>1
    <2>3. CASE i \notin TokenStarts(q)
      <3>1. known[i] = known[i - 1]
        BY <1>4, <2>3
      <3> QED
        BY <1>6, <2>1, <3>1
    <2>4. CASE i \in TokenStarts(q)
      <3> DEFINE a == known[i - 1]
                 b == known[i]
                 x == q[i].season
                 y == q[TokenEnd(q, i)].episode
      <3>1. b = ReadToken(q, a, i)
        BY <1>4, <2>4
      <3>2. b.error = "" =>
               /\ a.error = ""
               /\ Agrees(a.season, x) /\ Agrees(a.episode, y)
               /\ b.season = IF x = None THEN a.season ELSE x
               /\ b.episode = IF y = None THEN a.episode ELSE y
        <4> HIDE DEF b
        <4> QED
          BY <2>2, <2>4, <3>1, TokenRead
      <3>3. a.error = "" => a.season = s /\ a.episode = e
        BY <1>6
      <3> HIDE DEF a, b, x, y
      <3>4. b.error = "" => b.season = s /\ b.episode = e
        BY <3>2, <3>3 DEF Agrees
      <3> QED
        BY <2>1, <3>4 DEF b
    <2> QED
      BY <2>3, <2>4
  <1> HIDE DEF Good
  <1>7. \A i \in 0..N : i \in Good
    BY <1>2, <1>5, <1>6, TurnByTurn
  <1>8. N \in 0..N
    BY <1>2
  <1>9. known[N] \in KnownFilters /\ (known[N].error = "" => known[N].season = s /\ known[N].episode = e)
    BY <1>4, <1>7, <1>8 DEF Good
  <1> QED
    BY <1>4, <1>9 DEF before

\* A complete token at the end is read last, and has to agree.
LEMMA LastTokenRead ==
    ASSUME NEW q \in Texts, Len(q) # 0, NEW before \in KnownFilters,
           q[Len(q)].kind = "SE", Len(q) > 1 => q[Len(q) - 1] = Space,
           q[Len(q)].season # None, q[Len(q)].episode # None
    PROVE  LET read == ReadTokens(q, before) IN
           /\ read \in KnownFilters
           /\ read.error = "" => /\ read.season = q[Len(q)].season
                                 /\ read.episode = q[Len(q)].episode
  <1> DEFINE n == Len(q)
  <1>1. n \in Nat /\ n \in 1..n /\ DOMAIN q = 1..n
    BY TokensInText
  <1>2. n \in TokenStarts(q) /\ TokenEnd(q, n) = n
    <2>1. n \notin Joined(q)
      BY <1>1 DEF Joined
    <2>2. TokenEnd(q, n) = n
      BY <2>1 DEF TokenEnd
    <2>3. n - 2 \notin Joined(q)
      <3> SUFFICES ASSUME n - 2 \in Joined(q) PROVE FALSE
        OBVIOUS
      <3>1. q[(n - 2) + 2].kind = "E"
        BY DEF Joined
      <3>2. (n - 2) + 2 = n
        BY <1>1
      <3> QED
        BY <3>1, <3>2
    <2>4. CompleteToken(q, n, n)
      <3>1. ~Alphanumeric(Space)
        BY DEF Alphanumeric, Space, Plain, Lexeme
      <3> QED
        BY <1>1, <3>1 DEF CompleteToken
    <2>5. q[n].kind \in TokenKinds
      BY DEF TokenKinds
    <2> QED
      BY <1>1, <2>2, <2>3, <2>4, <2>5 DEF TokenStarts
  <1> HIDE DEF n
  <1>3. PICK known : Reads(known, q, before)
    BY ReadTokensRuns
  <1>4. known[n - 1] \in KnownFilters /\ ReadTokens(q, before) = ReadToken(q, known[n - 1], n)
    <2>1. n - 1 \in 0..n
      BY <1>1
    <2> QED
      BY <1>1, <1>2, <1>3, <2>1 DEF Reads, n
  <1>5. LET read == ReadToken(q, known[n - 1], n) IN
        /\ read \in KnownFilters
        /\ read.error = "" => read.season = q[n].season /\ read.episode = q[n].episode
    <2> DEFINE read == ReadToken(q, known[n - 1], n)
               a    == known[n - 1]
    <2> HIDE DEF a
    <2>1. /\ ReadToken(q, a, n) \in KnownFilters
          /\ ReadToken(q, a, n).error = "" =>
                /\ ReadToken(q, a, n).season
                   = IF q[n].season = None THEN a.season ELSE q[n].season
                /\ ReadToken(q, a, n).episode
                   = IF q[TokenEnd(q, n)].episode = None THEN a.episode
                     ELSE q[TokenEnd(q, n)].episode
      BY <1>2, <1>4, TokenRead DEF a
    <2>2. q[n].season # None /\ q[n].episode # None
      BY DEF n
    <2> QED
      BY <1>2, <2>1, <2>2 DEF a
  <1> QED
    BY <1>4, <1>5 DEF n

\* The parameters season and ep, given as plain numbers, or not at all.
LEMMA ParameterRead ==
    ASSUME NEW n \in Nat, NEW maximum, NEW prefix
    PROVE  /\ ParseExplicitFilter(NoFilter, prefix, maximum) = 0
           /\ n \in 1..maximum => ParseExplicitFilter(Filter(n), prefix, maximum) = n
  <1>1. ParseExplicitFilter(NoFilter, prefix, maximum) = 0
    BY DEF ParseExplicitFilter, NoFilter
  <1>2. ASSUME n \in 1..maximum PROVE ParseExplicitFilter(Filter(n), prefix, maximum) = n
    <2> DEFINE text == <<Digits(n)>>
    <2>1. /\ Digits(n) \in Lexemes /\ Digits(n) # Space
          /\ Digits(n).kind = "num" /\ Digits(n).season = n /\ Digits(n).episode = None
      BY DEF Digits, Lexeme, Lexemes, Kinds, None, Space, Plain
    <2>2. text \in Seq(Lexemes) /\ Len(text) = 1 /\ text[1] = Digits(n) /\ DOMAIN text = 1..1
      BY <2>1
    <2>3. CollapseSpace(text) = text
      <3> DEFINE P == {i \in DOMAIN text :
                          \/ text[i] # Space
                          \/ /\ i > 1 /\ text[i - 1] # Space
                             /\ \E j \in (i + 1)..Len(text) : text[j] # Space}
      <3>1. CollapseSpace(text) = Pick(text, P)
        BY DEF CollapseSpace
      <3>2. P = 1..Len(text)
        BY <2>1, <2>2
      <3> HIDE DEF P, text
      <3> QED
        BY <2>2, <3>1, <3>2, PickAll
    <2> HIDE DEF text
    <2>4. Filter(n).given /\ Filter(n).text = text
      BY DEF Filter, text
    <2>5. Max({n, None}) = n
      <3>1. None \in Int /\ ~(n <= None)
        BY DEF None
      <3> QED
        BY <3>1, MinOfTwo
    <2>6. Bounded(n, maximum)
      BY <1>2 DEF Bounded
    <2> QED
      BY <2>1, <2>2, <2>3, <2>4, <2>5, <2>6 DEF ParseExplicitFilter
  <1> QED
    BY <1>1, <1>2

\* A query that is not refused carries what the loop over its tokens read.
LEMMA QueryAccepted ==
    ASSUME NEW q, NEW givenSeason, NEW givenEpisode,
           NormalizeQuery(q, givenSeason, givenEpisode).error = ""
    PROVE  LET before == [error   |-> "",
                          season  |-> ParseExplicitFilter(givenSeason, "S", maxSeason),
                          episode |-> ParseExplicitFilter(givenEpisode, "E", maxEpisode)]
               read   == ReadTokens(q, before)
               found  == NormalizeQuery(q, givenSeason, givenEpisode) IN
           read.error = "" /\ found.season = read.season /\ found.episode = read.episode
  <1> DEFINE season  == ParseExplicitFilter(givenSeason, "S", maxSeason)
             episode == ParseExplicitFilter(givenEpisode, "E", maxEpisode)
             Refuse(parameter) == [error |-> parameter, season |-> 0, episode |-> 0]
             read    == ReadTokens(q, [error |-> "", season |-> season, episode |-> episode])
             filters == IF Len(q) > maxQueryLength THEN Refuse("q")
                        ELSE IF season = None THEN Refuse("season")
                        ELSE IF episode = None THEN Refuse("ep")
                        ELSE read
             found   == NormalizeQuery(q, givenSeason, givenEpisode)
  <1>1. /\ found.error = filters.error /\ found.season = filters.season
        /\ found.episode = filters.episode
    BY DEF NormalizeQuery
  <1> HIDE DEF found, season, episode, read
  <1>2. filters = read \/ filters.error \in {"q", "season", "ep"}
    OBVIOUS
  <1> HIDE DEF filters
  <1>3. filters.error = ""
    BY <1>1 DEF found
  <1>4. filters = read
    BY <1>2, <1>3
  <1> QED
    BY <1>1, <1>3, <1>4 DEF found, read, season, episode

Accepted(result) == result.error = ""

LEMMA NameSearched ==
    ASSUME NEW name \in Texts, NEW season \in 1..maxSeason, NEW episode \in 1..maxEpisode,
           NEW found, found \in SearchesFor(name, season, episode),
           Accepted(found)
    PROVE  found.season = season /\ found.episode = episode
  <1> DEFINE token == Lexeme("SE", season, episode)
             q     == Append(name, Space) \o <<token>>
  <1>1. /\ season \in Nat /\ season \in Int /\ season # 0 /\ season # None
        /\ episode \in Nat /\ episode \in Int /\ episode # 0 /\ episode # None
    BY DEF None, maxSeason, maxEpisode
  <1>2. CASE found = NormalizeQuery(name, Filter(season), Filter(episode))
    <2>1. /\ ParseExplicitFilter(Filter(season), "S", maxSeason) = season
          /\ ParseExplicitFilter(Filter(episode), "E", maxEpisode) = episode
      BY <1>1, ParameterRead
    <2> DEFINE read == ReadTokens(name, [error |-> "", season |-> season, episode |-> episode])
    <2>2. Accepted(read) /\ found.season = read.season /\ found.episode = read.episode
      BY <1>2, <2>1, QueryAccepted, ZenonT(30) DEF Accepted
    <2>3. Accepted(read) => read.season = season /\ read.episode = episode
      BY <1>1, FiltersStay DEF Accepted
    <2> HIDE DEF read
    <2> QED
      BY <2>2, <2>3
  <1>3. CASE found = NormalizeQuery(q, NoFilter, NoFilter)
    <2>1. token \in Lexemes /\ token.kind = "SE" /\ token.season = season /\ token.episode = episode
      BY <1>1 DEF Lexeme, Lexemes, Kinds
    <2>2. Space \in Lexemes
      BY DEF Space, Plain, Lexeme, Lexemes, Kinds, None
    <2>3. /\ q \in Texts /\ Len(q) = Len(name) + 2 /\ Len(name) \in Nat
          /\ q[Len(name) + 2] = token /\ q[Len(name) + 1] = Space
      <3> HIDE DEF token
      <3>1. name \in Seq(Lexemes) /\ Len(name) \in Nat
        BY DEF Texts
      <3> DEFINE front == Append(name, Space)
      <3>2. front \in Seq(Lexemes) /\ Len(front) = Len(name) + 1 /\ front[Len(name) + 1] = Space
        BY <2>2, <3>1
      <3> HIDE DEF front
      <3>3. <<token>> \in Seq(Lexemes) /\ Len(<<token>>) = 1 /\ <<token>>[1] = token
        BY <2>1
      <3>4. /\ front \o <<token>> \in Seq(Lexemes) /\ Len(front \o <<token>>) = Len(name) + 2
            /\ (front \o <<token>>)[Len(name) + 2] = token
            /\ (front \o <<token>>)[Len(name) + 1] = Space
        BY <3>1, <3>2, <3>3
      <3> QED
        BY <3>1, <3>4 DEF front, Texts
    <2> HIDE DEF q
    <2> DEFINE before == [error |-> "", season |-> 0, episode |-> 0]
               read   == ReadTokens(q, before)
    <2>4. /\ ParseExplicitFilter(NoFilter, "S", maxSeason) = 0
          /\ ParseExplicitFilter(NoFilter, "E", maxEpisode) = 0
      BY <1>1, ParameterRead
    <2>5. Accepted(read) /\ found.season = read.season /\ found.episode = read.episode
      BY <1>3, <2>4, QueryAccepted, ZenonT(30) DEF Accepted
    <2>6. before \in KnownFilters
      BY DEF KnownFilters
    <2> HIDE DEF token, before
    <2>7. Len(q) # 0 /\ q[Len(q)] = token /\ (Len(q) > 1 => q[Len(q) - 1] = Space)
      <3>1. (Len(name) + 2) - 1 = Len(name) + 1 /\ Len(name) + 2 # 0
        BY <2>3
      <3> QED
        BY <2>3, <3>1
    <2>8. Accepted(read) => read.season = season /\ read.episode = episode
      BY <1>1, <2>1, <2>3, <2>6, <2>7, LastTokenRead DEF Accepted
    <2> HIDE DEF read
    <2> QED
      BY <2>5, <2>8
  <1> QED
    BY <1>2, <1>3 DEF SearchesFor

LEMMA FoundByTitle ==
    ASSUME TypeOK, InputRead
    PROVE  FoundByItsTitle
  <1>1. DOMAIN input = 1..Len(input) /\ \A i \in 1..Len(input) : TorrentSound(input[i])
    BY InputFacts
  <1>2. ASSUME NEW i \in DOMAIN input, NEW title,
               title = ParseTitle(input[i].type, input[i].main, input[i].label),
               title.first # 0, NEW episode \in {title.first, title.last},
               NEW found \in SearchesFor(Semantic(input[i].label), title.season, episode),
               Accepted(found)
        PROVE  TitleMatches(title, found.season, found.episode)
    <2>1. Semantic(input[i].label) \in Texts
      BY <1>1, SemanticType DEF TorrentSound
    <2>2. /\ title.season \in 1..maxSeason
          /\ title.first \in 1..maxEpisode /\ title.last \in 1..maxEpisode
          /\ title.first <= title.last
      BY <1>2, TitleSound
    <2>3. episode \in 1..maxEpisode /\ episode \in title.first..title.last
      <3>1. \A a, b \in 1..maxEpisode : a <= b => a \in a..b /\ b \in a..b
        BY SMTT(30) DEF maxEpisode
      <3>2. episode = title.first \/ episode = title.last
        BY <1>2
      <3> QED
        BY <2>2, <3>1, <3>2, Zenon
    <2>4. found.season = title.season /\ found.episode = episode
      BY <1>2, <2>1, <2>2, <2>3, NameSearched
    <2> QED
      BY <1>2, <2>3, <2>4 DEF TitleMatches
  <1> QED
    BY <1>2 DEF FoundByItsTitle, Accepted

\* Whatever the label: an item with episodes that is searched for by its name,
\* season and episode is found, unless the search is refused.
THEOREM EveryItemIsFoundByItsTitle == Spec => []FoundByItsTitle
  <1>1. IInv => FoundByItsTitle
    BY FoundByTitle DEF IInv
  <1> QED
    BY <1>1, PipelineInvariant, PTL

------------------------------------------------------------------------------
(* What is left of a query                                                   *)

\* The open pairs of a query, and what markEmptyTechnicalPairs has marked.
Pairs(q)      == [open : 1..Len(q), technical : BOOLEAN, visible : BOOLEAN]
PairStates(q) == [stack : Seq(Pairs(q)), removed : SUBSET (1..Len(q))]

\* Text that is to stay, and that no pair may be closed over unseen.
Stays(q, j) == Alphanumeric(q[j]) /\ j \notin TokenPositions(q)

\* An open pair has seen what is to stay up to b, or a later one is to tell it.
Seen(q, stack, b) ==
    /\ \A k \in 1..Len(stack) : stack[k].open <= b
    /\ \A k, l \in 1..Len(stack) : k < l => stack[k].open <= stack[l].open
    /\ \A k \in 1..Len(stack) : \A j \in stack[k].open..b : Stays(q, j) =>
          stack[k].visible \/ \E l \in (k + 1)..Len(stack) : stack[l].open <= j

PairsHonest(st, q, i) ==
    /\ st \in PairStates(q)
    /\ TokenPositions(q) \subseteq st.removed
    /\ \A j \in st.removed : ~Stays(q, j)
    /\ Seen(q, st.stack, i)

\* The innermost pair takes note, the others do not.
LEMMA NoteIs ==
    ASSUME NEW q, NEW stack \in Seq(Pairs(q)), NEW technical \in BOOLEAN, NEW visible \in BOOLEAN
    PROVE  LET noted == Note(stack, technical, visible) IN
           /\ noted \in Seq(Pairs(q)) /\ Len(noted) = Len(stack)
           /\ \A k \in 1..Len(stack) :
                 /\ noted[k].open = stack[k].open
                 /\ stack[k].visible => noted[k].visible
                 /\ k = Len(stack) /\ visible => noted[k].visible
  <1> DEFINE n     == Len(stack)
             noted == Note(stack, technical, visible)
             P     == Pairs(q)
  <1>1. CASE stack = << >>
    BY <1>1 DEF Note
  <1>2. CASE stack # << >>
    <2>1. n \in Nat /\ n \in 1..n /\ stack \in [1..n -> P] /\ \A k \in 1..n : stack[k] \in P
      BY <1>2
    <2>2. \A p \in P : /\ p = [open |-> p.open, technical |-> p.technical, visible |-> p.visible]
                       /\ p.open \in 1..Len(q) /\ p.technical \in BOOLEAN /\ p.visible \in BOOLEAN
      BY DEF Pairs
    <2> DEFINE top == stack[n]
               new == [open |-> top.open, technical |-> top.technical \/ technical,
                       visible |-> top.visible \/ visible]
    <2>3. new \in P
      <3>1. (top.technical \/ technical) \in BOOLEAN /\ (top.visible \/ visible) \in BOOLEAN
        OBVIOUS
      <3>2. top.open \in 1..Len(q)
        BY <2>1, <2>2
      <3> QED
        BY <3>1, <3>2 DEF Pairs
    <2>4. noted = [stack EXCEPT ![n] = new]
      <3>1. noted = [stack EXCEPT ![n].technical = @ \/ technical, ![n].visible = @ \/ visible]
        BY <1>2 DEF Note
      <3>2. top = [open |-> top.open, technical |-> top.technical, visible |-> top.visible]
        BY <2>1, <2>2
      <3> QED
        <4> DEFINE first == [top EXCEPT !.technical = top.technical \/ technical]
        <4>1. first = [open |-> top.open, technical |-> top.technical \/ technical,
                       visible |-> top.visible]
          <5>1. \A o, x, y, z : [[open |-> o, technical |-> x, visible |-> y] EXCEPT !.technical = z]
                   = [open |-> o, technical |-> z, visible |-> y]
            OBVIOUS
          <5> HIDE DEF top
          <5> QED
            BY <3>2, <5>1
        <4>2. new = [first EXCEPT !.visible = top.visible \/ visible]
          <5>1. \A o, x, y, z : [[open |-> o, technical |-> x, visible |-> y] EXCEPT !.visible = z]
                   = [open |-> o, technical |-> x, visible |-> z]
            OBVIOUS
          <5> HIDE DEF first, top
          <5> QED
            BY <4>1, <5>1
        <4>3. noted = [stack EXCEPT ![n] = [first EXCEPT !.visible = top.visible \/ visible]]
          BY <2>1, <3>1
        <4> QED
          BY <4>2, <4>3
    <2> HIDE DEF noted
    <2>5. new.open = top.open /\ (top.visible => new.visible) /\ (visible => new.visible)
      OBVIOUS
    <2> HIDE DEF new, P
    <2>6. /\ noted \in Seq(P) /\ Len(noted) = n
          /\ \A k \in 1..n : noted[k] = IF k = n THEN new ELSE stack[k]
      <3>1. stack \in Seq(P)
        BY DEF P
      <3> QED
        BY <2>1, <2>3, <2>4, <3>1, ExceptSeq
    <2> QED
      BY <2>5, <2>6 DEF P, noted
  <1> QED
    BY <1>1, <1>2

\* One turn of markEmptyTechnicalPairs, by what stands at i.
Turned(q, tokens, st, i, new) ==
    LET top == Last(st.stack) IN
    \/ /\ i \in tokens
       /\ new = [stack |-> Note(st.stack, TRUE, FALSE), removed |-> st.removed]
    \/ q[i] = Space /\ new = st
    \/ /\ q[i].kind \in {"(", "["}
       /\ new = [stack   |-> Append(st.stack, [open |-> i, technical |-> FALSE, visible |-> FALSE]),
                 removed |-> st.removed]
    \/ /\ q[i].kind \in {")", "]"} /\ st.stack # << >> /\ ~top.visible
       /\ new = [stack   |-> Note(Front(st.stack), TRUE, FALSE),
                 removed |-> st.removed \cup top.open..i]
    \/ /\ st.stack # << >>
       /\ new = [stack   |-> Note(Front(st.stack), top.technical, TRUE),
                 removed |-> st.removed]
    \/ new = [stack |-> Note(st.stack, FALSE, TRUE), removed |-> st.removed]

LEMMA PairTurn ==
    ASSUME NEW q, NEW tokens, NEW st \in PairStates(q), NEW i \in 1..Len(q)
    PROVE  Turned(q, tokens, st, i, PairStep(q, tokens, st, i))
  <1> DEFINE new == PairStep(q, tokens, st, i)
             top == Last(st.stack)
  <1>1. st = [stack |-> st.stack, removed |-> st.removed]
    BY DEF PairStates
  <1>2. \A stack : [st EXCEPT !.stack = stack] = [stack |-> stack, removed |-> st.removed]
    BY <1>1
  <1>3. CASE i \in tokens
    BY <1>2, <1>3 DEF PairStep, Turned
  <1>4. CASE i \notin tokens /\ q[i] = Space
    BY <1>4 DEF PairStep, Turned
  <1>5. CASE i \notin tokens /\ q[i] # Space /\ q[i].kind \in {"(", "["}
    BY <1>2, <1>5 DEF PairStep, Turned
  <1>6. CASE /\ i \notin tokens /\ q[i] # Space /\ q[i].kind \notin {"(", "["}
             /\ st.stack # << >> /\ Closes(q[i], q[top.open])
    <2>1. q[i].kind \in {")", "]"}
      BY <1>6 DEF Closes
    <2>2. CASE top.technical /\ ~top.visible
      <3>1. new = [stack   |-> Note(Front(st.stack), TRUE, FALSE),
                   removed |-> st.removed \cup top.open..i]
        BY <1>6, <2>2 DEF PairStep
      <3> QED
        BY <1>6, <2>1, <2>2, <3>1 DEF Turned
    <2>3. CASE ~(top.technical /\ ~top.visible)
      <3>1. new = [st EXCEPT !.stack = Note(Front(@), top.technical, TRUE)]
        BY <1>6, <2>3 DEF PairStep
      <3>2. new = [stack |-> Note(Front(st.stack), top.technical, TRUE), removed |-> st.removed]
        BY <1>2, <3>1
      <3> QED
        BY <1>6, <3>2 DEF Turned
    <2> QED
      BY <2>2, <2>3
  <1>7. CASE /\ i \notin tokens /\ q[i] # Space /\ q[i].kind \notin {"(", "["}
             /\ ~(st.stack # << >> /\ Closes(q[i], q[top.open]))
    <2>1. new = [st EXCEPT !.stack = Note(@, FALSE, TRUE)]
      BY <1>7 DEF PairStep
    <2>2. new = [stack |-> Note(st.stack, FALSE, TRUE), removed |-> st.removed]
      BY <1>2, <2>1
    <2> QED
      BY <2>2 DEF Turned
  <1> QED
    BY <1>3, <1>4, <1>5, <1>6, <1>7

\* A pair that closes is removed only if nothing in it is to stay.
LEMMA TurnHonest ==
    ASSUME NEW q \in Texts, NEW i \in 1..Len(q), NEW st, PairsHonest(st, q, i - 1)
    PROVE  PairsHonest(PairStep(q, TokenPositions(q), st, i), q, i)
  <1> DEFINE tokens == TokenPositions(q)
             new    == PairStep(q, tokens, st, i)
             stack  == st.stack
             m      == Len(stack)
             top    == Last(stack)
             P      == Pairs(q)
  <1> SUFFICES PairsHonest(new, q, i)
    OBVIOUS
  <1>1. i \in Nat /\ i - 1 \in Nat /\ i \in Int /\ Len(q) \in Nat /\ \A j \in Int : j <= i => j <= i - 1 \/ j = i
    BY TokensInText
  <1>2. /\ st \in PairStates(q) /\ tokens \subseteq st.removed
        /\ \A j \in st.removed : ~Stays(q, j)
        /\ Seen(q, stack, i - 1)
    BY DEF PairsHonest
  <1>3. /\ stack \in Seq(P) /\ m \in Nat /\ \A k \in 1..m : stack[k] \in P
        /\ st.removed \in SUBSET (1..Len(q))
    <2>1. stack \in Seq(P) /\ st.removed \in SUBSET (1..Len(q))
      BY <1>2 DEF PairStates
    <2> QED
      BY <2>1
  <1>4. \A p \in P : p.open \in 1..Len(q) /\ p.open \in Int /\ p.visible \in BOOLEAN /\ p.technical \in BOOLEAN
    BY DEF Pairs
  <1>5. ASSUME NEW s, NEW r, new = [stack |-> s, removed |-> r], s \in Seq(P),
               r \in SUBSET (1..Len(q)), tokens \subseteq r, \A j \in r : ~Stays(q, j), Seen(q, s, i)
        PROVE  PairsHonest(new, q, i)
    <2>1. new \in PairStates(q)
      BY <1>5 DEF PairStates
    <2>2. new.stack = s /\ new.removed = r
      BY <1>5
    <2> HIDE DEF new
    <2> QED
      BY <1>5, <2>1, <2>2 DEF PairsHonest
  <1>6. i \in tokens => ~Stays(q, i)
    BY DEF Stays
  <1>7. q[i].kind \in {"sp", "(", ")", "[", "]"} => ~Stays(q, i)
    BY DEF Stays, Alphanumeric
  <1> HIDE DEF P, new, tokens
  \* A turn that does not make the innermost pair visible meets nothing to stay.
  <1>8. ASSUME ~Stays(q, i) PROVE Seen(q, stack, i)
    <2>1. \A k \in 1..m : stack[k].open \in Int /\ stack[k].open <= i
      BY <1>1, <1>2, <1>3, <1>4 DEF Seen
    <2>2. ASSUME NEW k \in 1..m, NEW j \in stack[k].open..i, Stays(q, j)
          PROVE  stack[k].visible \/ \E l \in (k + 1)..m : stack[l].open <= j
      <3>1. j \in stack[k].open..(i - 1)
        BY <1>1, <1>8, <2>1, <2>2
      <3> QED
        BY <1>2, <2>2, <3>1 DEF Seen
    <2> QED
      BY <1>2, <2>1, <2>2 DEF Seen
  \* What the other pairs have seen, they have seen after it took note.
  <1>9. ASSUME NEW s \in Seq(P), NEW t \in BOOLEAN, NEW b, Seen(q, s, b)
        PROVE  Note(s, t, FALSE) \in Seq(P) /\ Seen(q, Note(s, t, FALSE), b)
    <2> DEFINE noted == Note(s, t, FALSE)
    <2>1. /\ noted \in Seq(P) /\ Len(noted) = Len(s)
          /\ \A k \in 1..Len(s) : noted[k].open = s[k].open /\ (s[k].visible => noted[k].visible)
      BY NoteIs DEF P
    <2> HIDE DEF noted
    <2>2. \A k \in 1..Len(s) : \A l \in (k + 1)..Len(s) : l \in 1..Len(s)
      BY <1>9
    <2> QED
      BY <1>9, <2>1, <2>2 DEF noted, Seen
  \* A pair that is visible may have seen anything.
  <1>10. ASSUME NEW s \in Seq(P), Len(s) <= m, \A k \in 1..Len(s) : s[k] = stack[k], NEW t \in BOOLEAN
         PROVE  Note(s, t, TRUE) \in Seq(P) /\ Seen(q, Note(s, t, TRUE), i)
    <2> DEFINE noted == Note(s, t, TRUE)
               n     == Len(s)
    <2>1. /\ noted \in Seq(P) /\ Len(noted) = n
          /\ \A k \in 1..n : /\ noted[k].open = stack[k].open
                             /\ stack[k].visible => noted[k].visible
                             /\ k = n => noted[k].visible
      <3>1. /\ noted \in Seq(P) /\ Len(noted) = Len(s)
            /\ \A k \in 1..Len(s) : /\ noted[k].open = s[k].open
                                    /\ s[k].visible => noted[k].visible
                                    /\ k = Len(s) => noted[k].visible
        BY NoteIs DEF P
      <3> HIDE DEF noted
      <3> QED
        BY <1>10, <3>1
    <2>2. n \in Nat /\ n <= m /\ \A k \in 1..n : k \in 1..m
      BY <1>3, <1>10
    <2> HIDE DEF noted, n, m
    <2>3. \A k \in 1..m : stack[k].open \in Int /\ stack[k].open <= i - 1
      BY <1>2, <1>3, <1>4 DEF m, Seen
    <2>4. \A k, l \in 1..m : k < l => stack[k].open <= stack[l].open
      BY <1>2 DEF m, Seen
    <2>5. ASSUME NEW k \in 1..n, NEW j \in stack[k].open..i, Stays(q, j), k # n
          PROVE  stack[k].visible \/ \E l \in (k + 1)..n : stack[l].open <= j
      <3>1. n \in (k + 1)..n /\ n \in 1..m /\ k \in 1..m /\ j \in Int
        BY <2>2, <2>3, <2>5
      <3>2. CASE j = i
        <4>1. stack[n].open <= j
          BY <1>1, <2>3, <3>1, <3>2
        <4> QED
          BY <3>1, <4>1
      <3>3. CASE j # i
        <4>1. j \in stack[k].open..(i - 1)
          BY <1>1, <2>3, <3>1, <3>3
        <4>2. stack[k].visible \/ \E l \in (k + 1)..m : stack[l].open <= j
          BY <1>2, <2>5, <3>1, <4>1 DEF m, Seen
        <4>3. ASSUME NEW l \in (k + 1)..m, stack[l].open <= j
              PROVE  \E h \in (k + 1)..n : stack[h].open <= j
          <5>1. CASE l <= n
            <6>1. l \in (k + 1)..n
              BY <2>2, <5>1
            <6> QED
              BY <4>3, <6>1
          <5>2. CASE ~(l <= n)
            <6>1. l \in 1..m /\ n < l
              BY <2>2, <5>2
            <6>2. stack[n].open <= stack[l].open
              BY <2>4, <3>1, <6>1
            <6>3. stack[n].open <= j
              BY <2>3, <3>1, <4>3, <6>1, <6>2
            <6> QED
              BY <3>1, <6>3
          <5> QED
            BY <5>1, <5>2
        <4> QED
          BY <4>2, <4>3
      <3> QED
        BY <3>2, <3>3
    <2>6. \A k \in 1..n : \A j \in stack[k].open..i : Stays(q, j) =>
             noted[k].visible \/ \E l \in (k + 1)..n : stack[l].open <= j
      BY <2>1, <2>5
    <2>7. \A k \in 1..n : \A l \in (k + 1)..n : l \in 1..n
      BY <2>2
    <2>8. \A k \in 1..n : \A j \in noted[k].open..i : Stays(q, j) =>
             noted[k].visible \/ \E l \in (k + 1)..n : noted[l].open <= j
      BY <2>1, <2>6, <2>7, SMTT(30)
    <2>9. \A k \in 1..n : noted[k].open <= i
      BY <1>1, <2>1, <2>2, <2>3
    <2>10. \A k, l \in 1..n : k < l => noted[k].open <= noted[l].open
      BY <2>1, <2>2, <2>4
    <2>11. Seen(q, noted, i)
      BY <2>1, <2>8, <2>9, <2>10 DEF Seen
    <2> QED
      BY <2>1, <2>11 DEF noted
  <1>11. ASSUME stack # << >>
         PROVE  /\ m \in 1..m /\ top = stack[m]
                /\ Front(stack) \in Seq(P) /\ Len(Front(stack)) = m - 1
                /\ \A k \in 1..(m - 1) : Front(stack)[k] = stack[k] /\ k \in 1..m
    <2>1. m \in 1..m /\ m - 1 \in Nat /\ \A k \in 1..(m - 1) : k \in 1..m
      BY <1>3, <1>11
    <2>2. Front(stack) = SubSeq(stack, 1, m - 1) /\ top = stack[m]
      BY DEF Front, Last
    <2>3. \A k \in 1..(m - 1) : stack[k] \in P
      BY <1>3, <2>1
    <2>4. /\ SubSeq(stack, 1, m - 1) \in Seq(P)
          /\ Len(SubSeq(stack, 1, m - 1)) = IF 1 <= m - 1 THEN (m - 1) - 1 + 1 ELSE 0
          /\ \A k \in 1..((m - 1) - 1 + 1) : SubSeq(stack, 1, m - 1)[k] = stack[1 + k - 1]
      <3>1. 1 \in Int /\ m - 1 \in Int
        BY <2>1
      <3> QED
        BY <2>3, <3>1, SubSeqProperties
    <2>5. (m - 1) - 1 + 1 = m - 1 /\ \A k \in 1..(m - 1) : 1 + k - 1 = k
      BY <2>1
    <2> HIDE DEF m
    <2> QED
      BY <2>1, <2>2, <2>4, <2>5
  <1>12. stack # << >> => Len(Front(stack)) <= m
    BY <1>3, <1>11
  <1>13. TRUE \in BOOLEAN /\ FALSE \in BOOLEAN /\ st = [stack |-> stack, removed |-> st.removed]
    BY <1>2 DEF PairStates
  <1>14. CASE i \in tokens /\ new = [stack |-> Note(stack, TRUE, FALSE), removed |-> st.removed]
    <2>1. Seen(q, stack, i)
      BY <1>6, <1>8, <1>14
    <2>2. Note(stack, TRUE, FALSE) \in Seq(P) /\ Seen(q, Note(stack, TRUE, FALSE), i)
      BY <1>3, <1>9, <1>13, <2>1
    <2> QED
      BY <1>2, <1>3, <1>5, <1>14, <2>2
  <1>15. CASE q[i] = Space /\ new = st
    <2>1. ~Stays(q, i)
      BY <1>7, <1>15 DEF Space, Plain, Lexeme
    <2>2. Seen(q, stack, i)
      BY <1>8, <2>1
    <2>3. new = [stack |-> stack, removed |-> st.removed]
      BY <1>13, <1>15
    <2> HIDE DEF stack
    <2> QED
      BY <1>2, <1>3, <1>5, <2>2, <2>3
  <1>16. CASE /\ q[i].kind \in {"(", "["}
              /\ new = [stack   |-> Append(stack, [open |-> i, technical |-> FALSE, visible |-> FALSE]),
                        removed |-> st.removed]
    <2> DEFINE pair == [open |-> i, technical |-> FALSE, visible |-> FALSE]
               s    == Append(stack, pair)
    <2>1. ~Stays(q, i) /\ pair \in P /\ pair.open = i
      BY <1>7, <1>16 DEF P, Pairs
    <2>2. Seen(q, stack, i)
      BY <1>8, <2>1
    <2> HIDE DEF pair
    <2>3. s \in Seq(P) /\ Len(s) = m + 1 /\ s[m + 1] = pair /\ \A k \in 1..m : s[k] = stack[k]
      BY <1>3, <2>1
    <2> HIDE DEF s
    <2>4. /\ \A k \in 1..(m + 1) : k \in 1..m \/ k = m + 1
          /\ \A k \in 1..m : k \in 1..(m + 1) /\ k # m + 1 /\ ~(m + 1 < k)
                             /\ \A l \in (k + 1)..m : l \in (k + 1)..(m + 1) /\ l \in 1..m
      BY <1>3
    <2>5. /\ \A k \in 1..m : stack[k].open <= i
          /\ \A k, l \in 1..m : k < l => stack[k].open <= stack[l].open
          /\ \A k \in 1..m : \A j \in stack[k].open..i : Stays(q, j) =>
                stack[k].visible \/ \E l \in (k + 1)..m : stack[l].open <= j
      BY <2>2 DEF Seen
    <2> HIDE DEF m
    <2>6. \A k \in 1..(m + 1) : s[k].open <= i
      BY <1>1, <2>1, <2>3, <2>4, <2>5
    <2>7. ASSUME NEW k \in 1..(m + 1), NEW l \in 1..(m + 1), k < l
          PROVE  s[k].open <= s[l].open
      <3>1. k \in 1..m
        BY <1>3, <2>7
      <3>2. CASE l \in 1..m
        BY <2>3, <2>5, <2>7, <3>1, <3>2
      <3>3. CASE l = m + 1
        BY <2>1, <2>3, <2>5, <3>1, <3>3
      <3> QED
        BY <2>4, <3>2, <3>3
    <2>8. ASSUME NEW k \in 1..(m + 1), NEW j \in s[k].open..i, Stays(q, j)
          PROVE  s[k].visible \/ \E l \in (k + 1)..(m + 1) : s[l].open <= j
      <3>1. CASE k \in 1..m
        <4>1. j \in stack[k].open..i
          BY <2>3, <2>8, <3>1
        <4>2. stack[k].visible \/ \E l \in (k + 1)..m : stack[l].open <= j
          BY <2>5, <2>8, <3>1, <4>1
        <4> QED
          BY <2>3, <2>4, <3>1, <4>2
      <3>2. CASE k = m + 1
        <4>1. j = i
          BY <1>1, <2>1, <2>3, <2>8, <3>2
        <4> QED
          BY <2>1, <2>8, <4>1
      <3> QED
        BY <2>4, <3>1, <3>2
    <2>9. Seen(q, s, i)
      BY <2>3, <2>6, <2>7, <2>8 DEF Seen
    <2>10. new = [stack |-> s, removed |-> st.removed]
      BY <1>16 DEF s, pair
    <2> QED
      BY <1>2, <1>3, <1>5, <2>3, <2>9, <2>10
  <1>17. CASE /\ q[i].kind \in {")", "]"} /\ stack # << >> /\ ~top.visible
              /\ new = [stack   |-> Note(Front(stack), TRUE, FALSE),
                        removed |-> st.removed \cup top.open..i]
    <2> DEFINE s == Front(stack)
               r == st.removed \cup top.open..i
    <2>1. /\ m \in 1..m /\ top = stack[m] /\ s \in Seq(P) /\ Len(s) = m - 1
          /\ \A k \in 1..(m - 1) : s[k] = stack[k] /\ k \in 1..m
      BY <1>11, <1>17
    <2>2. ~Stays(q, i)
      BY <1>7, <1>17
    <2> HIDE DEF s, top
    <2>3. top.open \in 1..Len(q) /\ ~top.visible
      BY <1>3, <1>4, <1>17, <2>1
    <2>4. Seen(q, stack, i)
      BY <1>8, <2>2
    <2>5. /\ \A k \in 1..m : stack[k].open <= i
          /\ \A k, l \in 1..m : k < l => stack[k].open <= stack[l].open
          /\ \A k \in 1..m : \A j \in stack[k].open..i : Stays(q, j) =>
                stack[k].visible \/ \E l \in (k + 1)..m : stack[l].open <= j
      BY <2>4 DEF Seen
    <2> HIDE DEF m
    <2>6. \A j \in top.open..i : ~Stays(q, j)
      <3> SUFFICES ASSUME NEW j \in top.open..i, Stays(q, j) PROVE FALSE
        OBVIOUS
      <3>1. top.visible \/ \E l \in (m + 1)..m : stack[l].open <= j
        BY <2>1, <2>5
      <3>2. (m + 1)..m = {}
        BY <1>3
      <3> QED
        BY <2>3, <3>1, <3>2
    <2>7. ASSUME NEW k \in 1..(m - 1), NEW j \in s[k].open..i, Stays(q, j)
          PROVE  s[k].visible \/ \E l \in (k + 1)..(m - 1) : s[l].open <= j
      <3>1. s[k] = stack[k] /\ k \in 1..m /\ j \in stack[k].open..i
        BY <2>1, <2>7
      <3>2. stack[k].visible \/ \E l \in (k + 1)..m : stack[l].open <= j
        BY <2>5, <2>7, <3>1
      <3>3. ASSUME NEW l \in (k + 1)..m, stack[l].open <= j PROVE l \in (k + 1)..(m - 1) /\ s[l] = stack[l]
        <4>1. l # m
          <5> SUFFICES ASSUME l = m PROVE FALSE
            OBVIOUS
          <5>1. j \in top.open..i
            BY <1>1, <1>3, <1>4, <2>1, <2>3, <3>1, <3>3
          <5> QED
            BY <2>6, <2>7, <5>1
        <4>2. l \in (k + 1)..(m - 1) /\ l \in 1..(m - 1)
          BY <1>3, <4>1
        <4> QED
          BY <2>1, <4>2
      <3> QED
        BY <3>1, <3>2, <3>3
    <2>8. Seen(q, s, i)
      <3>1. \A k \in 1..(m - 1) : s[k].open <= i
        BY <2>1, <2>5
      <3>2. \A k, l \in 1..(m - 1) : k < l => s[k].open <= s[l].open
        BY <2>1, <2>5
      <3> QED
        BY <2>1, <2>7, <3>1, <3>2 DEF Seen
    <2>9. Note(s, TRUE, FALSE) \in Seq(P) /\ Seen(q, Note(s, TRUE, FALSE), i)
      BY <1>9, <1>13, <2>1, <2>8
    <2>10. /\ r \in SUBSET (1..Len(q)) /\ tokens \subseteq r /\ \A j \in r : ~Stays(q, j)
      <3>1. top.open..i \subseteq 1..Len(q)
        BY <1>1, <2>3
      <3>2. tokens \subseteq st.removed /\ \A j \in st.removed : ~Stays(q, j)
        BY <1>2
      <3>3. \A j \in r : j \in st.removed \/ j \in top.open..i
        OBVIOUS
      <3>4. st.removed \subseteq r /\ r \subseteq 1..Len(q)
        <4>1. st.removed \subseteq 1..Len(q)
          BY <1>3
        <4> HIDE DEF r
        <4> QED
          BY <3>1, <3>3, <4>1 DEF r
      <3> QED
        BY <2>6, <3>2, <3>3, <3>4
    <2>11. new = [stack |-> Note(s, TRUE, FALSE), removed |-> r]
      BY <1>17 DEF s
    <2> HIDE DEF r
    <2> QED
      BY <1>5, <2>9, <2>10, <2>11
  <1>18. CASE /\ stack # << >>
              /\ new = [stack   |-> Note(Front(stack), top.technical, TRUE),
                        removed |-> st.removed]
    <2>1. /\ Front(stack) \in Seq(P) /\ Len(Front(stack)) = m - 1 /\ top \in P
          /\ \A k \in 1..(m - 1) : Front(stack)[k] = stack[k]
      BY <1>3, <1>11, <1>18
    <2>2. top.technical \in BOOLEAN /\ Len(Front(stack)) <= m
      BY <1>4, <1>12, <1>18, <2>1
    <2> HIDE DEF top
    <2>3. Note(Front(stack), top.technical, TRUE) \in Seq(P)
          /\ Seen(q, Note(Front(stack), top.technical, TRUE), i)
      BY <1>10, <2>1, <2>2
    <2> QED
      BY <1>2, <1>3, <1>5, <1>18, <2>3
  <1>19. CASE new = [stack |-> Note(stack, FALSE, TRUE), removed |-> st.removed]
    <2>1. Note(stack, FALSE, TRUE) \in Seq(P) /\ Seen(q, Note(stack, FALSE, TRUE), i)
      <3>1. stack \in Seq(P) /\ Len(stack) <= m /\ \A k \in 1..Len(stack) : stack[k] = stack[k]
        BY <1>3
      <3> QED
        BY <1>10, <1>13, <3>1
    <2> QED
      BY <1>2, <1>3, <1>5, <1>19, <2>1
  <1>20. \/ i \in tokens /\ new = [stack |-> Note(stack, TRUE, FALSE), removed |-> st.removed]
         \/ q[i] = Space /\ new = st
         \/ /\ q[i].kind \in {"(", "["}
            /\ new = [stack   |-> Append(stack, [open |-> i, technical |-> FALSE, visible |-> FALSE]),
                      removed |-> st.removed]
         \/ /\ q[i].kind \in {")", "]"} /\ stack # << >> /\ ~top.visible
            /\ new = [stack   |-> Note(Front(stack), TRUE, FALSE),
                      removed |-> st.removed \cup top.open..i]
         \/ /\ stack # << >>
            /\ new = [stack   |-> Note(Front(stack), top.technical, TRUE),
                      removed |-> st.removed]
         \/ new = [stack |-> Note(stack, FALSE, TRUE), removed |-> st.removed]
    <2>1. st \in PairStates(q) /\ i \in 1..Len(q)
      BY <1>2
    <2>2. Turned(q, tokens, st, i, new)
      BY <2>1, PairTurn DEF new
    <2> QED
      BY ONLY <2>2 DEF Turned, stack, top
  <1> HIDE DEF stack, top
  <1> QED
    BY <1>14, <1>15, <1>16, <1>17, <1>18, <1>19, <1>20

\* A turn leads from marks to marks.
LEMMA TurnType ==
    ASSUME NEW q, NEW tokens, NEW st \in PairStates(q), NEW i \in 1..Len(q)
    PROVE  PairStep(q, tokens, st, i) \in PairStates(q)
  <1> DEFINE new   == PairStep(q, tokens, st, i)
             stack == st.stack
             top   == Last(stack)
             P     == Pairs(q)
             L     == Seq(P)
             n     == Len(stack)
             Marks(s, r) == [stack |-> s, removed |-> r]
             pair  == [open |-> i, technical |-> FALSE, visible |-> FALSE]
  <1>1. stack \in L /\ st.removed \subseteq 1..Len(q)
    BY DEF PairStates
  <1>2. \A s \in L : \A r : r \subseteq 1..Len(q) => Marks(s, r) \in PairStates(q)
    BY DEF PairStates
  <1>3. \A s \in L : \A t, v \in BOOLEAN : Note(s, t, v) \in L
    BY NoteIs
  <1>4. pair \in P
    BY DEF Pairs
  <1>5. Append(stack, pair) \in L
    BY <1>1, <1>4
  <1>6. \A p \in P : p.open \in 1..Len(q) /\ p.technical \in BOOLEAN
    BY DEF Pairs
  <1>7. ASSUME stack # << >>
        PROVE  Front(stack) \in L /\ top \in P
    <2>1. n \in Nat /\ n \in 1..n /\ \A k \in 1..n : stack[k] \in P
      BY <1>1, <1>7
    <2>2. Front(stack) = SubSeq(stack, 1, n - 1) /\ top = stack[n]
      BY DEF Front, Last
    <2>3. \A k \in 1..(n - 1) : stack[k] \in P
      BY <2>1
    <2>4. SubSeq(stack, 1, n - 1) \in Seq(P)
      <3>1. 1 \in Int /\ n - 1 \in Int
        BY <2>1
      <3> QED
        BY <2>3, <3>1, SubSeqProperties
    <2> QED
      BY <2>1, <2>2, <2>4
  <1>8. \/ new = Marks(Note(stack, TRUE, FALSE), st.removed)
        \/ new = st
        \/ new = Marks(Append(stack, pair), st.removed)
        \/ stack # << >> /\ new = Marks(Note(Front(stack), TRUE, FALSE), st.removed \cup top.open..i)
        \/ stack # << >> /\ new = Marks(Note(Front(stack), top.technical, TRUE), st.removed)
        \/ new = Marks(Note(stack, FALSE, TRUE), st.removed)
    <2>1. Turned(q, tokens, st, i, new)
      BY PairTurn
    <2> HIDE DEF new
    <2> QED
      BY ONLY <2>1 DEF Turned
  <1>9. stack # << >> => /\ top.technical \in BOOLEAN
                         /\ st.removed \cup top.open..i \subseteq 1..Len(q)
    <2> SUFFICES ASSUME stack # << >>
                 PROVE  top.technical \in BOOLEAN /\ st.removed \cup top.open..i \subseteq 1..Len(q)
      OBVIOUS
    <2>1. top.technical \in BOOLEAN /\ top.open \in 1..Len(q)
      BY <1>6, <1>7
    <2>2. top.open..i \subseteq 1..Len(q)
      BY <2>1
    <2> QED
      BY <1>1, <2>1, <2>2
  <1>10. TRUE \in BOOLEAN /\ FALSE \in BOOLEAN
    OBVIOUS
  <1> HIDE DEF new, stack, top, P, L, Marks, pair
  <1> QED
    BY <1>1, <1>2, <1>3, <1>5, <1>7, <1>8, <1>9, <1>10 DEF new

\* The marks after each turn over q.
MarksRun(f, q) ==
    /\ f \in [0..Len(q) -> PairStates(q)]
    /\ f[0] = [stack |-> << >>, removed |-> TokenPositions(q)]
    /\ \A i \in 1..Len(q) : f[i] = PairStep(q, TokenPositions(q), f[i - 1], i)
    /\ Technical(q) = f[Len(q)].removed

LEMMA TechnicalRuns ==
    ASSUME NEW q \in Texts
    PROVE  \E f : MarksRun(f, q)
  <1> DEFINE N        == Len(q)
             tokens   == TokenPositions(q)
             States   == PairStates(q)
             before   == [stack |-> << >>, removed |-> tokens]
             Turns(t) == [i \in 0..N |-> IF i = 0 THEN before ELSE PairStep(q, tokens, t[i - 1], i)]
             marks    == CHOOSE t : t = Turns(t)
             step     == [i \in 1..N |-> [st \in States |-> PairStep(q, tokens, st, i)]]
  <1>1. N \in Nat
    BY TokensInText
  <1>2. Technical(q) = marks[N].removed
    BY DEF Technical
  <1>3. \A st \in States, i \in 1..N : PairStep(q, tokens, st, i) \in States
    BY TurnType
  <1>4. before \in States
    <2>1. tokens \subseteq 1..Len(q)
      BY TokensInText DEF TokenPositions
    <2>2. << >> \in Seq(Pairs(q))
      OBVIOUS
    <2> HIDE DEF tokens
    <2> QED
      BY <2>1, <2>2 DEF PairStates
  <1> HIDE DEF N, tokens, States, before
  <1>5. step \in [1..N -> [States -> States]]
    BY <1>3
  <1>6. \A i \in 1..N : \A st \in States : step[i][st] = PairStep(q, tokens, st, i)
    OBVIOUS
  <1> HIDE DEF step
  <1>7. PICK f : Runs(f, N, States, step, before)
    BY <1>1, <1>4, <1>5, LoopRuns
  <1>8. /\ f \in [0..N -> States] /\ f[0] = before
        /\ \A i \in 1..N : f[i] = PairStep(q, tokens, f[i - 1], i)
    <2>1. f \in [0..N -> States] /\ f[0] = before /\ \A i \in 1..N : f[i] = step[i][f[i - 1]]
      BY <1>7 DEF Runs
    <2>2. \A i \in 1..N : i - 1 \in 0..N
      BY <1>1
    <2>3. \A i \in 1..N : f[i - 1] \in States
      BY <2>1, <2>2
    <2> QED
      BY <1>6, <2>1, <2>3
  <1>9. f = Turns(f)
    <2>1. f = [i \in 0..N |-> f[i]]
      BY <1>8
    <2>2. \A i \in 0..N : i # 0 => i \in 1..N
      BY <1>1
    <2>3. \A i \in 0..N : f[i] = IF i = 0 THEN before ELSE PairStep(q, tokens, f[i - 1], i)
      BY <1>8, <2>2
    <2> QED
      BY <2>1, <2>3
  <1>10. marks = Turns(marks)
    BY <1>9
  <1> HIDE DEF marks
  <1>11. marks = f
    <2> DEFINE Same == {i \in 0..N : marks[i] = f[i]}
    <2>1. \A i \in 0..N : marks[i] = IF i = 0 THEN before ELSE PairStep(q, tokens, marks[i - 1], i)
      BY <1>10
    <2>2. 0 \in Same
      BY <1>1, <1>8, <2>1
    <2>3. \A i \in 1..N : i - 1 \in Same => i \in Same
      <3>1. \A i \in 1..N : i \in 0..N /\ i # 0
        BY <1>1
      <3> QED
        BY <1>8, <2>1, <3>1
    <2> HIDE DEF Same
    <2>4. \A i \in 0..N : i \in Same
      BY <1>1, <2>2, <2>3, TurnByTurn
    <2>5. \A i \in 0..N : marks[i] = f[i]
      BY <2>4 DEF Same
    <2>6. marks = [i \in 0..N |-> marks[i]]
      BY <1>10
    <2>7. f = [i \in 0..N |-> f[i]]
      BY <1>8
    <2> QED
      BY <2>5, <2>6, <2>7
  <1> QED
    BY <1>2, <1>8, <1>11 DEF N, tokens, States, before, MarksRun

\* What is taken for technical holds the tokens, and nothing that is to stay.
LEMMA TechnicalHonest ==
    ASSUME NEW q \in Texts
    PROVE  /\ TokenPositions(q) \subseteq Technical(q)
           /\ \A j \in Technical(q) : ~Stays(q, j)
  <1> DEFINE N    == Len(q)
  <1>1. N \in Nat
    BY TokensInText
  <1>2. PICK f : MarksRun(f, q)
    BY TechnicalRuns
  <1> DEFINE Good == {i \in 0..N : PairsHonest(f[i], q, i)}
  <1>3. 0 \in Good
    <2>1. f[0] \in PairStates(q) /\ f[0] = [stack |-> << >>, removed |-> TokenPositions(q)]
      BY <1>1, <1>2 DEF MarksRun
    <2>2. f[0].stack = << >> /\ f[0].removed = TokenPositions(q)
      BY <2>1
    <2>3. Seen(q, << >>, 0)
      BY DEF Seen
    <2>4. \A j \in TokenPositions(q) : ~Stays(q, j)
      BY DEF Stays
    <2> QED
      BY <1>1, <2>1, <2>2, <2>3, <2>4 DEF PairsHonest
  <1>4. ASSUME NEW i \in 1..N, i - 1 \in Good PROVE i \in Good
    <2>1. PairsHonest(f[i - 1], q, i - 1)
      BY <1>4
    <2>2. f[i] = PairStep(q, TokenPositions(q), f[i - 1], i)
      BY <1>2 DEF MarksRun
    <2>3. PairsHonest(PairStep(q, TokenPositions(q), f[i - 1], i), q, i)
      BY <2>1, TurnHonest
    <2>4. i \in 0..N
      BY <1>1
    <2> QED
      BY <2>2, <2>3, <2>4
  <1> HIDE DEF Good
  <1>5. \A i \in 0..N : i \in Good
    BY <1>1, <1>3, <1>4, TurnByTurn
  <1>6. N \in Good
    BY <1>1, <1>5
  <1>7. PairsHonest(f[N], q, N)
    BY <1>6 DEF Good
  <1>8. Technical(q) = f[N].removed
    BY <1>2 DEF MarksRun
  <1> QED
    BY <1>7, <1>8 DEF PairsHonest

\* Besides what is technical, only separators are removed.
LEMMA RemovedHonest ==
    ASSUME NEW q \in Texts
    PROVE  \A j \in 1..Len(q) : Alphanumeric(q[j]) => (j \in Removed(q) <=> j \in TokenPositions(q))
  <1> DEFINE technical == Technical(q)
             Passed(i, removed) == i \in removed \/ q[i] = Space \/ Separates(q[i])
             head  == {i \in DOMAIN q : \A j \in 1..i : Passed(j, technical)}
             left  == {i \in head \ technical : Separates(q[i])}
             first == IF head \cap technical = {} THEN {}
                      ELSE left \ {i \in left : i = Max(left) /\ OpensTitle(q, i)}
             tail  == {i \in DOMAIN q : \A j \in i..Len(q) : Passed(j, technical \cup first)}
             right == {i \in tail \ (technical \cup first) : Separates(q[i])}
             last  == IF tail \cap technical = {} THEN {}
                      ELSE right \ {i \in right : i = Min(right) /\ ClosesTitle(q, i)}
  <1>1. Removed(q) = technical \cup first \cup last
    BY DEF Removed
  <1>2. \A j \in first : Separates(q[j])
    <2>1. \A j \in left : Separates(q[j])
      OBVIOUS
    <2> HIDE DEF left
    <2> QED
      BY <2>1
  <1>3. \A j \in last : Separates(q[j])
    <2>1. \A j \in right : Separates(q[j])
      OBVIOUS
    <2> HIDE DEF right
    <2> QED
      BY <2>1
  <1>4. /\ TokenPositions(q) \subseteq technical
        /\ \A j \in technical : ~Stays(q, j)
    BY TechnicalHonest
  <1> HIDE DEF technical, first, last
  <1>5. \A j \in 1..Len(q) : Alphanumeric(q[j]) => ~Separates(q[j])
    BY DEF Alphanumeric
  <1> QED
    BY <1>1, <1>2, <1>3, <1>4, <1>5 DEF Stays

\* The words and numbers of a text.
Words == {x \in Lexemes : Alphanumeric(x)}

LEMMA WordsPicked ==
    ASSUME NEW list \in Seq(Lexemes), NEW P \in SUBSET (1..Len(list)), NEW s, s = Pick(list, P)
    PROVE  Pick(s, {k \in 1..Len(s) : s[k] \in Words}) = Pick(list, {i \in P : list[i] \in Words})
  <1>1. \A E : Pick(Pick(list, P), {k \in 1..Len(Pick(list, P)) : Pick(list, P)[k] \in E})
             = Pick(list, {i \in P : list[i] \in E})
    BY PickTwice, ZenonT(30)
  <1>2. \A E : Pick(s, {k \in 1..Len(s) : s[k] \in E}) = Pick(list, {i \in P : list[i] \in E})
    BY ONLY <1>1, s = Pick(list, P)
  <1> QED
    BY <1>2

\* The words of what NormalizeQuery leaves are those it was to leave.
LEMMA CleanKept ==
    ASSUME NEW q \in Texts, NEW season, NEW episode
    PROVE  LET clean == NormalizeQuery(q, season, episode).clean IN
           Pick(clean, {i \in DOMAIN clean : Alphanumeric(clean[i])}) =
           Pick(q, {i \in DOMAIN q : Alphanumeric(q[i]) /\ i \notin TokenPositions(q)})
  <1> DEFINE clean  == NormalizeQuery(q, season, episode).clean
             P      == DOMAIN q \ Removed(q)
             text   == Pick(q, P)
             C      == {i \in DOMAIN text :
                          \/ text[i] # Space
                          \/ /\ i > 1 /\ text[i - 1] # Space
                             /\ \E j \in (i + 1)..Len(text) : text[j] # Space}
  <1>1. clean = Pick(text, C)
    BY DEF NormalizeQuery, CollapseSpace
  <1>2. q \in Seq(Lexemes) /\ DOMAIN q = 1..Len(q) /\ P \in SUBSET (1..Len(q))
        /\ \A i \in 1..Len(q) : q[i] \in Lexemes
    BY DEF Texts
  <1>3. text \in Seq(Lexemes)
    BY <1>2, PickInOrder
  <1> HIDE DEF clean, P, text
  <1>4. DOMAIN text = 1..Len(text) /\ C \in SUBSET (1..Len(text))
        /\ \A i \in 1..Len(text) : text[i] \in Lexemes
    BY <1>3
  <1>5. clean \in Seq(Lexemes)
    BY <1>1, <1>3, <1>4, PickInOrder
  <1>6. DOMAIN clean = 1..Len(clean) /\ \A i \in 1..Len(clean) : clean[i] \in Lexemes
    BY <1>5
  <1>7. \A x \in Words : x # Space
    BY DEF Words, Alphanumeric, Space, Plain, Lexeme
  <1> DEFINE InClean == {i \in 1..Len(clean) : clean[i] \in Words}
             InC     == {i \in C : text[i] \in Words}
             InText  == {i \in 1..Len(text) : text[i] \in Words}
             InP     == {i \in P : q[i] \in Words}
  <1>8. InC = InText
    <2>1. \A i : i \in InC <=> i \in InText
      BY <1>4, <1>7
    <2> HIDE DEF InC, InText
    <2> QED
      BY <2>1
  <1>9. Pick(clean, InClean) = Pick(text, InC)
    <2>1. text \in Seq(Lexemes) /\ C \in SUBSET (1..Len(text)) /\ clean = Pick(text, C)
      BY <1>1, <1>3, <1>4
    <2> HIDE DEF C
    <2>2. Pick(clean, {k \in 1..Len(clean) : clean[k] \in Words}) = Pick(text, {i \in C : text[i] \in Words})
      BY ONLY <2>1, WordsPicked
    <2> QED
      BY <2>2
  <1>10. Pick(text, InText) = Pick(q, InP)
    BY <1>2, WordsPicked DEF text
  <1>11. {i \in DOMAIN clean : Alphanumeric(clean[i])} = InClean
    <2>1. \A i : i \in DOMAIN clean /\ Alphanumeric(clean[i]) <=> i \in InClean
      BY <1>6 DEF Words
    <2> QED
      BY <2>1
  <1>12. {i \in DOMAIN q : Alphanumeric(q[i]) /\ i \notin TokenPositions(q)} = InP
    <2>1. \A i : (i \in DOMAIN q /\ Alphanumeric(q[i]) /\ i \notin TokenPositions(q)) <=> i \in InP
      BY <1>2, RemovedHonest DEF Words, P
    <2> QED
      BY <2>1
  <1> HIDE DEF InClean, InC, InText, InP
  <1> QED
    BY <1>8, <1>9, <1>10, <1>11, <1>12 DEF clean

\* Every word and number of a query that is no complete token goes upstream,
\* in its order, whatever brackets, separators and tokens stand around it.
THEOREM TitleTextIsKept == Spec => []TitleTextKept
  <1>1. IInv => TitleTextKept
    <2> SUFFICES ASSUME IInv, phase \in {"loading", "scanning", "done"}
                 PROVE  Pick(query.clean, {i \in DOMAIN query.clean : Alphanumeric(query.clean[i])}) =
                        Pick(request.q, {i \in DOMAIN request.q :
                            Alphanumeric(request.q[i]) /\ i \notin TokenPositions(request.q)})
      BY DEF TitleTextKept
    <2>1. query = NormalizeQuery(request.q, request.season, request.ep)
      BY DEF IInv, QueryRead
    <2>2. request.q \in Texts
      BY DEF IInv, TypeOK, Requests
    <2> QED
      BY <2>1, <2>2, CleanKept
  <1> QED
    BY <1>1, PipelineInvariant, PTL
==============================================================================
