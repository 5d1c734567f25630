--------------------------- MODULE HttpBoundaryProofs -------------------------
(****************************************************************************)
(* What HttpBoundary promises for any set of raw queries, any key and any    *)
(* size of the offset register: nothing ambiguous is served, errors blame a  *)
(* parameter at fault, paging numbers are exact, and the log tells the       *)
(* reply.                                                                    *)
(****************************************************************************)
EXTENDS HttpBoundary, FiniteSetTheorems, NaturalsInduction, TLAPS

------------------------------------------------------------------------------
(* The least of a set of numbers                                             *)

\* A set of numbers that is not empty has a least one.
LEMMA LeastExists ==
    ASSUME NEW S \in SUBSET Nat, S # {}
    PROVE  \E m \in S : \A x \in S : m <= x
  <1> DEFINE Less == OpToRel(<, Nat)
  <1>1. IsWellFoundedOn(Less, Nat)
    BY NatLessThanWellFounded
  <1>2. \A i, j \in Nat : i < j => <<i, j>> \in Less
    BY DEF OpToRel
  <1> HIDE DEF Less
  <1>3. \E m \in S : \A x \in S : ~(<<x, m>> \in Less)
    BY <1>1, WFMin
  <1>4. PICK m \in S : \A x \in S : <<x, m>> \notin Less
    BY <1>3, Zenon
  <1>5. \A x \in S : m <= x
    <2>1. m \in Nat /\ \A x \in S : x \in Nat
      OBVIOUS
    <2>2. \A x \in S : ~(x < m)
      BY <1>2, <1>4, <2>1, Zenon
    <2> QED
      BY <2>1, <2>2
  <1> QED
    BY <1>5

\* The first of some positions is one of them, and none comes before it.
LEMMA MinIsFirst ==
    ASSUME NEW S \in SUBSET Nat, S # {}
    PROVE  Min(S) \in S /\ \A x \in S : Min(S) <= x
  <1>1. \E m \in S : \A x \in S : m <= x
    BY LeastExists
  <1> QED
    BY <1>1 DEF Min

------------------------------------------------------------------------------
(* Reading the raw query                                                     *)

Errors   == {"incorrect_credentials", "missing_parameter", "incorrect_parameter",
             "no_such_function", "function_unavailable"}
Bodies   == {"", "not_found", "not_allowed", "ok", "caps", "feed", "upstream_failed"} \cup Errors
Outcomes == {"success", "write_failed", "cancelled", "deadline_exceeded", "upstream_failed",
             "authentication_failed", "unsupported_operation", "invalid_request"}
Replies  == [kind : {"none", "caps", "execute"} \cup Errors,
             parameter : {"", "search", "tvsearch"} \cup Known]

TypeOK ==
    /\ path \in {"/api", "/healthz", "other"} /\ get \in BOOLEAN
    /\ raw \in Seq(Field)
    /\ stage \in {"route", "authenticate", "syntax", "singletons", "operation", "parameters",
                  "executing", "stopping", "rereading", "stopped", "rendering", "done"}
    /\ response \in Replies
    /\ ctx \in {"live", "canceled", "expired"}
    /\ result \in {None, "feed", "failed", "q", "season", "ep"}
    /\ point \in {None, "caps", "executed", "rendered", "render_failed"}
    /\ sent \in [status : Nat, body : Bodies, whole : BOOLEAN]
    /\ log \in Seq([outcome : Outcomes, status : Nat])

\* A field of the raw query.
LEMMA RawFields ==
    ASSUME TypeOK
    PROVE  /\ DOMAIN raw \in SUBSET Nat /\ IsFiniteSet(DOMAIN raw)
           /\ \A i \in DOMAIN raw : raw[i].digits \in Seq(0..9)
  <1>1. raw \in Seq(Field) /\ DOMAIN raw = 1..Len(raw) /\ Len(raw) \in Nat
    BY DEF TypeOK
  <1>2. IsFiniteSet(1..Len(raw))
    BY <1>1, FS_Interval
  <1>3. ASSUME NEW i \in DOMAIN raw
        PROVE  raw[i].digits \in Seq(0..9)
    <2>1. raw[i] \in Field
      BY <1>1
    <2> DEFINE Digits == Seq(0..9)
    <2>2. Digits = Seq(0..9)
      OBVIOUS
    <2> HIDE DEF Digits
    <2> QED
      BY <2>1, <2>2 DEF Field
  <1> QED
    BY <1>1, <1>2, <1>3

\* The fields that give a name values are occurrences of the name, and the
\* first of them is one.
LEMMA ValuesOccur ==
    ASSUME TypeOK, NEW name
    PROVE  /\ Values(name) \subseteq Occurrences(name) /\ Occurrences(name) \subseteq DOMAIN raw
           /\ IsFiniteSet(Occurrences(name)) /\ IsFiniteSet(Values(name))
           /\ Cardinality(Values(name)) <= Cardinality(Occurrences(name))
           /\ Cardinality(Occurrences(name)) \in Nat /\ Cardinality(Values(name)) \in Nat
           /\ Given(name) => \E i \in Values(name) : First(name) = raw[i]
  <1>1. Values(name) \subseteq Occurrences(name) /\ Occurrences(name) \subseteq DOMAIN raw
    BY RawFields DEF Values, Occurrences, Malformed
  <1>2. IsFiniteSet(Occurrences(name))
    BY <1>1, RawFields, FS_Subset
  <1>3. IsFiniteSet(Values(name)) /\ Cardinality(Values(name)) <= Cardinality(Occurrences(name))
    BY <1>1, <1>2, FS_Subset
  <1>4. Cardinality(Occurrences(name)) \in Nat /\ Cardinality(Values(name)) \in Nat
    BY <1>2, <1>3, FS_CardinalityType
  <1>5. ASSUME Given(name) PROVE Min(Values(name)) \in Values(name)
    BY <1>1, <1>5, RawFields, MinIsFirst DEF Given
  <1> QED
    BY <1>1, <1>2, <1>3, <1>4, <1>5 DEF First

\* What the order of parameters is looked up in.
LEMMA Orders ==
    /\ DOMAIN Singletons = 1..8 /\ DOMAIN Parsed = 1..4
    /\ \A n \in 1..8 : Singletons[n] \in Known \ {"apikey"}
    /\ \A n \in 1..4 : Parsed[n] \in Known
    /\ \A name \in Known \ {"apikey"} : \E n \in 1..8 : Singletons[n] = name
  <1>1. DOMAIN Singletons = 1..8 /\ DOMAIN Parsed = 1..4
    BY DEF Singletons, Parsed
  <1>2. /\ Singletons[1] = "t" /\ Singletons[2] = "q" /\ Singletons[3] = "cat"
        /\ Singletons[4] = "limit" /\ Singletons[5] = "offset" /\ Singletons[6] = "extended"
        /\ Singletons[7] = "season" /\ Singletons[8] = "ep"
    BY DEF Singletons
  <1>3. Parsed[1] = "cat" /\ Parsed[2] = "limit" /\ Parsed[3] = "offset" /\ Parsed[4] = "extended"
    BY DEF Parsed
  <1>4. \A n \in 1..8 : \/ n = 1 \/ n = 2 \/ n = 3 \/ n = 4 \/ n = 5 \/ n = 6 \/ n = 7 \/ n = 8
    OBVIOUS
  <1>5. \A n \in 1..4 : n = 1 \/ n = 2 \/ n = 3 \/ n = 4
    OBVIOUS
  <1>6. 1 \in 1..8 /\ 2 \in 1..8 /\ 3 \in 1..8 /\ 4 \in 1..8 /\ 5 \in 1..8 /\ 6 \in 1..8 /\ 7 \in 1..8
        /\ 8 \in 1..8
    OBVIOUS
  <1>7. \A n \in 1..8 : Singletons[n] \in Known \ {"apikey"}
    BY <1>2, <1>4 DEF Known
  <1>8. \A n \in 1..4 : Parsed[n] \in Known
    BY <1>3, <1>5 DEF Known
  <1>9. \A name \in Known \ {"apikey"} : \E n \in 1..8 : Singletons[n] = name
    BY <1>2, <1>6 DEF Known
  <1> QED
    BY <1>1, <1>7, <1>8, <1>9

------------------------------------------------------------------------------
(* Numbers                                                                   *)

\* f holds the number that each prefix of some digits denotes, up to k digits.
Prefixes(f, digits, k) ==
    /\ f[0] = 0
    /\ \A i \in 1..k : f[i] = 10 * f[i - 1] + digits[i]

\* Every list of digits has its prefix numbers: the shortest prefix without
\* would get its own from the one before.
LEMMA PrefixesExist ==
    ASSUME NEW digits \in Seq(0..9)
    PROVE  \E f \in [0..Len(digits) -> Nat] : Prefixes(f, digits, Len(digits))
  <1> DEFINE L        == Len(digits)
             Has(k)   == \E f \in [0..k -> Nat] : Prefixes(f, digits, k)
             Lacking  == {k \in 0..L : ~Has(k)}
  <1>1. L \in Nat /\ \A i \in 1..L : digits[i] \in Nat
    OBVIOUS
  <1> HIDE DEF L
  <1>2. Has(0)
    <2> DEFINE f == [i \in 0..0 |-> 0]
    <2>1. f \in [0..0 -> Nat] /\ Prefixes(f, digits, 0)
      BY DEF Prefixes
    <2> QED
      BY <2>1
  <1>3. ASSUME NEW k \in 1..L, Has(k - 1) PROVE Has(k)
    <2>1. PICK g \in [0..(k - 1) -> Nat] : Prefixes(g, digits, k - 1)
      BY <1>3
    <2> DEFINE f == [i \in 0..k |-> IF i = k THEN 10 * g[k - 1] + digits[k] ELSE g[i]]
    <2>2. k \in Nat /\ k - 1 \in 0..(k - 1) /\ digits[k] \in Nat
      BY <1>1
    <2>3. f \in [0..k -> Nat]
      <3>1. g[k - 1] \in Nat
        BY <2>2
      <3>2. 10 * g[k - 1] + digits[k] \in Nat
        BY <2>2, <3>1
      <3>3. \A i \in 0..k : i # k => g[i] \in Nat
        BY <2>2
      <3> QED
        BY <3>2, <3>3
    <2>4. Prefixes(f, digits, k)
      <3>1. f[0] = 0
        BY <2>1, <2>2 DEF Prefixes
      <3>2. ASSUME NEW i \in 1..k PROVE f[i] = 10 * f[i - 1] + digits[i]
        <4>1. i - 1 \in 0..k /\ i - 1 # k /\ i \in 0..k
          BY <2>2
        <4>2. f[i - 1] = g[i - 1]
          BY <4>1
        <4>3. CASE i = k
          BY <4>1, <4>2, <4>3
        <4>4. CASE i # k
          <5>1. i \in 1..(k - 1)
            BY <2>2, <4>4
          <5>2. g[i] = 10 * g[i - 1] + digits[i]
            BY <2>1, <5>1 DEF Prefixes
          <5>3. f[i] = g[i]
            BY <4>1, <4>4
          <5> QED
            BY <4>2, <5>2, <5>3
        <4> QED
          BY <4>3, <4>4
      <3> HIDE DEF f
      <3> QED
        BY <3>1, <3>2 DEF Prefixes
    <2> HIDE DEF f
    <2> QED
      BY <2>3, <2>4
  <1> HIDE DEF Has
  <1>4. Lacking = {}
    <2> SUFFICES ASSUME Lacking # {} PROVE FALSE
      OBVIOUS
    <2>1. PICK k \in Lacking : \A j \in Lacking : k <= j
      <3>1. Lacking \in SUBSET Nat
        BY <1>1
      <3> QED
        BY <3>1, LeastExists
    <2>2. k # 0 /\ k \in 0..L
      BY <1>2
    <2>3. k \in 1..L /\ k - 1 \in 0..L /\ ~(k <= k - 1)
      BY <1>1, <2>2
    <2>4. Has(k - 1)
      BY <2>1, <2>3
    <2> QED
      BY <1>3, <2>3, <2>4
  <1>5. Has(L)
    BY <1>1, <1>4
  <1> QED
    BY <1>5 DEF Has, L

\* Prefix numbers are determined by the digits.
LEMMA PrefixesUnique ==
    ASSUME NEW k \in Nat, NEW digits, NEW f, NEW g,
           Prefixes(f, digits, k), Prefixes(g, digits, k)
    PROVE  \A i \in 0..k : f[i] = g[i]
  <1> DEFINE Apart == {i \in 0..k : f[i] # g[i]}
  <1> SUFFICES ASSUME Apart # {} PROVE FALSE
    OBVIOUS
  <1>1. PICK i \in Apart : \A j \in Apart : i <= j
    <2>1. Apart \in SUBSET Nat
      OBVIOUS
    <2> QED
      BY <2>1, LeastExists
  <1>2. i # 0 /\ i \in 0..k
    BY DEF Prefixes
  <1>3. i \in 1..k /\ i - 1 \in 0..k /\ ~(i <= i - 1)
    BY <1>2
  <1>4. f[i - 1] = g[i - 1]
    BY <1>1, <1>3
  <1>5. f[i] = 10 * f[i - 1] + digits[i] /\ g[i] = 10 * g[i - 1] + digits[i]
    BY <1>3 DEF Prefixes
  <1> QED
    BY <1>4, <1>5

\* ParseUint computes the prefix numbers one after the other.
LEMMA NumberByPrefixes ==
    ASSUME NEW digits \in Seq(0..9)
    PROVE  \E f \in [0..Len(digits) -> Nat] :
              Prefixes(f, digits, Len(digits)) /\ Number(digits) = f[Len(digits)]
  <1> DEFINE L         == Len(digits)
             Step(f)   == [i \in 0..L |-> IF i = 0 THEN 0 ELSE 10 * f[i - 1] + digits[i]]
             upTo      == CHOOSE f : f = Step(f)
  <1>1. L \in Nat
    OBVIOUS
  <1>2. PICK h \in [0..L -> Nat] : Prefixes(h, digits, L)
    BY PrefixesExist
  <1>3. h = Step(h)
    <2>1. h = [i \in 0..L |-> h[i]]
      OBVIOUS
    <2>2. \A i \in 0..L : h[i] = IF i = 0 THEN 0 ELSE 10 * h[i - 1] + digits[i]
      BY <1>1, <1>2 DEF Prefixes
    <2> QED
      BY <2>1, <2>2
  <1>4. upTo = Step(upTo)
    BY <1>3
  <1>5. Number(digits) = upTo[L]
    BY DEF Number
  <1> HIDE DEF upTo
  <1>6. Prefixes(upTo, digits, L)
    <2>1. \A i \in 0..L : upTo[i] = IF i = 0 THEN 0 ELSE 10 * upTo[i - 1] + digits[i]
      BY <1>4
    <2>2. 0 \in 0..L /\ \A i \in 1..L : i \in 0..L /\ i # 0
      BY <1>1
    <2> QED
      BY <2>1, <2>2 DEF Prefixes
  <1>7. upTo[L] = h[L]
    BY <1>1, <1>2, <1>6, PrefixesUnique
  <1> QED
    BY <1>2, <1>5, <1>7

\* normalizedDecimal leaves a digit, and no leading zero unless it is the only
\* digit.
LEMMA NormalizedDigits ==
    ASSUME NEW digits \in Seq(0..9)
    PROVE  /\ Normalized(digits) \in Seq(0..9)
           /\ Len(Normalized(digits)) \in Nat \ {0}
           /\ Len(Normalized(digits)) > 1 => Normalized(digits)[1] # 0
  <1> DEFINE significant == {i \in DOMAIN digits : digits[i] # 0}
  <1>1. DOMAIN digits = 1..Len(digits) /\ Len(digits) \in Nat
    OBVIOUS
  <1>2. CASE significant = {}
    <2>1. Normalized(digits) = <<0>>
      BY <1>2 DEF Normalized
    <2>2. <<0>> \in Seq(0..9) /\ Len(<<0>>) = 1
      OBVIOUS
    <2> QED
      BY <2>1, <2>2
  <1>3. CASE significant # {}
    <2> DEFINE m == Min(significant)
    <2>1. m \in significant
      <3>1. significant \in SUBSET Nat
        BY <1>1
      <3> QED
        BY <1>3, <3>1, MinIsFirst
    <2>2. m \in 1..Len(digits) /\ digits[m] # 0
      BY <1>1, <2>1
    <2>3. Normalized(digits) = SubSeq(digits, m, Len(digits))
      BY <1>3 DEF Normalized
    <2> HIDE DEF m
    <2>4. /\ SubSeq(digits, m, Len(digits)) \in Seq(0..9)
          /\ Len(SubSeq(digits, m, Len(digits))) = Len(digits) - m + 1
          /\ SubSeq(digits, m, Len(digits))[1] = digits[m]
      BY <1>1, <2>2
    <2> QED
      BY <1>1, <2>2, <2>3, <2>4
  <1> QED
    BY <1>2, <1>3

\* Leading zeros do not change a number.
LEMMA NormalizedNumber ==
    ASSUME NEW digits \in Seq(0..9)
    PROVE  Number(Normalized(digits)) = Number(digits) /\ Number(digits) \in Nat
  <1> DEFINE significant == {i \in DOMAIN digits : digits[i] # 0}
             L           == Len(digits)
  <1>1. DOMAIN digits = 1..L /\ L \in Nat /\ \A i \in 1..L : digits[i] \in Nat
    OBVIOUS
  <1>2. PICK f \in [0..L -> Nat] : Prefixes(f, digits, L) /\ Number(digits) = f[L]
    BY NumberByPrefixes
  <1>3. Number(digits) \in Nat
    BY <1>1, <1>2
  <1>4. ASSUME NEW n \in 0..L, \A i \in 1..n : digits[i] = 0
        PROVE  f[n] = 0
    <2> DEFINE Counted == {i \in 0..n : f[i] # 0}
    <2> SUFFICES ASSUME Counted # {} PROVE FALSE
      BY <1>1
    <2>1. PICK i \in Counted : \A j \in Counted : i <= j
      <3>1. Counted \in SUBSET Nat
        BY <1>1
      <3> QED
        BY <3>1, LeastExists
    <2>2. i \in 0..n /\ f[i] # 0 /\ i # 0
      BY <1>2 DEF Prefixes
    <2>3. i \in 1..n /\ i \in 1..L /\ i - 1 \in 0..n /\ ~(i <= i - 1)
      BY <1>1, <2>2
    <2>4. f[i - 1] = 0 /\ digits[i] = 0
      BY <1>4, <2>1, <2>3
    <2>5. f[i] = 10 * f[i - 1] + digits[i]
      BY <1>2, <2>3 DEF Prefixes
    <2> QED
      BY <2>2, <2>4, <2>5
  <1>5. CASE significant = {}
    <2>1. f[L] = 0
      BY <1>1, <1>4, <1>5
    <2>2. Normalized(digits) = <<0>>
      BY <1>5 DEF Normalized
    <2>3. <<0>> \in Seq(0..9) /\ Len(<<0>>) = 1 /\ <<0>>[1] = 0
      OBVIOUS
    <2>4. PICK g \in [0..1 -> Nat] : Prefixes(g, <<0>>, 1) /\ Number(<<0>>) = g[1]
      <3>1. \E g \in [0..Len(<<0>>) -> Nat] :
               Prefixes(g, <<0>>, Len(<<0>>)) /\ Number(<<0>>) = g[Len(<<0>>)]
        BY <2>3, NumberByPrefixes
      <3> QED
        BY <2>3, <3>1
    <2>5. g[0] = 0 /\ g[1] = 10 * g[1 - 1] + <<0>>[1]
      BY <2>4 DEF Prefixes
    <2>6. g[1] = 0
      BY <2>3, <2>5
    <2> QED
      BY <1>2, <1>3, <2>1, <2>2, <2>4, <2>6
  <1>6. CASE significant # {}
    <2> DEFINE m == Min(significant)
               e == SubSeq(digits, m, L)
    <2>1. m \in significant /\ \A x \in significant : m <= x
      <3>1. significant \in SUBSET Nat
        BY <1>1
      <3> QED
        BY <1>6, <3>1, MinIsFirst
    <2>2. m \in 1..L /\ \A i \in 1..L : i < m => digits[i] = 0
      <3> HIDE DEF m
      <3>1. \A i \in 1..L : digits[i] # 0 => m <= i
        BY <1>1, <2>1
      <3>2. m \in 1..L
        BY <1>1, <2>1
      <3> QED
        BY <1>1, <3>1, <3>2
    <2>3. Normalized(digits) = e
      BY <1>6 DEF Normalized
    <2> HIDE DEF m
    <2>4. /\ e \in Seq(0..9) /\ Len(e) = L - m + 1
          /\ \A j \in 1..(L - m + 1) : e[j] = digits[m + j - 1]
      BY <1>1, <2>2
    <2>5. f[m - 1] = 0
      <3>1. m - 1 \in 0..L /\ \A i \in 1..(m - 1) : digits[i] = 0
        BY <1>1, <2>2
      <3> QED
        BY <1>4, <3>1
    <2> HIDE DEF e
    <2>6. PICK g \in [0..(L - m + 1) -> Nat] :
             Prefixes(g, e, L - m + 1) /\ Number(e) = g[L - m + 1]
      BY <2>4, NumberByPrefixes
    <2> DEFINE h == [j \in 0..(L - m + 1) |-> f[m + j - 1]]
    <2>7. Prefixes(h, e, L - m + 1)
      <3>1. h[0] = 0
        <4>1. 0 \in 0..(L - m + 1) /\ m + 0 - 1 = m - 1
          BY <1>1, <2>2
        <4> QED
          BY <2>5, <4>1
      <3>2. ASSUME NEW j \in 1..(L - m + 1)
            PROVE  h[j] = 10 * h[j - 1] + e[j]
        <4>1. /\ m + j - 1 \in 1..L
              /\ j \in 0..(L - m + 1) /\ j - 1 \in 0..(L - m + 1)
              /\ m + (j - 1) - 1 = (m + j - 1) - 1
          BY <1>1, <2>2
        <4>2. f[m + j - 1] = 10 * f[(m + j - 1) - 1] + digits[m + j - 1]
          BY <1>2, <4>1 DEF Prefixes
        <4>3. h[j] = f[m + j - 1] /\ h[j - 1] = f[(m + j - 1) - 1]
          BY <4>1
        <4> QED
          BY <2>4, <4>2, <4>3
      <3> HIDE DEF h
      <3> QED
        BY <3>1, <3>2 DEF Prefixes
    <2>8. L - m + 1 \in Nat /\ L - m + 1 \in 0..(L - m + 1) /\ m + (L - m + 1) - 1 = L
      BY <1>1, <2>2
    <2>9. g[L - m + 1] = h[L - m + 1]
      <3> HIDE DEF h
      <3> QED
        BY <2>6, <2>7, <2>8, PrefixesUnique
    <2>10. h[L - m + 1] = f[L]
      BY <2>8
    <2> QED
      BY <1>2, <1>3, <2>3, <2>6, <2>9, <2>10
  <1> QED
    BY <1>5, <1>6

\* What the first two digits of a number of two tell of its size.
LEMMA TwoDigits ==
    ASSUME NEW a \in 0..9, NEW b \in 0..9
    PROVE  10 * a + b > 50 <=> a > 5 \/ (a = 5 /\ b > 0)
  <1>1. a \in Nat /\ b \in Nat /\ a <= 9 /\ b <= 9
    OBVIOUS
  <1>2. CASE a > 5
    <2>1. a >= 6
      BY <1>1, <1>2
    <2>2. 10 * a + b >= 60
      BY <1>1, <2>1
    <2> QED
      BY <1>1, <1>2, <2>2
  <1>3. CASE a = 5
    <2>1. 10 * a + b = 50 + b
      BY <1>1, <1>3
    <2> QED
      BY <1>1, <1>3, <2>1
  <1>4. CASE a < 5
    <2>1. a <= 4
      BY <1>1, <1>4
    <2>2. 10 * a + b <= 49
      BY <1>1, <2>1
    <2> QED
      BY <1>1, <1>4, <2>2
  <1> QED
    BY <1>1, <1>2, <1>3, <1>4

\* A number with a first digit that is not 0 is at least 10 with two digits,
LEMMA LeadingDigit ==
    ASSUME NEW a \in 0..9, NEW b \in 0..9, a # 0
    PROVE  10 * a + b >= 10 /\ 10 * a + b \in Nat
  <1>1. a \in Nat /\ b \in Nat /\ a >= 1
    OBVIOUS
  <1> QED
    BY <1>1

\* and at least 100 with one more.
LEMMA LongerPrefix ==
    ASSUME NEW n \in Nat, NEW b \in 0..9, n >= 10
    PROVE  10 * n + b >= 100
  <1>1. b \in Nat
    OBVIOUS
  <1> QED
    BY <1>1

LEMMA NotBoth ==
    ASSUME NEW x, NEW n \in Nat, NEW b \in 0..9, x = 10 * n + b, x < 100, 10 * n + b >= 100
    PROVE  FALSE
  <1>1. x \in Nat
    OBVIOUS
  <1> QED
    BY <1>1

\* parseLimit clamps exactly the numbers above the largest page, by length and
\* by the first two digits.
LEMMA LimitExact ==
    ASSUME NEW digits \in Seq(0..9)
    PROVE  ParseLimit(digits) = IF Number(digits) > MaxLimit THEN MaxLimit ELSE Number(digits)
  <1> DEFINE e == Normalized(digits)
             L == Len(e)
  <1>1. /\ e \in Seq(0..9) /\ L \in Nat \ {0}
        /\ L > 1 => e[1] # 0
    BY NormalizedDigits
  <1>2. Number(e) = Number(digits) /\ Number(digits) \in Nat
    BY NormalizedNumber
  <1>3. ParseLimit(digits) =
           IF L > 2 \/ (L = 2 /\ (e[1] > 5 \/ (e[1] = 5 /\ e[2] > 0))) THEN MaxLimit ELSE Number(e)
    BY DEF ParseLimit
  <1> HIDE DEF e
  <1>4. PICK f \in [0..L -> Nat] : Prefixes(f, e, L) /\ Number(e) = f[L]
    BY <1>1, NumberByPrefixes
  <1>5. \A i \in 1..L : e[i] \in 0..9 /\ f[i] \in Nat
    BY <1>1, <1>4
  <1>6. f[0] = 0 /\ \A i \in 1..L : f[i] = 10 * f[i - 1] + e[i]
    BY <1>4 DEF Prefixes
  <1> HIDE DEF L
  <1>7. 1 \in 1..L /\ f[1] = e[1]
    <2>1. 1 \in 1..L
      BY <1>1
    <2>2. f[1] = 10 * f[1 - 1] + e[1]
      BY <1>6, <2>1
    <2> QED
      BY <1>5, <1>6, <2>1, <2>2
  <1>8. ASSUME L > 1 PROVE 2 \in 1..L /\ f[2] = 10 * e[1] + e[2]
    <2>1. 2 \in 1..L /\ 2 - 1 = 1
      BY <1>1, <1>8
    <2>2. f[2] = 10 * f[2 - 1] + e[2]
      BY <1>6, <2>1
    <2> QED
      BY <1>7, <2>1, <2>2
  <1>9. CASE L = 1
    BY <1>2, <1>3, <1>4, <1>5, <1>7, <1>9 DEF MaxLimit
  <1>10. CASE L = 2
    <2>1. e[1] \in 0..9 /\ e[2] \in 0..9 /\ Number(e) = 10 * e[1] + e[2]
      BY <1>4, <1>5, <1>7, <1>8, <1>10
    <2>2. 10 * e[1] + e[2] > 50 <=> e[1] > 5 \/ (e[1] = 5 /\ e[2] > 0)
      BY <2>1, TwoDigits
    <2>3. Number(e) > 50 <=> e[1] > 5 \/ (e[1] = 5 /\ e[2] > 0)
      <3> HIDE DEF e
      <3> QED
        BY <2>1, <2>2
    <2> QED
      BY <1>2, <1>3, <1>10, <2>3 DEF MaxLimit
  <1>11. CASE L > 2
    <2> DEFINE Small == {i \in 3..L : f[i] < 100}
    <2>1. Small = {}
      <3> SUFFICES ASSUME Small # {} PROVE FALSE
        OBVIOUS
      <3>1. PICK i \in Small : \A j \in Small : i <= j
        <4>1. Small \in SUBSET Nat
          BY <1>1
        <4> QED
          BY <4>1, LeastExists
      <3>2. i \in 3..L /\ i \in 1..L /\ i - 1 \in 1..L /\ i \in Int
        BY <1>1
      <3>3. f[i] = 10 * f[i - 1] + e[i] /\ e[i] \in 0..9 /\ f[i - 1] \in Nat
        BY <1>5, <1>6, <3>2
      <3>4. f[i] < 100
        BY <3>1
      <3>5. CASE i = 3
        <4>1. f[2] = 10 * e[1] + e[2] /\ e[1] \in 0..9 /\ e[1] # 0 /\ e[2] \in 0..9
          BY <1>1, <1>5, <1>7, <1>8, <1>11
        <4>2. i - 1 = 2 /\ e[i] \in 0..9
          BY <3>3, <3>5
        <4>3. 10 * e[1] + e[2] >= 10 /\ 10 * e[1] + e[2] \in Nat
          BY <4>1, LeadingDigit
        <4>4. f[2] >= 10 /\ f[2] \in Nat
          <5> HIDE DEF e
          <5> QED
            BY <4>1, <4>3
        <4>5. 10 * f[2] + e[i] >= 100
          BY <4>2, <4>4, LongerPrefix
        <4>6. f[i - 1] = f[2]
          BY <4>2
        <4> QED
          BY <3>3, <3>4, <4>5, <4>6, NotBoth
      <3>6. CASE i # 3
        <4>1. i - 1 \in 3..L /\ ~(i <= i - 1)
          BY <1>1, <3>2, <3>6
        <4>2. ~(f[i - 1] < 100)
          BY <3>1, <4>1
        <4>3. f[i - 1] >= 10
          BY <3>3, <4>2
        <4>4. 10 * f[i - 1] + e[i] >= 100
          BY <3>3, <4>3, LongerPrefix
        <4> QED
          BY <3>3, <3>4, <4>4, NotBoth
      <3> QED
        BY <3>5, <3>6
    <2>2. L \in 3..L /\ L \in 1..L
      BY <1>1, <1>11
    <2>3. ~(f[L] < 100) /\ f[L] \in Nat
      BY <1>5, <2>1, <2>2
    <2> QED
      BY <1>2, <1>3, <1>4, <1>11, <2>3 DEF MaxLimit
  <1> QED
    BY <1>1, <1>9, <1>10, <1>11

------------------------------------------------------------------------------
(* The inductive invariant                                                   *)

\* CheckSingletons finds nothing.
SingletonsSound ==
    \A n \in DOMAIN Singletons :
        /\ Cardinality(Values(Singletons[n])) <= 1
        /\ \A i \in Values(Singletons[n]) : raw[i].utf8

Accepted == response.kind \in {"caps", "execute"}

\* Every check that comes before a stage has passed there, and before an
\* accepted response.
ChecksPassed ==
    /\ stage \in {"syntax", "singletons", "operation", "parameters"} \/ Accepted => Authenticated
    /\ stage \in {"singletons", "operation", "parameters"} \/ Accepted =>
          \A i \in DOMAIN raw : ~Malformed(raw[i])
    /\ stage \in {"operation", "parameters"} \/ Accepted => SingletonsSound
    /\ stage = "parameters" => First("t").value \in {"search", "tvsearch"}
    /\ response.kind = "execute" => Unparsable = {}

\* Until the handler is done it has written and logged nothing.
SilentUntilDone ==
    /\ stage \notin {"route", "done"} => path = "/api" /\ get
    /\ stage # "done" => log = << >> /\ sent = Nothing

\* What stopForContext is called for; rendering fails under an ended context
\* only, which stopForContext then finds.
StopsSound ==
    /\ point = "executed" => result \in {"feed", "failed", "q", "season", "ep"}
    /\ point = "render_failed" =>
          /\ ctx # "live" /\ stage \in {"stopping", "rereading", "done"}
          /\ stage = "rereading" => ctx = "expired"

IInv ==
    /\ TypeOK /\ ChecksPassed /\ SilentUntilDone /\ StopsSound
    /\ BlameIsReal /\ LogTellsTheReply

LEMMA InitEstablishes == Init => IInv
  <1> SUFFICES ASSUME Init PROVE IInv
    OBVIOUS
  <1>1. /\ path \in {"/api", "/healthz", "other"} /\ get \in BOOLEAN
        /\ stage = "route" /\ response.kind = "none" /\ ctx = "live" /\ point = None
        /\ sent = Nothing /\ log = << >>
    BY DEF Init, NoReply, Reply
  <1>2. TypeOK
    <2>1. raw \in Seq(Field)
      <3>1. << >> \in Seq(Field)
        OBVIOUS
      <3> QED
        BY <3>1, HttpBoundaryAssumption DEF Init
    <2>2. response \in Replies
      BY DEF Init, NoReply, Reply, Replies
    <2>3. sent \in [status : Nat, body : Bodies, whole : BOOLEAN]
      BY DEF Init, Nothing, Sent, Bodies
    <2>4. log \in Seq([outcome : Outcomes, status : Nat])
      BY <1>1
    <2> QED
      BY <1>1, <2>1, <2>2, <2>3, <2>4 DEF Init, TypeOK
  <1>3. ChecksPassed
    BY <1>1 DEF ChecksPassed, Accepted
  <1>4. SilentUntilDone /\ StopsSound
    BY <1>1, HttpBoundaryAssumption DEF SilentUntilDone, StopsSound
  <1>5. BlameIsReal /\ LogTellsTheReply
    BY <1>1 DEF BlameIsReal, LogTellsTheReply
  <1> QED
    BY <1>2, <1>3, <1>4, <1>5 DEF IInv

------------------------------------------------------------------------------
(* Writing and logging                                                       *)

\* What a write records agrees with what was sent, if the outcome planned for
\* it does.
LEMMA WriteTells ==
    ASSUME path = "/api", get = TRUE, log = << >>, UNCHANGED <<request, ctx>>,
           NEW body \in Bodies, NEW outcome \in Outcomes, Write(200, body, outcome, 200),
           outcome \notin {"cancelled", "write_failed"},
           outcome = "deadline_exceeded" => ctx = "expired",
           outcome = "success" <=> body \in {"feed", "caps"}
    PROVE  /\ LogTellsTheReply' /\ stage' = "done"
           /\ sent' \in [status : Nat, body : Bodies, whole : BOOLEAN]
           /\ log' \in Seq([outcome : Outcomes, status : Nat])
  <1>1. PICK whole \in BOOLEAN :
           /\ sent' = Sent(200, body, whole)
           /\ log' = Append(log, [outcome |-> IF whole THEN outcome ELSE "write_failed",
                                  status |-> 200])
           /\ stage' = "done"
    BY DEF Write
  <1> DEFINE record == [outcome |-> IF whole THEN outcome ELSE "write_failed", status |-> 200]
  <1>2. record \in [outcome : Outcomes, status : Nat]
    BY DEF Outcomes
  <1>3. log' = <<record>>
    BY <1>1
  <1>4. Len(log') = 1 /\ log'[1] = record
    BY <1>3
  <1>5. log' \in Seq([outcome : Outcomes, status : Nat])
    BY <1>2, <1>3
  <1>6. sent'.status = 200 /\ sent'.body = body /\ sent'.whole = whole /\ sent' # Nothing
    <2>1. sent'.status = 200 /\ sent'.body = body /\ sent'.whole = whole
      BY <1>1 DEF Sent
    <2>2. Nothing.status = 0
      BY DEF Nothing, Sent
    <2> QED
      BY <2>1, <2>2
  <1>7. sent' \in [status : Nat, body : Bodies, whole : BOOLEAN]
    BY <1>1 DEF Sent
  <1>8. record.status = 200 /\ record.outcome = IF whole THEN outcome ELSE "write_failed"
    OBVIOUS
  <1> HIDE DEF record
  <1>9. path' = "/api" /\ get' = TRUE /\ ctx' = ctx
    BY DEF request
  <1>10. LogTellsTheReply'
    <2>1. record.status = IF sent' = Nothing THEN 499 ELSE sent'.status
      BY <1>6, <1>8
    <2>2. record.status # 500
      BY <1>8
    <2>3. record.outcome # "cancelled" /\ (record.outcome = "deadline_exceeded" => ctx' = "expired")
      BY <1>8, <1>9
    <2>4. record.outcome = "write_failed" <=> ~sent'.whole
      BY <1>6, <1>8
    <2>5. record.outcome = "success" <=> sent'.whole /\ sent'.body \in {"feed", "caps"}
      BY <1>6, <1>8
    <2>6. (sent = Nothing)' <=> sent' = Nothing
      BY DEF Nothing, Sent
    <2> QED
      BY <1>1, <1>4, <1>6, <1>9, <2>1, <2>2, <2>3, <2>4, <2>5, <2>6 DEF LogTellsTheReply
  <1> QED
    BY <1>1, <1>5, <1>7, <1>10

\* A protocol error with a canonical parameter can be rendered.
LEMMA CompleteTells ==
    ASSUME path = "/api", get = TRUE, log = << >>, UNCHANGED <<request, ctx>>,
           NEW kind \in Bodies, NEW parameter \in Known, NEW outcome \in Outcomes,
           Complete(Reply(kind, parameter), outcome),
           kind \notin {"feed", "caps"}, outcome \notin {"cancelled", "write_failed", "success"},
           outcome = "deadline_exceeded" => ctx = "expired"
    PROVE  /\ LogTellsTheReply' /\ stage' = "done"
           /\ sent' \in [status : Nat, body : Bodies, whole : BOOLEAN]
           /\ log' \in Seq([outcome : Outcomes, status : Nat])
  <1>1. Renderable(Reply(kind, parameter)) /\ Reply(kind, parameter).kind = kind
    BY DEF Renderable, Reply
  <1>2. Write(200, kind, outcome, 200)
    BY <1>1 DEF Complete
  <1> QED
    BY <1>2, WriteTells

\* An error found before Execute ends the handler; the invariant then rests on
\* the blame.
LEMMA AnswerStep ==
    ASSUME IInv, stage \in {"authenticate", "syntax", "singletons", "operation", "parameters"},
           NEW kind \in Errors, NEW parameter \in Known, Answer(Reply(kind, parameter)),
           kind = "incorrect_parameter" =>
              \/ \E i \in Occurrences(parameter) :
                    \/ raw[i].semicolon \/ ~raw[i].valueOk \/ ~raw[i].utf8
                    \/ raw[i].value \in {"", "bad"}
                    \/ parameter = "offset" /\ Number(raw[i].digits) > MaxOffset
              \/ Cardinality(Occurrences(parameter)) > 1
              \/ /\ parameter = "t"
                 /\ \E i \in DOMAIN raw : Malformed(raw[i])
                 /\ \A i \in DOMAIN raw :
                       Malformed(raw[i]) => ~raw[i].nameOk \/ raw[i].name \notin Known
    PROVE  IInv'
  <1>1. /\ path = "/api" /\ get /\ log = << >>
        /\ TypeOK /\ StopsSound
    BY DEF IInv, SilentUntilDone
  <1>2. /\ response' = Reply(kind, parameter)
        /\ Complete(Reply(kind, parameter), OutcomeOf(kind))
        /\ UNCHANGED <<request, ctx, result, point>>
    BY DEF Answer, Reply
  <1>3. kind \in Bodies /\ kind \notin {"feed", "caps"}
    BY DEF Errors, Bodies
  <1>4. OutcomeOf(kind) \in {"authentication_failed", "unsupported_operation", "invalid_request"}
    BY DEF OutcomeOf, Errors
  <1>5. /\ LogTellsTheReply' /\ stage' = "done"
        /\ sent' \in [status : Nat, body : Bodies, whole : BOOLEAN]
        /\ log' \in Seq([outcome : Outcomes, status : Nat])
    <2>1. get = TRUE
      BY <1>1 DEF TypeOK
    <2>2. OutcomeOf(kind) \in Outcomes
      BY <1>4 DEF Outcomes
    <2> QED
      BY <1>1, <1>2, <1>3, <1>4, <2>1, <2>2, CompleteTells
  <1>6. response'.kind = kind /\ response'.parameter = parameter
    BY <1>2 DEF Reply
  <1>7. TypeOK'
    <2>1. response' \in Replies
      BY <1>2 DEF Reply, Replies
    <2> QED
      BY <1>1, <1>2, <1>5, <2>1 DEF TypeOK, request
  <1>8. ChecksPassed'
    <2>1. ~Accepted' /\ response'.kind # "execute"
      BY <1>6 DEF Accepted, Errors
    <2> QED
      BY <1>5, <2>1 DEF ChecksPassed
  <1>9. SilentUntilDone' /\ StopsSound'
    BY <1>1, <1>2, <1>5 DEF SilentUntilDone, StopsSound
  <1>10. BlameIsReal'
    BY <1>2, <1>6 DEF BlameIsReal, Occurrences, Malformed, request
  <1> QED
    BY <1>5, <1>7, <1>8, <1>9, <1>10 DEF IInv


------------------------------------------------------------------------------
(* The steps                                                                 *)

\* What is read from the query stays while the query does.
LEMMA SameQuery ==
    ASSUME UNCHANGED <<request, response>>
    PROVE  /\ Authenticated' = Authenticated /\ SingletonsSound' = SingletonsSound
           /\ (\A i \in DOMAIN raw : ~Malformed(raw[i]))' = (\A i \in DOMAIN raw : ~Malformed(raw[i]))
           /\ Unparsable' = Unparsable /\ Accepted' = Accepted /\ BlameIsReal' = BlameIsReal
           /\ First("t")' = First("t")
  <1>1. raw' = raw /\ response' = response
    BY DEF request
  <1>2. First("t")' = First("t")
    BY <1>1 DEF First, Values, Malformed
  <1>3. Authenticated' = Authenticated
    BY <1>1 DEF Authenticated, KeyFields
  <1>4. SingletonsSound' = SingletonsSound
    BY <1>1 DEF SingletonsSound, Values, Malformed
  <1>5. (\A i \in DOMAIN raw : ~Malformed(raw[i]))' = (\A i \in DOMAIN raw : ~Malformed(raw[i]))
    BY <1>1 DEF Malformed
  <1>6. Unparsable' = Unparsable
    BY <1>1 DEF Unparsable, Given, First, Values, Malformed
  <1>7. Accepted' = Accepted /\ BlameIsReal' = BlameIsReal
    BY <1>1 DEF Accepted, BlameIsReal, Occurrences, Malformed
  <1> QED
    BY <1>2, <1>3, <1>4, <1>5, <1>6, <1>7

\* A check that finds nothing lets the handler go on.
LEMMA ContinueStep ==
    ASSUME IInv, stage \in {"authenticate", "syntax", "singletons", "operation"},
           NEW next \in {"syntax", "singletons", "operation", "parameters"}, Continue(next),
           Authenticated,
           next # "syntax" => \A i \in DOMAIN raw : ~Malformed(raw[i]),
           next \in {"operation", "parameters"} => SingletonsSound,
           next = "parameters" => First("t").value \in {"search", "tvsearch"}
    PROVE  IInv'
  <1>1. /\ stage' = next /\ UNCHANGED <<request, response>>
        /\ UNCHANGED <<path, get, raw, response, ctx, result, point, sent, log>>
    BY DEF Continue, served, request
  <1>2. TypeOK'
    BY <1>1 DEF IInv, TypeOK
  <1>3. ChecksPassed'
    BY <1>1, SameQuery DEF IInv, ChecksPassed
  <1>4. SilentUntilDone' /\ StopsSound'
    BY <1>1 DEF IInv, SilentUntilDone, StopsSound, Nothing, Sent
  <1>5. BlameIsReal' /\ LogTellsTheReply'
    BY <1>1, SameQuery DEF IInv, LogTellsTheReply
  <1> QED
    BY <1>2, <1>3, <1>4, <1>5 DEF IInv

LEMMA RouteStep ==
    ASSUME IInv, Route
    PROVE  IInv'
  <1>1. /\ stage = "route" /\ UNCHANGED <<request, response>>
        /\ UNCHANGED <<path, get, raw, response, ctx, result, point, log>>
        /\ \/ path = "/api" /\ get /\ stage' = "authenticate" /\ sent' = sent
           \/ ~(path = "/api" /\ get) /\ stage' = "done"
    BY DEF Route, request
  <1>2. sent' \in [status : Nat, body : Bodies, whole : BOOLEAN]
    <2>1. CASE path = "/api" /\ get
      BY <2>1 DEF Route, IInv, TypeOK
    <2>2. CASE ~(path = "/api" /\ get)
      <3>1. CASE path = "other"
        <4>1. sent' = Sent(404, "not_found", TRUE)
          BY <2>2, <3>1, Zenon DEF Route
        <4> QED
          BY <4>1 DEF Sent, Bodies
      <3>2. CASE path # "other" /\ ~get
        <4>1. sent' = Sent(405, "not_allowed", TRUE)
          BY <2>2, <3>2, Zenon DEF Route
        <4> QED
          BY <4>1 DEF Sent, Bodies
      <3>3. CASE path # "other" /\ get
        <4>1. sent' = Sent(200, "ok", TRUE)
          BY <2>2, <3>3, Zenon DEF Route
        <4> QED
          BY <4>1 DEF Sent, Bodies
      <3> QED
        BY <3>1, <3>2, <3>3
    <2> QED
      BY <2>1, <2>2
  <1>3. TypeOK'
    BY <1>1, <1>2 DEF IInv, TypeOK
  <1>4. ChecksPassed'
    BY <1>1, SameQuery DEF IInv, ChecksPassed
  <1>5. SilentUntilDone' /\ StopsSound'
    BY <1>1 DEF IInv, SilentUntilDone, StopsSound, Nothing, Sent
  <1>6. BlameIsReal' /\ LogTellsTheReply'
    BY <1>1, SameQuery DEF IInv, LogTellsTheReply, SilentUntilDone
  <1> QED
    BY <1>3, <1>4, <1>5, <1>6 DEF IInv

LEMMA AuthenticateStep ==
    ASSUME IInv, Authenticate
    PROVE  IInv'
  <1>1. stage = "authenticate"
    BY DEF Authenticate
  <1>2. CASE Authenticated
    <2>1. Continue("syntax")
      BY <1>2 DEF Authenticate
    <2> QED
      BY <1>1, <1>2, <2>1, ContinueStep
  <1>3. CASE ~Authenticated
    <2>1. Answer(Reply("incorrect_credentials", "apikey"))
      BY <1>3 DEF Authenticate
    <2>2. "incorrect_credentials" \in Errors /\ "apikey" \in Known
      BY DEF Errors, Known
    <2> QED
      BY <1>1, <2>1, <2>2, AnswerStep
  <1> QED
    BY <1>2, <1>3

\* The parameter that a malformed query is blamed on has a malformed field, or
\* no known one has.
LEMMA CheckSyntaxStep ==
    ASSUME IInv, CheckSyntax
    PROVE  IInv'
  <1>1. stage = "syntax" /\ TypeOK /\ Authenticated
    BY DEF CheckSyntax, IInv, ChecksPassed
  <1>2. CASE \A i \in DOMAIN raw : ~Malformed(raw[i])
    <2>1. Continue("singletons")
      BY <1>2 DEF CheckSyntax
    <2> QED
      BY <1>1, <1>2, <2>1, ContinueStep
  <1>3. CASE \E i \in DOMAIN raw : Malformed(raw[i])
    <2> DEFINE blamed == {i \in DOMAIN raw :
                             raw[i].nameOk /\ raw[i].name \in Known /\ Malformed(raw[i])}
    <2>1. Answer(Reply("incorrect_parameter", MalformedParameter))
      BY <1>3 DEF CheckSyntax
    <2>2. "incorrect_parameter" \in Errors /\ "t" \in Known
      BY DEF Errors, Known
    <2>3. CASE blamed = {}
      <3>1. MalformedParameter = "t"
        BY <2>3 DEF MalformedParameter
      <3>2. \A i \in DOMAIN raw : Malformed(raw[i]) => ~raw[i].nameOk \/ raw[i].name \notin Known
        BY <2>3
      <3> HIDE DEF blamed
      <3>3. Answer(Reply("incorrect_parameter", "t"))
        BY <2>1, <3>1
      <3> QED
        BY <1>1, <1>3, <2>2, <3>2, <3>3, AnswerStep
    <2>4. CASE blamed # {}
      <3>1. MalformedParameter = raw[Min(blamed)].name
        BY <2>4 DEF MalformedParameter
      <3>2. blamed \in SUBSET Nat
        BY <1>1, RawFields
      <3>3. Min(blamed) \in blamed
        BY <2>4, <3>2, MinIsFirst
      <3>4. PICK i \in DOMAIN raw :
               /\ raw[i].nameOk /\ raw[i].name \in Known /\ Malformed(raw[i])
               /\ MalformedParameter = raw[i].name
        BY <3>1, <3>3
      <3>5. MalformedParameter \in Known /\ i \in Occurrences(MalformedParameter)
            /\ (raw[i].semicolon \/ ~raw[i].valueOk)
        BY <3>4 DEF Occurrences, Malformed
      <3> HIDE DEF blamed
      <3> DEFINE parameter == MalformedParameter
      <3>6. /\ parameter \in Known /\ i \in Occurrences(parameter)
            /\ (raw[i].semicolon \/ ~raw[i].valueOk)
            /\ Answer(Reply("incorrect_parameter", parameter))
        BY <2>1, <3>5
      <3> HIDE DEF parameter
      <3> QED
        BY <1>1, <2>2, <3>6, AnswerStep
    <2> QED
      BY <2>3, <2>4
  <1> QED
    BY <1>2, <1>3

LEMMA CheckSingletonsStep ==
    ASSUME IInv, CheckSingletons
    PROVE  IInv'
  <1> DEFINE offending == {n \in DOMAIN Singletons :
                 \/ Cardinality(Values(Singletons[n])) > 1
                 \/ \E i \in Values(Singletons[n]) : ~raw[i].utf8}
  <1>1. /\ stage = "singletons" /\ TypeOK /\ Authenticated
        /\ \A i \in DOMAIN raw : ~Malformed(raw[i])
    BY DEF CheckSingletons, IInv, ChecksPassed
  <1>2. CASE offending = {}
    <2>1. Continue("operation")
      BY <1>2 DEF CheckSingletons
    <2>2. SingletonsSound
      <3>1. ASSUME NEW n \in DOMAIN Singletons
            PROVE  /\ Cardinality(Values(Singletons[n])) <= 1
                   /\ \A i \in Values(Singletons[n]) : raw[i].utf8
        <4>1. /\ ~(Cardinality(Values(Singletons[n])) > 1)
              /\ ~\E i \in Values(Singletons[n]) : ~raw[i].utf8
          BY <1>2
        <4>2. Cardinality(Values(Singletons[n])) \in Nat
          BY <1>1, ValuesOccur
        <4> QED
          BY <4>1, <4>2
      <3> QED
        BY <3>1 DEF SingletonsSound
    <2> HIDE DEF offending
    <2> QED
      BY <1>1, <2>1, <2>2, ContinueStep
  <1>3. CASE offending # {}
    <2> DEFINE n         == Min(offending)
               parameter == Singletons[n]
    <2>1. Answer(Reply("incorrect_parameter", parameter))
      BY <1>3 DEF CheckSingletons
    <2>2. n \in offending
      <3>1. offending \in SUBSET Nat
        BY Orders
      <3> HIDE DEF offending
      <3> QED
        BY <1>3, <3>1, MinIsFirst
    <2>3. /\ n \in DOMAIN Singletons
          /\ \/ Cardinality(Values(parameter)) > 1
             \/ \E i \in Values(parameter) : ~raw[i].utf8
      BY <2>2
    <2> HIDE DEF n, offending
    <2>4. parameter \in Known
      BY <2>3, Orders
    <2> HIDE DEF parameter
    <2>5. \/ Cardinality(Occurrences(parameter)) > 1
          \/ \E i \in Occurrences(parameter) : ~raw[i].utf8
      <3>1. /\ Values(parameter) \subseteq Occurrences(parameter)
            /\ Cardinality(Values(parameter)) <= Cardinality(Occurrences(parameter))
            /\ Cardinality(Values(parameter)) \in Nat /\ Cardinality(Occurrences(parameter)) \in Nat
        BY <1>1, ValuesOccur
      <3> QED
        BY <2>3, <3>1
    <2>6. "incorrect_parameter" \in Errors
      BY DEF Errors
    <2> QED
      BY <1>1, <2>1, <2>4, <2>5, <2>6, AnswerStep
  <1> QED
    BY <1>2, <1>3

\* A request is accepted once every check before has passed.
LEMMA AcceptStep ==
    ASSUME IInv, stage \in {"operation", "parameters"}, NEW kind \in {"caps", "execute"},
           NEW parameter \in {"", "search", "tvsearch"}, response' = Reply(kind, parameter),
           UNCHANGED <<request, ctx, result, sent, log>>,
           \/ kind = "caps" /\ Stop("caps")
           \/ kind = "execute" /\ stage' = "executing" /\ point' = point /\ Unparsable = {}
    PROVE  IInv'
  <1>1. /\ UNCHANGED <<path, get, raw, ctx, result, sent, log>>
        /\ stage' \in {"stopping", "executing"}
        /\ point' = point \/ (point' = "caps" /\ stage' = "stopping")
    BY DEF request, Stop
  <1>2. response' \in Replies /\ response'.kind = kind
    <2>1. [kind |-> kind, parameter |-> parameter] \in Replies
      BY DEF Replies
    <2> QED
      BY <2>1 DEF Reply
  <1>3. TypeOK'
    BY <1>1, <1>2, ZenonT(60) DEF IInv, TypeOK
  <1>4. ChecksPassed'
    <2>1. /\ Authenticated' = Authenticated /\ SingletonsSound' = SingletonsSound
          /\ (\A i \in DOMAIN raw : ~Malformed(raw[i]))'
                = (\A i \in DOMAIN raw : ~Malformed(raw[i]))
      BY <1>1 DEF Authenticated, KeyFields, SingletonsSound, Values, Malformed
    <2>2. Unparsable' = Unparsable
      BY <1>1 DEF Unparsable, Given, First, Values, Malformed
    <2>3. Authenticated /\ SingletonsSound /\ \A i \in DOMAIN raw : ~Malformed(raw[i])
      BY DEF IInv, ChecksPassed
    <2>4. response'.kind = "execute" => Unparsable = {}
      BY <1>2
    <2> QED
      BY <1>1, <2>1, <2>2, <2>3, <2>4 DEF ChecksPassed
  <1>5. SilentUntilDone' /\ StopsSound'
    BY <1>1 DEF IInv, SilentUntilDone, StopsSound, Nothing, Sent
  <1>6. BlameIsReal' /\ LogTellsTheReply'
    BY <1>1, <1>2 DEF BlameIsReal, LogTellsTheReply
  <1> QED
    BY <1>3, <1>4, <1>5, <1>6 DEF IInv

LEMMA SelectOperationStep ==
    ASSUME IInv, SelectOperation
    PROVE  IInv'
  <1>1. /\ stage = "operation" /\ TypeOK /\ Authenticated /\ SingletonsSound
        /\ \A i \in DOMAIN raw : ~Malformed(raw[i])
    BY DEF SelectOperation, IInv, ChecksPassed
  <1>2. Errors = {"incorrect_credentials", "missing_parameter", "incorrect_parameter",
                  "no_such_function", "function_unavailable"}
    BY DEF Errors
  <1>3. "t" \in Known
    BY DEF Known
  <1>4. CASE ~Given("t")
    <2>1. Answer(Reply("missing_parameter", "t"))
      BY <1>4, Zenon DEF SelectOperation
    <2> QED
      BY <1>1, <1>2, <1>3, <2>1, AnswerStep
  <1>5. CASE Given("t") /\ First("t").value = ""
    <2>1. Answer(Reply("incorrect_parameter", "t"))
      BY <1>5, Zenon DEF SelectOperation
    <2>2. \E i \in Occurrences("t") : raw[i].value = ""
      BY <1>1, <1>5, ValuesOccur
    <2> QED
      BY <1>1, <1>2, <1>3, <2>1, <2>2, AnswerStep
  <1>6. CASE Given("t") /\ First("t").value = "caps"
    <2>1. First("t").value # ""
      BY <1>6
    <2>2. Stop("caps") /\ response' = Reply("caps", "") /\ UNCHANGED <<request, ctx, result, sent, log>>
      BY <1>6, <2>1, Zenon DEF SelectOperation
    <2> QED
      BY <1>1, <2>2, AcceptStep
  <1>7. CASE Given("t") /\ First("t").value \in {"search", "tvsearch"}
    <2>1. First("t").value # "" /\ First("t").value # "caps"
      BY <1>7
    <2>2. Continue("parameters")
      BY <1>7, <2>1, Zenon DEF SelectOperation
    <2> QED
      BY <1>1, <1>7, <2>2, ContinueStep
  <1>8. CASE Given("t") /\ First("t").value \notin {"", "caps", "search", "tvsearch"}
    <2> DEFINE kind == IF First("t").value \in Unavailable
                       THEN "function_unavailable" ELSE "no_such_function"
    <2>1. First("t").value # "" /\ First("t").value # "caps"
          /\ First("t").value \notin {"search", "tvsearch"}
      BY <1>8
    <2>2. Answer(Reply(kind, "t"))
      BY <1>8, <2>1, Zenon DEF SelectOperation
    <2>3. kind \in Errors /\ kind # "incorrect_parameter"
      BY <1>2
    <2> HIDE DEF kind
    <2> QED
      BY <1>1, <1>3, <2>2, <2>3, AnswerStep
  <1> QED
    BY <1>4, <1>5, <1>6, <1>7, <1>8

\* What does not parse is bad, or an offset that the register does not hold.
LEMMA CheckParametersStep ==
    ASSUME IInv, CheckParameters
    PROVE  IInv'
  <1>1. /\ stage = "parameters" /\ TypeOK /\ Authenticated /\ SingletonsSound
        /\ First("t").value \in {"search", "tvsearch"}
        /\ \A i \in DOMAIN raw : ~Malformed(raw[i])
    BY DEF CheckParameters, IInv, ChecksPassed
  <1>2. Errors = {"incorrect_credentials", "missing_parameter", "incorrect_parameter",
                  "no_such_function", "function_unavailable"}
    BY DEF Errors
  <1> DEFINE value   == First("t").value
             lacking == value = "tvsearch" /\ ~Given("q")
             refused == (value = "search" \/ Given("q")) /\ Unparsable # {}
  <1>3. CASE lacking
    <2>1. ~refused
      BY <1>3
    <2>2. Answer(Reply("missing_parameter", "q"))
      BY <1>3, <2>1, Zenon DEF CheckParameters
    <2>3. "q" \in Known
      BY DEF Known
    <2> HIDE DEF value, lacking, refused
    <2> QED
      BY <1>1, <1>2, <2>2, <2>3, AnswerStep
  <1>4. CASE refused
    <2> DEFINE n         == Min(Unparsable)
               parameter == Parsed[n]
    <2>1. ~lacking
      BY <1>4
    <2>2. Answer(Reply("incorrect_parameter", parameter)) /\ Unparsable # {}
      BY <1>4, <2>1, Zenon DEF CheckParameters
    <2>3. n \in Unparsable
      <3>1. Unparsable \in SUBSET Nat
        BY Orders DEF Unparsable
      <3> QED
        BY <2>2, <3>1, MinIsFirst
    <2>4. /\ n \in DOMAIN Parsed /\ Given(parameter)
          /\ \/ First(parameter).value = "bad"
             \/ parameter = "offset" /\ ~OffsetParses(First(parameter).digits)
      <3> HIDE DEF n
      <3> QED
        BY <2>3 DEF Unparsable
    <2> HIDE DEF value, lacking, refused, n
    <2>5. parameter \in Known
      BY <2>4, Orders
    <2> HIDE DEF parameter
    <2>6. PICK i \in Occurrences(parameter) : i \in DOMAIN raw /\ First(parameter) = raw[i]
      BY <1>1, <2>4, ValuesOccur
    <2>7. \/ raw[i].value = "bad"
          \/ parameter = "offset" /\ Number(raw[i].digits) > MaxOffset
      <3>1. CASE First(parameter).value = "bad"
        BY <2>6, <3>1
      <3>2. CASE parameter = "offset" /\ ~OffsetParses(First(parameter).digits)
        <4>1. raw[i].digits \in Seq(0..9)
          BY <1>1, <2>6, RawFields
        <4>2. /\ Number(Normalized(raw[i].digits)) = Number(raw[i].digits)
              /\ Number(raw[i].digits) \in Nat
          BY <4>1, NormalizedNumber
        <4>3. ~(Number(raw[i].digits) <= MaxOffset)
          BY <2>6, <3>2, <4>2 DEF OffsetParses
        <4> QED
          BY <3>2, <4>2, <4>3, HttpBoundaryAssumption
      <3> QED
        BY <2>4, <3>1, <3>2
    <2> QED
      BY <1>1, <1>2, <2>2, <2>5, <2>6, <2>7, AnswerStep
  <1>5. CASE ~lacking /\ ~refused
    <2>1. /\ stage' = "executing" /\ response' = Reply("execute", value)
          /\ UNCHANGED <<request, served>>
      BY <1>5, Zenon DEF CheckParameters
    <2>2. UNCHANGED <<request, ctx, result, sent, log>> /\ point' = point
      BY <2>1 DEF served
    <2>3. value \in {"search", "tvsearch"}
      BY <1>1
    <2>4. Unparsable = {}
      BY <1>5, <2>3
    <2> HIDE DEF value, lacking, refused
    <2> QED
      BY <1>1, <2>1, <2>2, <2>3, <2>4, AcceptStep
  <1> QED
    BY <1>3, <1>4, <1>5

Late == {"executing", "stopping", "rereading", "stopped", "rendering", "done"}

\* Later steps leave what was checked alone.
LEMMA LateStep ==
    ASSUME IInv, UNCHANGED <<request, response>>, stage' = stage \/ stage' \in Late,
           TypeOK', SilentUntilDone', StopsSound', LogTellsTheReply'
    PROVE  IInv'
  <1>1. ChecksPassed'
    BY SameQuery DEF IInv, ChecksPassed, Late
  <1>2. BlameIsReal'
    BY SameQuery DEF IInv
  <1> QED
    BY <1>1, <1>2 DEF IInv

\* A later step that is not the last writes and logs nothing.
LEMMA QuietStep ==
    ASSUME IInv, UNCHANGED <<request, response, sent, log>>, stage \notin {"route", "done"},
           stage' = stage \/ (stage' \in Late /\ stage' # "done"),
           ctx' \in {"live", "canceled", "expired"},
           result' \in {None, "feed", "failed", "q", "season", "ep"},
           point' \in {None, "caps", "executed", "rendered", "render_failed"},
           StopsSound'
    PROVE  IInv'
  <1>1. UNCHANGED <<path, get, raw, response, sent, log>>
    BY DEF request
  <1>2. TypeOK'
    <2>1. stage' \in {"route", "authenticate", "syntax", "singletons", "operation", "parameters",
                      "executing", "stopping", "rereading", "stopped", "rendering", "done"}
      BY DEF IInv, TypeOK, Late
    <2> QED
      BY <1>1, <2>1 DEF IInv, TypeOK
  <1>3. SilentUntilDone'
    BY <1>1 DEF IInv, SilentUntilDone, Nothing, Sent
  <1>4. LogTellsTheReply'
    <2>1. stage' # "done"
      OBVIOUS
    <2> QED
      BY <2>1 DEF LogTellsTheReply
  <1> QED
    BY <1>2, <1>3, <1>4, LateStep

\* A later step that ends the handler.
LEMMA LastStep ==
    ASSUME IInv, UNCHANGED <<request, response, ctx, result, point>>, stage' = "done",
           sent' \in [status : Nat, body : Bodies, whole : BOOLEAN],
           log' \in Seq([outcome : Outcomes, status : Nat]), LogTellsTheReply'
    PROVE  IInv'
  <1>1. UNCHANGED <<path, get, raw>>
    BY DEF request
  <1>2. TypeOK'
    BY <1>1 DEF IInv, TypeOK
  <1>3. SilentUntilDone'
    BY DEF SilentUntilDone
  <1>4. StopsSound'
    BY DEF IInv, StopsSound
  <1> QED
    BY <1>2, <1>3, <1>4, LateStep DEF Late

LEMMA ExecuteReturnsStep ==
    ASSUME IInv, ExecuteReturns
    PROVE  IInv'
  <1>1. /\ stage = "executing" /\ stage' = "stopping" /\ point' = "executed"
        /\ result' \in {"feed", "failed", "q", "season", "ep"}
        /\ UNCHANGED <<request, response, ctx, sent, log>>
    BY DEF ExecuteReturns, Stop
  <1>2. StopsSound'
    BY <1>1 DEF StopsSound
  <1> QED
    BY <1>1, <1>2, QuietStep DEF IInv, TypeOK, Late

\* Nothing is written to a client that has gone, and the record says so.
LEMMA StopIfCanceledStep ==
    ASSUME IInv, StopIfCanceled
    PROVE  IInv'
  <1>1. /\ stage = "stopping"
        /\ UNCHANGED <<request, response, ctx, result, point, sent>>
        /\ path = "/api" /\ get = TRUE /\ log = << >> /\ sent = Nothing
    BY DEF StopIfCanceled, IInv, SilentUntilDone, TypeOK
  <1>2. CASE ctx = "canceled"
    <2> DEFINE record == [outcome |-> "cancelled", status |-> 499]
    <2>1. stage' = "done" /\ log' = Append(log, record)
      BY <1>2 DEF StopIfCanceled
    <2>2. record \in [outcome : Outcomes, status : Nat]
      BY DEF Outcomes
    <2>3. record.outcome = "cancelled" /\ record.status = 499
      OBVIOUS
    <2> HIDE DEF record
    <2>4. log' = <<record>>
      BY <1>1, <2>1
    <2>5. Len(log') = 1 /\ log'[1] = record /\ log' \in Seq([outcome : Outcomes, status : Nat])
      BY <2>2, <2>4
    <2>6. sent'.whole = TRUE /\ sent'.body = "" /\ (sent = Nothing)'
      BY <1>1 DEF Nothing, Sent
    <2>7. path' = "/api" /\ get' = TRUE /\ ctx' = "canceled"
      BY <1>1, <1>2 DEF request
    <2>8. LogTellsTheReply'
      <3>1. record.status = IF (sent = Nothing)' THEN 499 ELSE sent'.status
        BY <2>3, <2>6
      <3>2. record.outcome = "cancelled" <=> (sent = Nothing)'
        BY <2>3, <2>6
      <3>3. record.outcome = "write_failed" <=> ~sent'.whole
        BY <2>3, <2>6
      <3>4. record.outcome = "success" <=> sent'.whole /\ sent'.body \in {"feed", "caps"}
        BY <2>3, <2>6
      <3>5. record.status # 500 /\ record.outcome # "deadline_exceeded"
        BY <2>3
      <3> QED
        BY <2>5, <2>7, <3>1, <3>2, <3>3, <3>4, <3>5 DEF LogTellsTheReply
    <2>9. sent' \in [status : Nat, body : Bodies, whole : BOOLEAN]
      BY <1>1 DEF IInv, TypeOK
    <2> QED
      BY <1>1, <2>1, <2>5, <2>8, <2>9, LastStep
  <1>3. CASE ctx # "canceled"
    <2>1. stage' = "rereading" /\ log' = log
      BY <1>3 DEF StopIfCanceled
    <2>2. StopsSound'
      BY <1>1, <1>3, <2>1 DEF IInv, StopsSound, TypeOK
    <2> QED
      BY <1>1, <2>1, <2>2, QuietStep DEF IInv, TypeOK, Late
  <1> QED
    BY <1>2, <1>3

LEMMA StopIfExpiredStep ==
    ASSUME IInv, StopIfExpired
    PROVE  IInv'
  <1>1. /\ stage = "rereading"
        /\ UNCHANGED <<request, response, ctx, result, point>>
        /\ path = "/api" /\ get = TRUE /\ log = << >>
    BY DEF StopIfExpired, IInv, SilentUntilDone, TypeOK
  <1>2. CASE ctx = "expired"
    <2>1. Complete(Reply("upstream_failed", "t"), "deadline_exceeded")
      BY <1>2 DEF StopIfExpired
    <2>2. "upstream_failed" \in Bodies /\ "t" \in Known /\ "deadline_exceeded" \in Outcomes
      BY DEF Bodies, Known, Outcomes
    <2>3. /\ LogTellsTheReply' /\ stage' = "done"
          /\ sent' \in [status : Nat, body : Bodies, whole : BOOLEAN]
          /\ log' \in Seq([outcome : Outcomes, status : Nat])
      BY <1>1, <1>2, <2>1, <2>2, CompleteTells
    <2> QED
      BY <1>1, <2>3, LastStep
  <1>3. CASE ctx # "expired"
    <2>1. stage' = "stopped" /\ UNCHANGED <<sent, log>>
      BY <1>3 DEF StopIfExpired
    <2>2. StopsSound'
      BY <1>1, <1>3, <2>1 DEF IInv, StopsSound
    <2> QED
      BY <1>1, <2>1, <2>2, QuietStep DEF IInv, TypeOK, Late
  <1> QED
    BY <1>2, <1>3

LEMMA AfterExecuteStep ==
    ASSUME IInv, AfterExecute
    PROVE  IInv'
  <1>1. /\ stage = "stopped" /\ point = "executed"
        /\ UNCHANGED <<request, response, ctx, result, point>>
        /\ path = "/api" /\ get = TRUE /\ log = << >>
        /\ result \in {"feed", "failed", "q", "season", "ep"}
    BY DEF AfterExecute, IInv, SilentUntilDone, StopsSound, TypeOK
  <1>2. /\ {"t", "q", "season", "ep"} \subseteq Known
        /\ {"upstream_failed", "incorrect_parameter"} \subseteq Bodies
        /\ {"upstream_failed", "invalid_request"} \subseteq Outcomes
    BY DEF Known, Bodies, Errors, Outcomes
  <1>3. CASE result = "feed"
    <2>1. stage' = "rendering" /\ UNCHANGED <<sent, log>>
      BY <1>3, Zenon DEF AfterExecute
    <2>2. StopsSound'
      BY <1>1, <2>1, HttpBoundaryAssumption DEF IInv, StopsSound
    <2> QED
      BY <1>1, <2>1, <2>2, QuietStep DEF IInv, TypeOK, Late
  <1>4. CASE result = "failed"
    <2>1. result # "feed"
      BY <1>4
    <2>2. Complete(Reply("upstream_failed", "t"), "upstream_failed")
      BY <1>4, <2>1, Zenon DEF AfterExecute
    <2>3. /\ LogTellsTheReply' /\ stage' = "done"
          /\ sent' \in [status : Nat, body : Bodies, whole : BOOLEAN]
          /\ log' \in Seq([outcome : Outcomes, status : Nat])
      BY <1>1, <1>2, <2>2, CompleteTells
    <2> QED
      BY <1>1, <2>3, LastStep
  <1>5. CASE result \in {"q", "season", "ep"}
    <2>1. result # "feed" /\ result # "failed"
      BY <1>5
    <2>2. Complete(Reply("incorrect_parameter", result), "invalid_request")
      BY <2>1, Zenon DEF AfterExecute
    <2>3. /\ LogTellsTheReply' /\ stage' = "done"
          /\ sent' \in [status : Nat, body : Bodies, whole : BOOLEAN]
          /\ log' \in Seq([outcome : Outcomes, status : Nat])
      BY <1>1, <1>2, <1>5, <2>2, CompleteTells
    <2> QED
      BY <1>1, <2>3, LastStep
  <1> QED
    BY <1>1, <1>3, <1>4, <1>5

LEMMA RenderStep ==
    ASSUME IInv, Render
    PROVE  IInv'
  <1>1. /\ stage = "rendering" /\ stage' = "stopping"
        /\ UNCHANGED <<request, response, ctx, result, sent, log>>
        /\ point' = "rendered" \/ (point' = "render_failed" /\ ctx # "live")
    BY DEF Render, Stop
  <1>2. StopsSound'
    BY <1>1 DEF StopsSound
  <1> QED
    BY <1>1, <1>2, QuietStep DEF IInv, TypeOK, Late

\* By now rendering has succeeded: an error of it is one that stopForContext
\* found the cause of.
LEMMA AfterRenderStep ==
    ASSUME IInv, AfterRender
    PROVE  IInv'
  <1> DEFINE body == IF point = "caps" THEN "caps" ELSE "feed"
  <1>1. /\ stage = "stopped" /\ point # "render_failed"
        /\ UNCHANGED <<request, response, ctx, result, point>>
        /\ path = "/api" /\ get = TRUE /\ log = << >>
    BY DEF AfterRender, IInv, SilentUntilDone, StopsSound, TypeOK
  <1>2. Write(200, body, "success", 200)
    BY <1>1 DEF AfterRender
  <1>3. body \in Bodies /\ body \in {"feed", "caps"} /\ "success" \in Outcomes
    BY DEF Bodies, Outcomes
  <1> HIDE DEF body
  <1>4. /\ LogTellsTheReply' /\ stage' = "done"
        /\ sent' \in [status : Nat, body : Bodies, whole : BOOLEAN]
        /\ log' \in Seq([outcome : Outcomes, status : Nat])
    BY <1>1, <1>2, <1>3, WriteTells
  <1> QED
    BY <1>1, <1>4, LastStep

LEMMA ContextEndsStep ==
    ASSUME IInv, NEW why \in {"canceled", "expired"}, ContextEnds(why)
    PROVE  IInv'
  <1>1. /\ stage \notin {"route", "done"} /\ ctx = "live" /\ ctx' = why
        /\ UNCHANGED <<request, stage, response, result, point, sent, log>>
    BY DEF ContextEnds
  <1>2. StopsSound'
    BY <1>1 DEF IInv, StopsSound
  <1> QED
    BY <1>1, <1>2, QuietStep DEF IInv, TypeOK

------------------------------------------------------------------------------
(* Theorems                                                                  *)

\* Whatever the queries, the key and the register, the handler goes through
\* its checks in their order, ends as it logs, and the invariant holds.
THEOREM RequestsHandled == Spec => []IInv
  <1>1. IInv /\ [Next]_vars => IInv'
    <2> SUFFICES ASSUME IInv, [Next]_vars PROVE IInv'
      OBVIOUS
    <2>1. CASE Route
      BY <2>1, RouteStep
    <2>2. CASE Authenticate
      BY <2>2, AuthenticateStep
    <2>3. CASE CheckSyntax
      BY <2>3, CheckSyntaxStep
    <2>4. CASE CheckSingletons
      BY <2>4, CheckSingletonsStep
    <2>5. CASE SelectOperation
      BY <2>5, SelectOperationStep
    <2>6. CASE CheckParameters
      BY <2>6, CheckParametersStep
    <2>7. CASE ExecuteReturns
      BY <2>7, ExecuteReturnsStep
    <2>8. CASE StopIfCanceled
      BY <2>8, StopIfCanceledStep
    <2>9. CASE StopIfExpired
      BY <2>9, StopIfExpiredStep
    <2>10. CASE AfterExecute
      BY <2>10, AfterExecuteStep
    <2>11. CASE Render
      BY <2>11, RenderStep
    <2>12. CASE AfterRender
      BY <2>12, AfterRenderStep
    <2>13. CASE \E why \in {"canceled", "expired"} : ContextEnds(why)
      BY <2>13, ContextEndsStep
    <2>14. CASE UNCHANGED vars
      <3>1. UNCHANGED <<path, get, raw, request, stage, response, ctx, result, point, sent, log>>
        BY <2>14 DEF vars, request, served
      <3>2. TypeOK'
        BY <3>1 DEF IInv, TypeOK
      <3>3. SilentUntilDone' /\ StopsSound'
        BY <3>1 DEF IInv, SilentUntilDone, StopsSound, Nothing, Sent
      <3>4. LogTellsTheReply'
        <4>1. LogTellsTheReply
          BY DEF IInv
        <4>2. (sent = Nothing)' = (sent = Nothing)
          BY <3>1 DEF Nothing, Sent
        <4> QED
          BY <3>1, <4>1, <4>2 DEF LogTellsTheReply
      <3> QED
        BY <3>1, <3>2, <3>3, <3>4, LateStep
    <2> QED
      BY <2>1, <2>2, <2>3, <2>4, <2>5, <2>6, <2>7, <2>8, <2>9, <2>10, <2>11, <2>12, <2>13,
         <2>14 DEF Next
  <1> QED
    BY InitEstablishes, <1>1, PTL DEF Spec

\* An error names a parameter that is at fault, and t stands only for faults
\* that no known parameter can be named for.
THEOREM BlameFalls == Spec => []BlameIsReal
  <1>1. IInv => BlameIsReal
    BY DEF IInv
  <1> QED
    BY RequestsHandled, <1>1, PTL

\* Each /api request leaves one completion record, and it says what the client
\* got; 500 is never the answer.
THEOREM RecordsTell == Spec => []LogTellsTheReply
  <1>1. IInv => LogTellsTheReply
    BY DEF IInv
  <1> QED
    BY RequestsHandled, <1>1, PTL

\* What is served has one reading: the loose look of rawAPIKey and the strict
\* one of ParseQuery saw the same fields.
THEOREM OneReading == Spec => []ServedUnambiguously
  <1>1. IInv => ServedUnambiguously
    <2> SUFFICES ASSUME IInv, response.kind \in {"caps", "execute"}
                 PROVE  /\ \A i \in DOMAIN raw : ~Malformed(raw[i])
                        /\ \A name \in Known : Cardinality(Occurrences(name)) <= 1
                        /\ \A name \in Known \ {"apikey"}, i \in DOMAIN raw :
                              raw[i].name = name => raw[i].utf8
      BY DEF ServedUnambiguously
    <2>1. Authenticated /\ SingletonsSound /\ \A i \in DOMAIN raw : ~Malformed(raw[i])
      BY DEF IInv, ChecksPassed, Accepted
    <2>2. ASSUME NEW name \in Known
          PROVE  Cardinality(Occurrences(name)) <= 1
      <3>1. CASE name = "apikey"
        <4>1. Occurrences(name) = KeyFields
          BY <3>1 DEF Occurrences, KeyFields
        <4>2. PICK i : KeyFields = {i}
          BY <2>1 DEF Authenticated
        <4>3. Cardinality({i}) = 1
          BY FS_Singleton
        <4> QED
          BY <4>1, <4>2, <4>3
      <3>2. CASE name # "apikey"
        <4>1. PICK n \in DOMAIN Singletons : Singletons[n] = name
          BY <3>2, Orders
        <4>2. Occurrences(name) = Values(name)
          BY <2>1 DEF Occurrences, Values, Malformed
        <4> QED
          BY <2>1, <4>1, <4>2 DEF SingletonsSound
      <3> QED
        BY <3>1, <3>2
    <2>3. ASSUME NEW name \in Known \ {"apikey"}, NEW i \in DOMAIN raw, raw[i].name = name
          PROVE  raw[i].utf8
      <3>1. PICK n \in DOMAIN Singletons : Singletons[n] = name
        BY Orders
      <3>2. i \in Values(name)
        BY <2>1, <2>3 DEF Values
      <3> QED
        BY <2>1, <3>1, <3>2 DEF SingletonsSound
    <2> QED
      BY <2>1, <2>2, <2>3
  <1> QED
    BY RequestsHandled, <1>1, PTL

\* A search is executed with the limit and the offset asked for: parseLimit's
\* comparison of strings clamps exactly the numbers above the largest page,
\* and an offset that was not refused is not reduced.
THEOREM NumbersAreExact == Spec => []PagingIsExact
  <1>1. IInv => PagingIsExact
    <2> SUFFICES ASSUME IInv, response.kind = "execute" PROVE PagingIsExact
      BY DEF PagingIsExact
    <2>1. TypeOK /\ Unparsable = {}
      BY DEF IInv, ChecksPassed
    <2>2. ASSUME NEW name, Given(name)
          PROVE  First(name).digits \in Seq(0..9)
      BY <2>1, <2>2, ValuesOccur, RawFields
    <2>3. Limit = IF ~Given("limit") THEN MaxLimit
                  ELSE LET n == Number(First("limit").digits) IN
                       IF n > MaxLimit THEN MaxLimit ELSE n
      <3>1. CASE Given("limit")
        <4> DEFINE digits == First("limit").digits
        <4>1. digits \in Seq(0..9)
          BY <2>2, <3>1
        <4>2. Limit = ParseLimit(digits)
          BY <3>1 DEF Limit
        <4> HIDE DEF digits
        <4>3. Limit = IF Number(digits) > MaxLimit THEN MaxLimit ELSE Number(digits)
          BY <4>1, <4>2, LimitExact
        <4> QED
          BY <3>1, <4>3 DEF digits
      <3>2. CASE ~Given("limit")
        BY <3>2 DEF Limit
      <3> QED
        BY <3>1, <3>2
    <2>4. Offset = IF Given("offset") THEN Number(First("offset").digits) ELSE 0
      <3>1. CASE Given("offset")
        <4> DEFINE digits == First("offset").digits
                   n      == Number(digits)
        <4>1. digits \in Seq(0..9)
          BY <2>2, <3>1
        <4>2. Parsed[3] = "offset" /\ 3 \in DOMAIN Parsed
          BY DEF Parsed
        <4>3. OffsetParses(digits)
          BY <2>1, <3>1, <4>2 DEF Unparsable
        <4>4. Offset = Number(Normalized(digits)) % (MaxOffset + 1)
          BY <3>1 DEF Offset
        <4> HIDE DEF digits
        <4>5. Number(Normalized(digits)) = n /\ n \in Nat
          BY <4>1, NormalizedNumber
        <4> HIDE DEF n
        <4>6. n <= MaxOffset
          BY <4>3, <4>5 DEF OffsetParses
        <4>7. n % (MaxOffset + 1) = n
          BY <4>5, <4>6, HttpBoundaryAssumption
        <4> QED
          BY <3>1, <4>4, <4>5, <4>7 DEF digits, n
      <3>2. CASE ~Given("offset")
        BY <3>2 DEF Offset
      <3> QED
        BY <3>1, <3>2
    <2> QED
      BY <2>3, <2>4 DEF PagingIsExact
  <1> QED
    BY RequestsHandled, <1>1, PTL
==============================================================================
