-------------------------- MODULE SearchRequestProofs -------------------------
(****************************************************************************)
(* What SearchRequest promises for any number of requests, releases and      *)
(* answers: an ended context beats what the branches brought, a partial      *)
(* feed is honest, the upstream is blamed fairly and no branch outlives its  *)
(* request.                                                                  *)
(****************************************************************************)
EXTENDS SearchRequest, FunctionTheorems, FiniteSetTheorems, TLAPS

------------------------------------------------------------------------------
(* Picking elements from a list                                              *)

\* Ranks number the places from 1, in their order.
LEMMA RanksNumberPlaces ==
    ASSUME NEW N \in Nat, NEW places \in SUBSET (1..N)
    PROVE  /\ IsFiniteSet(places) /\ Cardinality(places) \in Nat
           /\ \A i \in places : Rank(places, i) \in 1..Cardinality(places)
           /\ \A i, j \in places : i < j => Rank(places, i) < Rank(places, j)
           /\ \A n \in 1..Cardinality(places) : \E i \in places : Rank(places, i) = n
  <1> DEFINE UpTo(i) == {j \in places : j <= i}
             C       == Cardinality(places)
  <1>1. IsFiniteSet(places) /\ C \in Nat
    <2>1. IsFiniteSet(1..N)
      BY FS_Interval
    <2> QED
      BY <2>1, FS_Subset, FS_CardinalityType
  <1>2. ASSUME NEW i \in places
        PROVE  /\ IsFiniteSet(UpTo(i)) /\ Rank(places, i) \in Nat
               /\ Rank(places, i) = Cardinality(UpTo(i))
               /\ Rank(places, i) \in 1..C
    <2>1. UpTo(i) \in SUBSET places /\ UpTo(i) # {}
      OBVIOUS
    <2>2. IsFiniteSet(UpTo(i)) /\ Cardinality(UpTo(i)) <= C
      BY <1>1, <2>1, FS_Subset
    <2>3. Cardinality(UpTo(i)) \in Nat /\ Cardinality(UpTo(i)) # 0
      BY <2>1, <2>2, FS_CardinalityType, FS_EmptySet
    <2>4. Rank(places, i) = Cardinality(UpTo(i))
      BY DEF Rank
    <2> QED
      BY <1>1, <2>2, <2>3, <2>4
  <1>3. ASSUME NEW i \in places, NEW j \in places, i < j
        PROVE  Rank(places, i) < Rank(places, j)
    <2>1. UpTo(i) \in SUBSET UpTo(j) /\ j \in UpTo(j) /\ j \notin UpTo(i)
      <3>1. i \in Int /\ j \in Int /\ \A k \in places : k \in Int
        OBVIOUS
      <3>2. \A k \in places : k <= i => k <= j
        BY <1>3, <3>1
      <3>3. j <= j /\ ~(j <= i)
        BY <1>3, <3>1
      <3> QED
        BY <3>2, <3>3, Zenon
    <2>2. Cardinality(UpTo(i)) <= Cardinality(UpTo(j)) /\ Cardinality(UpTo(i)) # Cardinality(UpTo(j))
      BY <1>2, <2>1, FS_Subset
    <2> QED
      BY <1>2, <2>2
  <1>4. \A n \in 1..C : \E i \in places : Rank(places, i) = n
    <2> DEFINE f == [i \in places |-> Rank(places, i)]
    <2>1. f \in [places -> 1..C]
      BY <1>2
    <2>2. \A i, j \in places : f[i] = f[j] => i = j
      <3>1. \A k \in places : k \in Int
        OBVIOUS
      <3>2. \A i, j \in places : i < j => f[i] < f[j]
        BY <1>3
      <3>3. \A k \in places : f[k] \in Int
        BY <1>1, <2>1
      <3> HIDE DEF f
      <3> QED
        BY <3>1, <3>2, <3>3
    <2>3. f \in Injection(places, 1..C)
      BY <2>1, <2>2 DEF Injection, IsInjective
    <2>4. IsFiniteSet(1..C) /\ Cardinality(1..C) = C
      BY <1>1, FS_Interval
    <2>5. f \in Surjection(places, 1..C)
      BY <1>1, <2>3, <2>4, FS_Injection
    <2> QED
      BY <2>5 DEF Surjection
  <1> QED
    BY <1>1, <1>2, <1>3, <1>4

\* What is picked are the elements at the places, in the order of the places.
LEMMA PickedInOrder ==
    ASSUME NEW X, NEW list \in Seq(X), NEW places \in SUBSET DOMAIN list
    PROVE  /\ IsFiniteSet(places) /\ Cardinality(places) \in Nat
           /\ Picked(list, places) \in Seq(X)
           /\ Len(Picked(list, places)) = Cardinality(places)
           /\ \E at \in [1..Cardinality(places) -> places] :
                 /\ \A n \in 1..Cardinality(places) : Picked(list, places)[n] = list[at[n]]
                 /\ \A m, n \in 1..Cardinality(places) : m < n => at[m] < at[n]
                 /\ \A i \in places : \E n \in 1..Cardinality(places) : at[n] = i
  <1> DEFINE C  == Cardinality(places)
             at == [n \in 1..C |-> CHOOSE i \in places : Rank(places, i) = n]
  <1>1. Len(list) \in Nat /\ DOMAIN list = 1..Len(list)
    OBVIOUS
  <1>2. /\ IsFiniteSet(places) /\ C \in Nat
        /\ \A i \in places : Rank(places, i) \in 1..C
        /\ \A i, j \in places : i < j => Rank(places, i) < Rank(places, j)
        /\ \A n \in 1..C : \E i \in places : Rank(places, i) = n
    <2>1. places \in SUBSET (1..Len(list))
      BY <1>1
    <2> QED
      BY <1>1, <2>1, RanksNumberPlaces
  <1>3. \A n \in 1..C : at[n] \in places /\ Rank(places, at[n]) = n
    BY <1>2
  <1>4. Picked(list, places) = [n \in 1..C |-> list[at[n]]]
    BY DEF Picked
  <1> HIDE DEF at
  <1>5. at \in [1..C -> places]
    <2>1. at = [n \in 1..C |-> at[n]]
      BY DEF at
    <2> QED
      BY <1>3, <2>1
  <1>6. ASSUME NEW m \in 1..C, NEW n \in 1..C, m < n PROVE at[m] < at[n]
    <2>1. at[m] \in Nat /\ at[n] \in Nat
      BY <1>1, <1>3
    <2>2. ~(at[m] = at[n])
      BY <1>3, <1>6
    <2>3. ~(at[n] < at[m])
      BY <1>2, <1>3, <1>6
    <2> QED
      BY <2>1, <2>2, <2>3
  <1>7. ASSUME NEW i \in places PROVE \E n \in 1..C : at[n] = i
    <2>1. Rank(places, i) \in 1..C
      BY <1>2
    <2>2. at[Rank(places, i)] \in places /\ Rank(places, at[Rank(places, i)]) = Rank(places, i)
      BY <1>3, <2>1
    <2>3. i \in Nat /\ at[Rank(places, i)] \in Nat
      BY <1>1, <2>2
    <2>4. ~(i < at[Rank(places, i)]) /\ ~(at[Rank(places, i)] < i)
      BY <1>2, <2>1, <2>2
    <2> QED
      BY <2>1, <2>3, <2>4
  <1>8. Picked(list, places) \in Seq(X) /\ Len(Picked(list, places)) = C
    <2>1. \A n \in 1..C : list[at[n]] \in X
      BY <1>3
    <2>2. Picked(list, places) \in [1..C -> X]
      BY <1>4, <2>1
    <2> QED
      BY <1>2, <2>2
  <1> QED
    BY <1>2, <1>4, <1>5, <1>6, <1>7, <1>8

\* distinctReleaseIDs returns different ids, and no more than the limit.
LEMMA DistinctWithinLimit ==
    ASSUME NEW list \in Seq(Releases)
    PROVE  /\ Distinct(list) \in Seq(Releases)
           /\ Len(Distinct(list)) <= MaxReleases
           /\ \A i, j \in DOMAIN Distinct(list) : Distinct(list)[i] = Distinct(list)[j] => i = j
  <1> DEFINE first  == {i \in DOMAIN list : \A j \in DOMAIN list : j < i => list[j] # list[i]}
             places == {i \in first : Rank(first, i) <= MaxReleases}
             C      == Cardinality(places)
             kept   == Picked(list, places)
  <1>1. Len(list) \in Nat /\ DOMAIN list = 1..Len(list)
    OBVIOUS
  <1>2. first \in SUBSET (1..Len(list)) /\ places \in SUBSET first /\ places \in SUBSET DOMAIN list
    BY <1>1
  <1>3. Distinct(list) = kept
    BY DEF Distinct
  <1>4. \A i, j \in first : list[i] = list[j] => i = j
    BY <1>1
  <1>5. C <= MaxReleases /\ C \in Nat
    <2> DEFINE f == [i \in places |-> Rank(first, i)]
    <2>1. /\ \A i \in first : Rank(first, i) \in 1..Cardinality(first)
          /\ \A i, j \in first : i < j => Rank(first, i) < Rank(first, j)
          /\ Cardinality(first) \in Nat
      BY <1>1, <1>2, RanksNumberPlaces
    <2>2. f \in [places -> 1..MaxReleases]
      <3>1. \A i \in places : Rank(first, i) \in 1..MaxReleases
        BY <1>2, <2>1, SearchRequestAssumption
      <3> QED
        BY <3>1
    <2>3. \A i, j \in places : f[i] = f[j] => i = j
      BY <1>1, <1>2, <2>1
    <2>4. f \in Injection(places, 1..MaxReleases)
      BY <2>2, <2>3 DEF Injection, IsInjective
    <2>5. IsFiniteSet(1..MaxReleases) /\ Cardinality(1..MaxReleases) = MaxReleases
      BY FS_Interval, SearchRequestAssumption
    <2>6. IsFiniteSet(places) /\ C <= MaxReleases
      BY <2>4, <2>5, FS_Injection
    <2> QED
      BY <2>6, FS_CardinalityType
  <1> HIDE DEF first, places
  <1>6. kept \in Seq(Releases) /\ Len(kept) = C
    BY <1>2, PickedInOrder
  <1>7. PICK at \in [1..C -> places] :
           /\ \A n \in 1..C : kept[n] = list[at[n]]
           /\ \A m, n \in 1..C : m < n => at[m] < at[n]
           /\ \A i \in places : \E n \in 1..C : at[n] = i
    <2>1. list \in Seq(Releases) /\ places \in SUBSET DOMAIN list
      BY <1>2
    <2>2. \E at \in [1..Cardinality(places) -> places] :
             /\ \A n \in 1..Cardinality(places) : Picked(list, places)[n] = list[at[n]]
             /\ \A m, n \in 1..Cardinality(places) : m < n => at[m] < at[n]
             /\ \A i \in places : \E n \in 1..Cardinality(places) : at[n] = i
      BY <2>1, PickedInOrder, SMTT(30)
    <2> QED
      BY <2>2
  <1>8. ASSUME NEW i \in 1..C, NEW j \in 1..C, kept[i] = kept[j] PROVE i = j
    <2>1. at[i] = at[j] /\ at[i] \in Nat
      BY <1>1, <1>2, <1>4, <1>7, <1>8
    <2> QED
      BY <1>5, <1>7, <2>1
  <1> HIDE DEF kept
  <1>9. DOMAIN kept = 1..C
    BY <1>6
  <1> QED
    BY <1>3, <1>5, <1>6, <1>8, <1>9

------------------------------------------------------------------------------
(* The inductive invariant                                                   *)

Places   == {"entering", "loading", "waiting", "processing", "stopping", "rereading", "replied"}
Results  == UNION {Answers(k) : k \in Keys}
Outcomes == [kind : {"feed", "upstream_failed", "incorrect_parameter", "cancelled",
                     "deadline_exceeded"},
             from : Seq(Keys)]

TypeOK ==
    /\ flow \in [Requests -> {"search", "latest", "invalid"}]
    /\ pc \in [Requests -> Places]
    /\ ctx \in [Requests -> {"live", "canceled", "expired"}]
    /\ endedAt \in [Requests -> Places \cup {None}]
    /\ ids \in [Requests -> Seq(Releases)]
    /\ lookup \in [Lookups -> {"idle", "new", "hit", "miss"}]
    /\ served \in [Lookups -> Results \cup {None}]
    /\ store \in [Keys -> Results \cup {None}]
    /\ draft \in [Requests -> Outcomes \cup {None}]
    /\ reply \in [Requests -> Outcomes \cup {None}]
    /\ want = [b \in Lookups |-> b[2]]
    /\ told \in [Lookups -> Results \cup {None, "cancelled"}]
    /\ members \in [Lookups -> SUBSET Lookups]
    /\ state \in [Lookups -> {"none", "running", "done"}]
    /\ answer \in [Lookups -> Results \cup {None}]

\* What a cache holds, and what a hit returned, is a successful answer.
CachesHoldAnswers ==
    /\ \A k \in Keys : store[k] # None => store[k] \in Answers(k) \ {Failed}
    /\ \A b \in Lookups : lookup[b] = "hit" => served[b] \in Answers(b[2]) \ {Failed}

\* A lookup waits for at most one load, of its own key, and was told nothing
\* yet; what a load answers is an answer for its key.
LoadsServeTheirKey ==
    \A l \in Lookups :
        /\ state[l] = "done" => answer[l] \in Answers(l[2])
        /\ state[l] = "none" => members[l] = {}
        /\ \A b \in members[l] :
              /\ b[2] = l[2] /\ lookup[b] = "miss" /\ told[b] = None
              /\ \A m \in Lookups : b \in members[m] => m = l

\* A lookup is told an answer for its key, or that its context ended.
ToldTruthfully ==
    \A b \in Lookups :
        /\ told[b] # None => lookup[b] = "miss" /\ told[b] \in Answers(b[2]) \cup {"cancelled"}
        /\ told[b] = "cancelled" => ctx[b[1]] # "live"

Used(r, k) == lookup[<<r, k>>] # "idle"

Drafted(r) == pc[r] \in {"stopping", "rereading", "replied"}

\* Which lookups a request has begun, and how far they are, at each place.
LookupsFollowRequest(r) ==
    /\ pc[r] = "entering" => \A k \in Keys : ~Used(r, k)
    /\ pc[r] = "loading" =>
          /\ flow[r] # "invalid"
          /\ \A k \in Keys : Used(r, k) => k = IF flow[r] = "latest" THEN Latest ELSE Query
    /\ pc[r] = "waiting" =>
          /\ flow[r] = "search" /\ ids[r] # << >>
          /\ \A k \in Keys : Used(r, k) => k \in ToSet(ids[r]) \/ Got(<<r, k>>) # None
    /\ pc[r] = "processing" \/ Drafted(r) =>
          \A k \in Keys : Used(r, k) => Got(<<r, k>>) # None

\* The releases a request fans out to are distinct and within the limit.
ReleasesDistinct(r) ==
    /\ Len(ids[r]) <= MaxReleases
    /\ \A i, j \in DOMAIN ids[r] : ids[r][i] = ids[r][j] => i = j
    /\ pc[r] \in {"entering", "loading"} => ids[r] = << >>

\* Every branch is over, and one succeeded if there was any.
Collected(r) ==
    /\ \A k \in ToSet(ids[r]) : Got(<<r, k>>) # None
    /\ ids[r] # << >> => Succeeded(r) # << >>

\* The upstream failed for the one load a reply rests on, or for every release.
UpstreamFailed(r) ==
    \/ \E k \in {Query, Latest} : Got(<<r, k>>) = Failed
    \/ ids[r] # << >> /\ \A k \in ToSet(ids[r]) : Got(<<r, k>>) = Failed

\* What Execute returned is justified: a feed by what the branches brought and
\* a context that was alive, an error by the upstream or by the context.
DraftJustified(r) ==
    /\ pc[r] = "processing" => flow[r] \in {"search", "latest"}
    /\ pc[r] = "processing" /\ flow[r] = "search" => Collected(r)
    /\ Drafted(r) =>
          /\ draft[r] \in Outcomes /\ draft[r].kind \in {"feed", "upstream_failed", "incorrect_parameter"}
          /\ draft[r].kind = "feed" =>
                /\ endedAt[r] \in {None, "stopping", "rereading"}
                /\ flow[r] = "search" =>
                      /\ Collected(r) /\ draft[r].from = Succeeded(r)
                      /\ \A k \in ToSet(ids[r]) : Got(<<r, k>>) # "cancelled"
          /\ draft[r].kind = "upstream_failed" =>
                UpstreamFailed(r) \/ (ctx[r] # "live" /\ endedAt[r] # "rereading")

\* Where a context can have ended, and what stopForContext has read of it.
ContextTold(r) ==
    /\ ctx[r] = "live" => endedAt[r] = None
    /\ ctx[r] # "live" /\ endedAt[r] = "rereading" => pc[r] \in {"rereading", "replied"}
    /\ pc[r] = "rereading" /\ ctx[r] = "canceled" => endedAt[r] = "rereading"

\* A reply is the draft, or says that the context has ended.
ReplyDrafted(r) ==
    reply[r] # None =>
        /\ pc[r] = "replied"
        /\ reply[r].kind \notin {"cancelled", "deadline_exceeded"} =>
              /\ reply[r] = draft[r]
              /\ ctx[r] = "live" \/ endedAt[r] = "rereading"

RequestInv(r) ==
    /\ LookupsFollowRequest(r) /\ ReleasesDistinct(r) /\ DraftJustified(r)
    /\ ContextTold(r) /\ ReplyDrafted(r)

LookupInv == CachesHoldAnswers /\ LoadsServeTheirKey /\ ToldTruthfully

IInv == TypeOK /\ LookupInv /\ \A r \in Requests : RequestInv(r)
------------------------------------------------------------------------------
(* The branches that succeeded                                               *)

\* loadSearch keeps what every successful branch brought, in the order of ids.
LEMMA SucceededInOrder ==
    ASSUME NEW r \in Requests, ids[r] \in Seq(Releases),
           \A i, j \in DOMAIN ids[r] : ids[r][i] = ids[r][j] => i = j
    PROVE  /\ Succeeded(r) \in Seq(Releases)
           /\ Len(Succeeded(r)) <= Len(ids[r])
           /\ ToSet(Succeeded(r)) = {k \in ToSet(ids[r]) : Got(<<r, k>>) = Torrents}
           /\ \A i, j \in DOMAIN Succeeded(r) : Succeeded(r)[i] = Succeeded(r)[j] => i = j
           /\ \A i, j \in DOMAIN Succeeded(r) : i < j =>
                 \E p, q \in DOMAIN ids[r] :
                    /\ p < q
                    /\ ids[r][p] = Succeeded(r)[i] /\ ids[r][q] = Succeeded(r)[j]
  <1> DEFINE list   == ids[r]
             places == {i \in DOMAIN list : Got(<<r, list[i]>>) = Torrents}
             C      == Cardinality(places)
             kept   == Picked(list, places)
  <1>1. list \in Seq(Releases) /\ Len(list) \in Nat /\ DOMAIN list = 1..Len(list)
    OBVIOUS
  <1>2. Succeeded(r) = kept
    BY DEF Succeeded
  <1>3. /\ places \in SUBSET DOMAIN list
        /\ \A i \in DOMAIN list : i \in places <=> Got(<<r, list[i]>>) = Torrents
        /\ \A i, j \in DOMAIN list : list[i] = list[j] => i = j
    OBVIOUS
  <1> HIDE DEF list, places
  <1>4. /\ kept \in Seq(Releases) /\ Len(kept) = C /\ C \in Nat
        /\ \E at \in [1..Cardinality(places) -> places] :
              /\ \A n \in 1..Cardinality(places) : Picked(list, places)[n] = list[at[n]]
              /\ \A m, n \in 1..Cardinality(places) : m < n => at[m] < at[n]
              /\ \A i \in places : \E n \in 1..Cardinality(places) : at[n] = i
    BY <1>1, <1>3, PickedInOrder, SMTT(60)
  <1>5. PICK at \in [1..C -> places] :
           /\ \A n \in 1..C : kept[n] = list[at[n]]
           /\ \A m, n \in 1..C : m < n => at[m] < at[n]
           /\ \A i \in places : \E n \in 1..C : at[n] = i
    BY <1>4
  <1>6. C <= Len(list)
    <2>1. IsFiniteSet(1..Len(list)) /\ Cardinality(1..Len(list)) = Len(list)
      <3> HIDE DEF C
      <3>1. \A n \in Nat : IsFiniteSet(1..n) /\ Cardinality(1..n) = n
        BY FS_Interval
      <3> QED
        BY <1>1, <3>1
    <2> QED
      BY <1>1, <1>3, <2>1, FS_Subset
  <1> HIDE DEF kept
  <1>7. DOMAIN kept = 1..C
    BY <1>4
  <1>8. \A n \in 1..C : at[n] \in places /\ at[n] \in DOMAIN list /\ at[n] \in Int
    BY <1>1, <1>3
  <1>9. ToSet(kept) = {k \in ToSet(list) : Got(<<r, k>>) = Torrents}
    <2>1. ASSUME NEW n \in 1..C PROVE kept[n] \in ToSet(list) /\ Got(<<r, kept[n]>>) = Torrents
      BY <1>3, <1>5, <1>8 DEF ToSet
    <2>2. ASSUME NEW k \in ToSet(list), Got(<<r, k>>) = Torrents PROVE \E n \in 1..C : kept[n] = k
      <3>1. PICK i \in DOMAIN list : list[i] = k
        BY <2>2 DEF ToSet
      <3>2. i \in places
        BY <1>3, <2>2, <3>1
      <3> QED
        BY <1>5, <3>1, <3>2
    <2> QED
      BY <1>7, <2>1, <2>2 DEF ToSet
  <1>10. ASSUME NEW i \in 1..C, NEW j \in 1..C, kept[i] = kept[j] PROVE i = j
    <2>1. at[i] = at[j]
      BY <1>3, <1>5, <1>8, <1>10
    <2>2. ~(i < j) /\ ~(j < i)
      BY <1>5, <1>8, <2>1
    <2> QED
      BY <1>4, <2>2
  <1>11. ASSUME NEW i \in 1..C, NEW j \in 1..C, i < j
         PROVE  \E p, q \in DOMAIN list : p < q /\ list[p] = kept[i] /\ list[q] = kept[j]
    BY <1>5, <1>8, <1>11
  <1> QED
    BY <1>2, <1>4, <1>6, <1>7, <1>9, <1>10, <1>11 DEF list

\* Without a successful branch there is nothing to keep.
LEMMA NothingSucceeded ==
    ASSUME NEW r \in Requests, ids[r] \in Seq(Releases), ReleasesDistinct(r)
    PROVE  Succeeded(r) = << >> <=> \A k \in ToSet(ids[r]) : Got(<<r, k>>) # Torrents
  <1>1. /\ Succeeded(r) \in Seq(Releases)
        /\ ToSet(Succeeded(r)) = {k \in ToSet(ids[r]) : Got(<<r, k>>) = Torrents}
    BY SucceededInOrder DEF ReleasesDistinct
  <1>2. Succeeded(r) = << >> <=> ToSet(Succeeded(r)) = {}
    <2>1. \A s \in Seq(Releases) : s = << >> <=> DOMAIN s = {}
      OBVIOUS
    <2>2. DOMAIN Succeeded(r) = {} <=> ToSet(Succeeded(r)) = {}
      BY DEF ToSet
    <2> QED
      BY <1>1, <2>1, <2>2
  <1> QED
    BY <1>1, <1>2

\* The branches that succeeded stay the same once they have returned.
LEMMA SucceededKept ==
    ASSUME NEW r \in Requests, ids'[r] = ids[r],
           \A k \in ToSet(ids[r]) : Got(<<r, k>>)' = Got(<<r, k>>)
    PROVE  Succeeded(r)' = Succeeded(r)
  <1> DEFINE places == {i \in DOMAIN ids[r] : Got(<<r, ids[r][i]>>) = Torrents}
  <1>1. ASSUME NEW i \in DOMAIN ids[r]
        PROVE  (Got(<<r, ids[r][i]>>) = Torrents)' <=> Got(<<r, ids[r][i]>>) = Torrents
    <2>1. ids[r][i] \in ToSet(ids[r])
      BY DEF ToSet
    <2> QED
      BY <2>1 DEF Got
  <1>2. places' = places
    BY <1>1
  <1>3. Succeeded(r) = Picked(ids[r], places)
    BY DEF Succeeded
  <1> HIDE DEF places
  <1>4. Succeeded(r)' = Picked(ids'[r], places')
    BY <1>3 DEF Succeeded, places
  <1> QED
    BY <1>2, <1>3, <1>4 DEF Picked

------------------------------------------------------------------------------
(* What a step leaves alone                                                  *)

\* The step is not the request's: at most its lookups bring something.
Carried(r) ==
    /\ flow'[r] = flow[r] /\ pc'[r] = pc[r] /\ ids'[r] = ids[r]
    /\ draft'[r] = draft[r] /\ reply'[r] = reply[r]
    /\ ctx'[r] = ctx[r] /\ endedAt'[r] = endedAt[r]
    /\ \A k \in Keys : Used(r, k)' <=> Used(r, k)
    /\ \A k \in Keys : Got(<<r, k>>) # None => Got(<<r, k>>)' = Got(<<r, k>>)

LEMMA ReleasesAreKeys ==
    ASSUME NEW r \in Requests, ids[r] \in Seq(Releases)
    PROVE  ToSet(ids[r]) \subseteq Releases /\ ToSet(ids[r]) \subseteq Keys
  BY DEF ToSet, Keys

LEMMA CarriedKeepsInv ==
    ASSUME NEW r \in Requests, ids[r] \in Seq(Releases), RequestInv(r), Carried(r)
    PROVE  RequestInv(r)'
  <1>1. /\ flow'[r] = flow[r] /\ pc'[r] = pc[r] /\ ids'[r] = ids[r]
        /\ draft'[r] = draft[r] /\ reply'[r] = reply[r]
        /\ ctx'[r] = ctx[r] /\ endedAt'[r] = endedAt[r]
        /\ \A k \in Keys : Used(r, k)' <=> Used(r, k)
        /\ \A k \in Keys : Got(<<r, k>>) # None => Got(<<r, k>>)' = Got(<<r, k>>)
    BY DEF Carried
  <1>2. ToSet(ids[r]) \subseteq Keys /\ ToSet(ids[r])' = ToSet(ids[r])
    BY <1>1, ReleasesAreKeys DEF ToSet
  <1>3. LookupsFollowRequest(r)'
    BY <1>1, <1>2 DEF RequestInv, LookupsFollowRequest, Drafted
  <1>4. ReleasesDistinct(r)'
    BY <1>1 DEF RequestInv, ReleasesDistinct
  <1>5. Collected(r) => Collected(r)' /\ Succeeded(r)' = Succeeded(r)
    BY <1>1, <1>2, SucceededKept DEF Collected
  <1>6. UpstreamFailed(r) => UpstreamFailed(r)'
    <2>1. Query \in Keys /\ Latest \in Keys /\ Failed # None
      BY SearchRequestAssumption DEF Keys
    <2> QED
      BY <1>1, <1>2, <2>1 DEF UpstreamFailed
  <1>7. DraftJustified(r)'
    <2>1. ASSUME Collected(r), \A k \in ToSet(ids[r]) : Got(<<r, k>>) # "cancelled"
          PROVE  \A k \in ToSet(ids[r])' : Got(<<r, k>>)' # "cancelled"
      BY <1>1, <1>2, <2>1 DEF Collected
    <2> QED
      BY <1>1, <1>5, <1>6, <2>1 DEF RequestInv, DraftJustified, Drafted
  <1>8. ContextTold(r)' /\ ReplyDrafted(r)'
    BY <1>1 DEF RequestInv, ContextTold, ReplyDrafted
  <1> QED
    BY <1>3, <1>4, <1>7, <1>8 DEF RequestInv

------------------------------------------------------------------------------
(* The initial states, and the steps of lookups, loads and contexts          *)

LEMMA InitEstablishes == Init => IInv
  <1> SUFFICES ASSUME Init PROVE IInv
    OBVIOUS
  <1>1. TypeOK
    <2>1. << >> \in Seq(Releases)
      OBVIOUS
    <2> QED
      BY <2>1 DEF Init, Sharing!Init, TypeOK, Places
  <1>2. LookupInv
    BY SearchRequestAssumption DEF Init, Sharing!Init, LookupInv, CachesHoldAnswers,
       LoadsServeTheirKey, ToldTruthfully
  <1>3. ASSUME NEW r \in Requests PROVE RequestInv(r)
    <2>1. \A k \in Keys : <<r, k>> \in Lookups
      BY DEF Lookups
    <2>2. /\ pc[r] = "entering" /\ ctx[r] = "live" /\ ids[r] = << >> /\ reply[r] = None
          /\ endedAt[r] = None /\ \A k \in Keys : lookup[<<r, k>>] = "idle"
      BY <2>1 DEF Init
    <2>3. Len(ids[r]) = 0 /\ DOMAIN ids[r] = {}
      BY <2>2
    <2> QED
      BY <2>2, <2>3, SearchRequestAssumption DEF RequestInv, LookupsFollowRequest, Used,
         ReleasesDistinct, DraftJustified, Drafted, ContextTold, ReplyDrafted
  <1> QED
    BY <1>1, <1>2, <1>3 DEF IInv

\* Lookups are pairs of a request and a key.
LEMMA LookupParts ==
    /\ \A b \in Lookups : b[1] \in Requests /\ b[2] \in Keys /\ b = <<b[1], b[2]>>
    /\ \A r \in Requests, k \in Keys : <<r, k>> \in Lookups
  BY DEF Lookups

\* A key has its own answers; neither None nor "cancelled" is one.
LEMMA AnswersAreResults ==
    /\ \A k \in Keys : Answers(k) \subseteq Results
    /\ None \notin Results /\ "cancelled" \notin Results /\ "cancelled" # None /\ Failed # None
  <1>1. \A k \in Keys : Answers(k) \subseteq Results
    BY DEF Results
  <1>2. \A v \in Results : v \in Matches \cup {Torrents, Failed}
    BY DEF Results, Answers
  <1> QED
    BY <1>1, <1>2, SearchRequestAssumption

\* A step of lookups and loads carries every request if no lookup is begun and
\* what was brought stays.
LEMMA AllCarried ==
    ASSUME UNCHANGED requestVars, UNCHANGED contextVars,
           \A b \in Lookups : lookup'[b] = "idle" <=> lookup[b] = "idle",
           \A b \in Lookups : Got(b) # None => Got(b)' = Got(b),
           NEW r \in Requests
    PROVE  Carried(r)
  <1>1. ASSUME NEW k \in Keys
        PROVE  /\ Used(r, k)' <=> Used(r, k)
               /\ Got(<<r, k>>) # None => Got(<<r, k>>)' = Got(<<r, k>>)
    BY LookupParts DEF Used, Got
  <1> QED
    BY <1>1 DEF Carried, requestVars, contextVars

\* Get of the cache: a hit returns an answer for the key, a miss nothing yet.
LEMMA CacheStep ==
    ASSUME IInv, NEW b \in Lookups, Hit(b) \/ Miss(b)
    PROVE  /\ TypeOK' /\ LookupInv'
           /\ \A r \in Requests : Carried(r)
  <1>1. TypeOK /\ LookupInv
    BY DEF IInv
  <1>2. /\ lookup[b] = "new" /\ b[2] \in Keys /\ told[b] = None
        /\ \A l \in Lookups : b \notin members[l]
    BY <1>1, LookupParts DEF Hit, Miss, LookupInv, ToldTruthfully, LoadsServeTheirKey
  <1>3. UNCHANGED <<requestVars, contextVars, store, sharingVars>>
    BY DEF Hit, Miss
  <1>4. /\ lookup' \in [Lookups -> {"idle", "new", "hit", "miss"}]
        /\ lookup'[b] \in {"hit", "miss"} /\ \A c \in Lookups \ {b} : lookup'[c] = lookup[c]
        /\ \A c \in Lookups \ {b} : served'[c] = served[c]
        /\ served' \in [Lookups -> Results \cup {None}]
        /\ lookup'[b] = "hit" => served'[b] \in Answers(b[2]) \ {Failed}
    <2>1. CASE Hit(b)
      BY <1>1, <1>2, <2>1 DEF Hit, TypeOK, LookupInv, CachesHoldAnswers
    <2>2. CASE Miss(b)
      BY <1>1, <1>2, <2>2 DEF Miss, TypeOK
    <2> QED
      BY <2>1, <2>2
  <1>5. TypeOK'
    BY <1>1, <1>3, <1>4 DEF TypeOK, requestVars, contextVars, sharingVars
  <1>6. CachesHoldAnswers'
    BY <1>1, <1>3, <1>4 DEF LookupInv, CachesHoldAnswers
  <1>7. LoadsServeTheirKey'
    BY <1>1, <1>2, <1>3, <1>4 DEF TypeOK, LookupInv, LoadsServeTheirKey, sharingVars
  <1>8. ToldTruthfully'
    BY <1>1, <1>2, <1>3, <1>4 DEF LookupInv, ToldTruthfully, sharingVars, contextVars
  <1>9. \A c \in Lookups : (lookup'[c] = "idle" <=> lookup[c] = "idle")
                           /\ (Got(c) # None => Got(c)' = Got(c))
    BY <1>2, <1>3, <1>4 DEF Got, sharingVars
  <1> QED
    BY <1>3, <1>5, <1>6, <1>7, <1>8, <1>9, AllCarried DEF LookupInv

\* What a step of the coalescers leaves alone.
LEMMA SharingFrame ==
    ASSUME IInv, UNCHANGED <<requestVars, contextVars, lookup, served>>, want' = want,
           \A b \in Lookups : told[b] # None => told'[b] = told[b],
           LoadsServeTheirKey', ToldTruthfully', store' \in [Keys -> Results \cup {None}],
           \A k \in Keys : store'[k] # None => store'[k] \in Answers(k) \ {Failed},
           told' \in [Lookups -> Results \cup {None, "cancelled"}],
           members' \in [Lookups -> SUBSET Lookups],
           state' \in [Lookups -> {"none", "running", "done"}],
           answer' \in [Lookups -> Results \cup {None}]
    PROVE  /\ TypeOK' /\ LookupInv'
           /\ \A r \in Requests : Carried(r)
  <1>1. TypeOK'
    BY DEF IInv, TypeOK, requestVars, contextVars
  <1>2. LookupInv'
    BY DEF IInv, LookupInv, CachesHoldAnswers
  <1>3. \A c \in Lookups : (lookup'[c] = "idle" <=> lookup[c] = "idle")
                           /\ (Got(c) # None => Got(c)' = Got(c))
    BY DEF Got
  <1> QED
    BY <1>1, <1>2, <1>3, AllCarried

\* Do is entered: a lookup is refused under an ended context, or joins or
\* starts a load of its key.
LEMMA EnterSharingStep ==
    ASSUME IInv, NEW b \in Lookups, EnterSharing(b)
    PROVE  /\ TypeOK' /\ LookupInv'
           /\ \A r \in Requests : Carried(r)
  <1>1. TypeOK /\ LoadsServeTheirKey /\ ToldTruthfully /\ CachesHoldAnswers
    BY DEF IInv, LookupInv
  <1>2. /\ lookup[b] = "miss"
        /\ UNCHANGED <<requestVars, contextVars, lookup, served, store>>
    BY DEF EnterSharing, cacheVars
  <1>3. \A l \in Lookups : want[l] = l[2]
    BY <1>1 DEF TypeOK
  <1>4. CASE ctx[b[1]] # "live" /\ Sharing!Refuse(b)
    <2>1. /\ told[b] = None /\ \A l \in Lookups : b \notin members[l]
          /\ told' = [told EXCEPT ![b] = "cancelled"]
          /\ UNCHANGED <<want, members, state, answer>>
      BY <1>4 DEF Sharing!Refuse, Sharing!Unserved
    <2>2. LoadsServeTheirKey'
      BY <1>1, <1>2, <2>1 DEF LoadsServeTheirKey, TypeOK
    <2>3. ToldTruthfully'
      BY <1>1, <1>2, <1>4, <2>1 DEF ToldTruthfully, TypeOK, contextVars
    <2> QED
      BY <1>1, <1>2, <2>1, <2>2, <2>3, SharingFrame DEF TypeOK, CachesHoldAnswers
  <1>5. CASE Sharing!Begin(b)
    <2>1. /\ told[b] = None /\ \A l \in Lookups : b \notin members[l]
          /\ state[b] = "none"
          /\ state' = [state EXCEPT ![b] = "running"]
          /\ members' = [members EXCEPT ![b] = {b}]
          /\ UNCHANGED <<want, told, answer>>
      BY <1>5 DEF Sharing!Begin, Sharing!Unserved
    <2>2. LoadsServeTheirKey'
      BY <1>1, <1>2, <2>1 DEF LoadsServeTheirKey, TypeOK
    <2>3. ToldTruthfully'
      BY <1>1, <1>2, <2>1 DEF ToldTruthfully, contextVars
    <2> QED
      BY <1>1, <1>2, <2>1, <2>2, <2>3, SharingFrame DEF TypeOK, CachesHoldAnswers
  <1>6. ASSUME NEW l \in Lookups, Sharing!Share(b, l)
        PROVE  /\ TypeOK' /\ LookupInv'
               /\ \A r \in Requests : Carried(r)
    <2>1. /\ told[b] = None /\ \A m \in Lookups : b \notin members[m]
          /\ state[l] = "running" /\ l[2] = b[2]
          /\ members' = [members EXCEPT ![l] = @ \cup {b}]
          /\ UNCHANGED <<want, told, state, answer>>
      BY <1>3, <1>6 DEF Sharing!Share, Sharing!Unserved, Sharing!Running
    <2>2. LoadsServeTheirKey'
      BY <1>1, <1>2, <2>1 DEF LoadsServeTheirKey, TypeOK
    <2>3. ToldTruthfully'
      BY <1>1, <1>2, <2>1 DEF ToldTruthfully, contextVars
    <2> QED
      BY <1>1, <1>2, <2>1, <2>2, <2>3, SharingFrame DEF TypeOK, CachesHoldAnswers
  <1> QED
    BY <1>4, <1>5, <1>6 DEF EnterSharing

\* Do returns the answer of the load, or ctx.Err() of an ended context.
LEMMA LeaveSharingStep ==
    ASSUME IInv, NEW b \in Lookups, LeaveSharing(b)
    PROVE  /\ TypeOK' /\ LookupInv'
           /\ \A r \in Requests : Carried(r)
  <1>1. TypeOK /\ LoadsServeTheirKey /\ ToldTruthfully /\ CachesHoldAnswers
    BY DEF IInv, LookupInv
  <1>2. UNCHANGED <<requestVars, contextVars, lookup, served, store>>
    BY DEF LeaveSharing, cacheVars
  <1>3. PICK l \in Lookups : \/ Sharing!Deliver(b, l)
                             \/ ctx[b[1]] # "live" /\ Sharing!Leave(b, l)
    BY DEF LeaveSharing
  <1> DEFINE said == told'[b]
  <1>4. /\ b \in members[l]
        /\ members' = [members EXCEPT ![l] = @ \ {b}]
        /\ UNCHANGED <<want, state, answer>>
    BY <1>3 DEF Sharing!Deliver, Sharing!Leave
  <1>5. /\ told' = [told EXCEPT ![b] = said]
        /\ said \in Answers(b[2]) \/ (said = "cancelled" /\ ctx[b[1]] # "live")
    <2>1. CASE Sharing!Deliver(b, l)
      BY <1>1, <1>4, <2>1 DEF Sharing!Deliver, LoadsServeTheirKey, TypeOK
    <2>2. CASE ctx[b[1]] # "live" /\ Sharing!Leave(b, l)
      BY <1>1, <2>2 DEF Sharing!Leave, TypeOK
    <2> QED
      BY <1>3, <2>1, <2>2
  <1> HIDE DEF said
  <1>6. told[b] = None /\ lookup[b] = "miss" /\ \A m \in Lookups : b \in members[m] => m = l
    BY <1>1, <1>4 DEF LoadsServeTheirKey
  <1>7. said \in Results \cup {"cancelled"} /\ (said = "cancelled" => ctx[b[1]] # "live")
    BY <1>5, AnswersAreResults, LookupParts
  <1>8. LoadsServeTheirKey'
    <2>1. ASSUME NEW m \in Lookups, NEW c \in members'[m]
          PROVE  c \in members[m] /\ told'[c] = told[c] /\ c \in Lookups
      BY <1>1, <1>4, <1>5, <1>6 DEF TypeOK
    <2>2. ASSUME NEW m \in Lookups PROVE members'[m] \subseteq members[m]
      BY <2>1
    <2> QED
      BY <1>1, <1>2, <1>4, <2>1, <2>2 DEF LoadsServeTheirKey
  <1>9. ToldTruthfully'
    BY <1>1, <1>2, <1>5, <1>6, <1>7 DEF ToldTruthfully, TypeOK, contextVars
  <1>10. /\ told' \in [Lookups -> Results \cup {None, "cancelled"}]
         /\ members' \in [Lookups -> SUBSET Lookups]
    BY <1>1, <1>4, <1>5, <1>7 DEF TypeOK
  <1>11. \A c \in Lookups : told[c] # None => told'[c] = told[c]
    BY <1>1, <1>5, <1>6 DEF TypeOK
  <1> QED
    BY <1>1, <1>2, <1>4, <1>8, <1>9, <1>10, <1>11, SharingFrame DEF TypeOK, CachesHoldAnswers

\* A load ends; what it caches is an answer for its key.
LEMMA LoadEndsStep ==
    ASSUME IInv, NEW l \in Lookups, NEW v \in Answers(l[2]), LoadEnds(l, v)
    PROVE  /\ TypeOK' /\ LookupInv'
           /\ \A r \in Requests : Carried(r)
  <1>1. TypeOK /\ LoadsServeTheirKey /\ ToldTruthfully /\ CachesHoldAnswers
    BY DEF IInv, LookupInv
  <1>2. /\ state[l] = "running"
        /\ state' = [state EXCEPT ![l] = "done"]
        /\ answer' = [answer EXCEPT ![l] = v]
        /\ UNCHANGED <<want, told, members>>
        /\ UNCHANGED <<requestVars, contextVars, lookup, served>>
        /\ store' = IF v = Failed THEN store ELSE [store EXCEPT ![l[2]] = v]
    BY <1>1 DEF LoadEnds, Sharing!Complete, Sharing!Running, TypeOK
  <1>3. v \in Results /\ l[2] \in Keys
    BY AnswersAreResults, LookupParts
  <1>4. LoadsServeTheirKey'
    BY <1>1, <1>2 DEF LoadsServeTheirKey, TypeOK
  <1>5. ToldTruthfully'
    BY <1>1, <1>2 DEF ToldTruthfully, contextVars
  <1>6. /\ store' \in [Keys -> Results \cup {None}]
        /\ \A k \in Keys : store'[k] # None => store'[k] \in Answers(k) \ {Failed}
    BY <1>1, <1>2, <1>3 DEF TypeOK, CachesHoldAnswers
  <1> QED
    BY <1>1, <1>2, <1>3, <1>4, <1>5, <1>6, SharingFrame DEF TypeOK

LEMMA EntryLostStep ==
    ASSUME IInv, NEW k \in Keys, EntryLost(k)
    PROVE  /\ TypeOK' /\ LookupInv'
           /\ \A r \in Requests : Carried(r)
  <1>1. TypeOK /\ LoadsServeTheirKey /\ ToldTruthfully /\ CachesHoldAnswers
    BY DEF IInv, LookupInv
  <1>2. /\ store' = [store EXCEPT ![k] = None]
        /\ UNCHANGED <<requestVars, contextVars, lookup, served, sharingVars>>
    BY DEF EntryLost
  <1>3. LoadsServeTheirKey' /\ ToldTruthfully'
    BY <1>1, <1>2 DEF LoadsServeTheirKey, ToldTruthfully, sharingVars, contextVars
  <1>4. /\ store' \in [Keys -> Results \cup {None}]
        /\ \A j \in Keys : store'[j] # None => store'[j] \in Answers(j) \ {Failed}
    BY <1>1, <1>2 DEF TypeOK, CachesHoldAnswers
  <1> QED
    BY <1>1, <1>2, <1>3, <1>4, SharingFrame DEF TypeOK, sharingVars

\* A context ends while the request is at work: nothing was told it yet, and
\* a feed that is drafted was drafted before.
LEMMA ContextEndsStep ==
    ASSUME IInv, NEW r \in Requests, NEW why \in {"canceled", "expired"}, ContextEnds(r, why)
    PROVE  /\ TypeOK' /\ LookupInv' /\ RequestInv(r)'
           /\ \A s \in Requests \ {r} : Carried(s)
  <1>1. TypeOK /\ LoadsServeTheirKey /\ ToldTruthfully /\ CachesHoldAnswers /\ RequestInv(r)
    BY DEF IInv, LookupInv
  <1>2. /\ pc[r] # "replied" /\ ctx[r] = "live"
        /\ ctx' = [ctx EXCEPT ![r] = why]
        /\ endedAt' = [endedAt EXCEPT ![r] = pc[r]]
        /\ UNCHANGED <<requestVars, lookup, served, store, sharingVars>>
    BY DEF ContextEnds, cacheVars
  <1>3. TypeOK'
    BY <1>1, <1>2 DEF TypeOK, requestVars, sharingVars
  <1>4. LookupInv'
    <2>1. \A s \in Requests : ctx[s] # "live" => ctx'[s] # "live"
      BY <1>1, <1>2 DEF TypeOK
    <2> QED
      BY <1>1, <1>2, <2>1, LookupParts DEF LookupInv, CachesHoldAnswers, LoadsServeTheirKey,
         ToldTruthfully, sharingVars
  <1>5. /\ flow' = flow /\ pc' = pc /\ ids' = ids /\ draft' = draft /\ reply' = reply
        /\ lookup' = lookup /\ served' = served /\ told' = told
    BY <1>2 DEF requestVars, sharingVars
  <1>6. ctx'[r] \in {"canceled", "expired"} /\ endedAt'[r] = pc[r]
    BY <1>1, <1>2 DEF TypeOK
  <1>7. LookupsFollowRequest(r)' /\ ReleasesDistinct(r)'
    BY <1>1, <1>5 DEF RequestInv, LookupsFollowRequest, ReleasesDistinct, Used, Drafted, Got
  <1>8. /\ Collected(r)' <=> Collected(r)
        /\ UpstreamFailed(r)' <=> UpstreamFailed(r)
        /\ Succeeded(r)' = Succeeded(r)
    BY <1>5 DEF Collected, UpstreamFailed, Succeeded, Got
  <1>9. DraftJustified(r)'
    <2>1. \A k \in Keys : Got(<<r, k>>)' = Got(<<r, k>>)
      BY <1>5 DEF Got
    <2>2. (\A k \in ToSet(ids[r]) : Got(<<r, k>>) # "cancelled") =>
          (\A k \in ToSet(ids[r]) : Got(<<r, k>>) # "cancelled")'
      BY <1>5 DEF Got
    <2> QED
      BY <1>1, <1>2, <1>5, <1>6, <1>8, <2>2 DEF RequestInv, DraftJustified, Drafted
  <1>10. ContextTold(r)' /\ ReplyDrafted(r)'
    BY <1>1, <1>2, <1>5, <1>6 DEF RequestInv, ContextTold, ReplyDrafted
  <1>11. ASSUME NEW s \in Requests \ {r} PROVE Carried(s)
    BY <1>1, <1>2, <1>5 DEF Carried, Used, Got, TypeOK
  <1> QED
    BY <1>3, <1>4, <1>7, <1>9, <1>10, <1>11 DEF RequestInv

------------------------------------------------------------------------------
(* The steps of a request                                                    *)

\* A request changes its own state only, and begins lookups that were idle.
LEMMA RequestFrame ==
    ASSUME IInv, NEW r \in Requests,
           flow' = flow, UNCHANGED <<contextVars, served, store, sharingVars>>,
           lookup' \in [Lookups -> {"idle", "new", "hit", "miss"}],
           \A b \in Lookups : \/ lookup'[b] = lookup[b]
                              \/ b[1] = r /\ lookup[b] = "idle" /\ lookup'[b] = "new",
           pc' \in [Requests -> Places], ids' \in [Requests -> Seq(Releases)],
           draft' \in [Requests -> Outcomes \cup {None}],
           reply' \in [Requests -> Outcomes \cup {None}],
           \A s \in Requests \ {r} : /\ pc'[s] = pc[s] /\ ids'[s] = ids[s]
                                     /\ draft'[s] = draft[s] /\ reply'[s] = reply[s]
    PROVE  /\ TypeOK' /\ LookupInv'
           /\ \A s \in Requests \ {r} : Carried(s)
           /\ \A k \in Keys : Got(<<r, k>>) # None => Got(<<r, k>>)' = Got(<<r, k>>)
  <1>1. TypeOK /\ LoadsServeTheirKey /\ ToldTruthfully /\ CachesHoldAnswers
    BY DEF IInv, LookupInv
  <1>2. TypeOK'
    BY <1>1 DEF TypeOK, contextVars, sharingVars
  <1>3. CachesHoldAnswers'
    BY <1>1 DEF CachesHoldAnswers
  <1>4. ASSUME NEW b \in Lookups PROVE lookup[b] = "miss" => lookup'[b] = "miss"
    OBVIOUS
  <1>5. LoadsServeTheirKey' /\ ToldTruthfully'
    <2>1. LoadsServeTheirKey'
      BY <1>1, <1>4 DEF LoadsServeTheirKey, TypeOK, sharingVars
    <2>2. ToldTruthfully'
      BY <1>1, <1>4 DEF ToldTruthfully, sharingVars, contextVars
    <2> QED
      BY <2>1, <2>2
  <1>6. ASSUME NEW b \in Lookups, Got(b) # None PROVE Got(b)' = Got(b)
    <2>1. lookup[b] = "idle" => told[b] = None
      BY <1>1 DEF ToldTruthfully
    <2>2. lookup[b] # "idle"
      BY <1>6, <2>1 DEF Got
    <2> QED
      BY <2>2 DEF Got, sharingVars
  <1>7. ASSUME NEW s \in Requests \ {r} PROVE Carried(s)
    <2>1. \A k \in Keys : <<s, k>> \in Lookups /\ lookup'[<<s, k>>] = lookup[<<s, k>>]
      BY LookupParts
    <2> QED
      BY <1>6, <2>1 DEF Carried, Used, contextVars
  <1> QED
    BY <1>2, <1>3, <1>5, <1>6, <1>7, LookupParts DEF LookupInv

\* What a lookup returned is an answer for its key, or ctx.Err() of a context
\* that has ended.
LEMMA GotIsAnswer ==
    ASSUME IInv, NEW r \in Requests, NEW k \in Keys, Got(<<r, k>>) # None
    PROVE  /\ Used(r, k)
           /\ Got(<<r, k>>) \in Answers(k) \cup {"cancelled"}
           /\ Got(<<r, k>>) = "cancelled" => ctx[r] # "live"
  <1> DEFINE b == <<r, k>>
  <1>1. b \in Lookups /\ b[1] = r /\ b[2] = k
    BY LookupParts
  <1>2. CASE lookup[b] = "hit"
    <2>1. Got(b) \in Answers(k)
      BY <1>1, <1>2 DEF Got, IInv, LookupInv, CachesHoldAnswers
    <2> QED
      BY <1>2, <2>1, AnswersAreResults DEF Used
  <1>3. CASE lookup[b] # "hit"
    <2>1. Got(b) = told[b]
      BY <1>3 DEF Got
    <2> QED
      BY <1>1, <1>3, <2>1 DEF IInv, LookupInv, ToldTruthfully, Used
  <1> QED
    BY <1>2, <1>3

\* The answers of the single load of a latest search, of the search itself and
\* of a branch, one by one.
LEMMA KindsOfAnswers ==
    /\ Query \in Keys /\ Latest \in Keys /\ Releases \subseteq Keys
    /\ Query \notin Releases /\ Latest \notin Releases
    /\ Answers(Query) = Matches \cup {Failed} /\ Answers(Latest) = {Torrents, Failed}
    /\ \A k \in Releases : Answers(k) = {Torrents, Failed}
    /\ \A m \in Matches : IDsOf[m] \in Seq(Releases)
  BY SearchRequestAssumption DEF Keys, Answers

LEMMA OutcomesBuilt ==
    /\ \A kind \in {"upstream_failed", "incorrect_parameter", "cancelled", "deadline_exceeded"} :
          Error(kind) \in Outcomes /\ Error(kind).kind = kind
    /\ \A s \in Seq(Keys) : Feed(s) \in Outcomes /\ Feed(s).kind = "feed" /\ Feed(s).from = s
  <1>1. << >> \in Seq(Keys)
    OBVIOUS
  <1> QED
    BY <1>1 DEF Error, Feed, Outcomes

\* Execute checks the context and the parameters and begins its first lookup.
LEMMA EnterStep ==
    ASSUME IInv, NEW r \in Requests, Enter(r)
    PROVE  /\ TypeOK' /\ LookupInv' /\ RequestInv(r)'
           /\ \A s \in Requests \ {r} : Carried(s)
  <1> DEFINE key == IF flow[r] = "latest" THEN Latest ELSE Query
  <1>1. TypeOK /\ RequestInv(r)
    BY DEF IInv
  <1>2. /\ pc[r] = "entering" /\ reply[r] = None
        /\ \A k \in Keys : <<r, k>> \in Lookups /\ lookup[<<r, k>>] = "idle"
        /\ ids[r] = << >> /\ ToSet(ids[r]) = {} /\ Len(ids[r]) = 0
        /\ ctx[r] # "live" => endedAt[r] # "rereading"
        /\ ctx[r] = "live" => endedAt[r] = None
    <2>1. pc[r] = "entering"
      BY DEF Enter
    <2> QED
      BY <1>1, <2>1, LookupParts DEF RequestInv, ReplyDrafted, LookupsFollowRequest, Used,
         ReleasesDistinct, ContextTold, ToSet
  <1>3. UNCHANGED <<flow, ids, reply, contextVars, served, store, sharingVars>>
    BY DEF Enter
  <1>4. CASE UNCHANGED lookup /\ \E kind \in {"upstream_failed", "incorrect_parameter"} :
                /\ Conclude(r, Error(kind))
                /\ kind = "upstream_failed" => ctx[r] # "live"
    <2>1. PICK kind \in {"upstream_failed", "incorrect_parameter"} :
             Conclude(r, Error(kind)) /\ (kind = "upstream_failed" => ctx[r] # "live")
      BY <1>4
    <2>2. /\ pc' = [pc EXCEPT ![r] = "stopping"]
          /\ draft' = [draft EXCEPT ![r] = Error(kind)]
          /\ Error(kind) \in Outcomes /\ Error(kind).kind = kind
      BY <2>1, OutcomesBuilt DEF Conclude, Goto
    <2>3. /\ pc'[r] = "stopping" /\ draft'[r] = Error(kind)
          /\ \A s \in Requests \ {r} : pc'[s] = pc[s] /\ draft'[s] = draft[s]
          /\ pc' \in [Requests -> Places] /\ draft' \in [Requests -> Outcomes \cup {None}]
      BY <1>1, <2>2 DEF TypeOK, Places
    <2>4. /\ TypeOK' /\ LookupInv'
          /\ \A s \in Requests \ {r} : Carried(s)
      BY <1>1, <1>3, <1>4, <2>3, RequestFrame DEF TypeOK
    <2>5. \A k \in Keys : ~Used(r, k)'
      BY <1>2, <1>4 DEF Used
    <2>6. RequestInv(r)'
      BY <1>1, <1>2, <1>3, <2>1, <2>2, <2>3, <2>5 DEF RequestInv, LookupsFollowRequest, Drafted,
         ReleasesDistinct, DraftJustified, ContextTold, ReplyDrafted, contextVars
    <2> QED
      BY <2>4, <2>6
  <1>5. CASE /\ flow[r] # "invalid" /\ Goto(r, "loading")
             /\ lookup' = [lookup EXCEPT ![<<r, key>>] = "new"]
             /\ UNCHANGED draft
    <2>1. key \in Keys /\ <<r, key>> \in Lookups
      BY <1>2, KindsOfAnswers
    <2>2. /\ pc'[r] = "loading" /\ pc' \in [Requests -> Places]
          /\ \A s \in Requests \ {r} : pc'[s] = pc[s]
      BY <1>1, <1>5 DEF Goto, TypeOK, Places
    <2>3. /\ lookup' \in [Lookups -> {"idle", "new", "hit", "miss"}]
          /\ \A b \in Lookups : \/ lookup'[b] = lookup[b]
                                \/ b[1] = r /\ lookup[b] = "idle" /\ lookup'[b] = "new"
      BY <1>1, <1>2, <1>5, <2>1 DEF TypeOK
    <2>4. /\ TypeOK' /\ LookupInv'
          /\ \A s \in Requests \ {r} : Carried(s)
      BY <1>1, <1>3, <1>5, <2>2, <2>3, RequestFrame DEF TypeOK
    <2>5. \A k \in Keys : Used(r, k)' => k = key
      BY <1>1, <1>2, <1>5 DEF Used, TypeOK
    <2>6. RequestInv(r)'
      BY <1>1, <1>2, <1>3, <1>5, <2>2, <2>5 DEF RequestInv, LookupsFollowRequest, Drafted,
         ReleasesDistinct, DraftJustified, ContextTold, ReplyDrafted, contextVars
    <2> QED
      BY <2>4, <2>6
  <1> QED
    BY <1>4, <1>5 DEF Enter

\* What a request has collected depends on its ids and on what it got.
LEMMA OnlyProgramCounterMoved ==
    ASSUME ids' = ids, UNCHANGED <<cacheVars, sharingVars>>, NEW r \in Requests
    PROVE  /\ Collected(r)' <=> Collected(r)
           /\ UpstreamFailed(r)' <=> UpstreamFailed(r)
           /\ Succeeded(r)' = Succeeded(r)
           /\ \A k \in Keys : (Used(r, k)' <=> Used(r, k)) /\ Got(<<r, k>>)' = Got(<<r, k>>)
           /\ (\A k \in ToSet(ids[r]) : Got(<<r, k>>) # "cancelled")' <=>
              (\A k \in ToSet(ids[r]) : Got(<<r, k>>) # "cancelled")
  BY DEF Collected, UpstreamFailed, Succeeded, Got, Used, cacheVars, sharingVars

\* Execute returns a feed it has collected under a live context, or an error
\* the upstream or the context has caused.
LEMMA ConcludeStep ==
    ASSUME IInv, NEW r \in Requests, NEW outcome \in Outcomes, Conclude(r, outcome),
           UNCHANGED <<flow, ids, reply, contextVars, cacheVars, sharingVars>>,
           pc[r] \in {"loading", "waiting", "processing"},
           \A k \in Keys : Used(r, k) => Got(<<r, k>>) # None,
           \/ /\ outcome.kind = "upstream_failed"
              /\ UpstreamFailed(r) \/ ctx[r] # "live"
           \/ /\ outcome.kind = "feed" /\ ctx[r] = "live"
              /\ flow[r] = "search" => Collected(r) /\ outcome.from = Succeeded(r)
    PROVE  /\ TypeOK' /\ LookupInv' /\ RequestInv(r)'
           /\ \A s \in Requests \ {r} : Carried(s)
  <1>1. TypeOK /\ RequestInv(r)
    BY DEF IInv
  <1>2. /\ pc'[r] = "stopping" /\ draft'[r] = outcome
        /\ \A s \in Requests \ {r} : pc'[s] = pc[s] /\ draft'[s] = draft[s]
        /\ pc' \in [Requests -> Places] /\ draft' \in [Requests -> Outcomes \cup {None}]
    BY <1>1 DEF TypeOK, Places, Conclude, Goto
  <1>3. /\ TypeOK' /\ LookupInv'
        /\ \A s \in Requests \ {r} : Carried(s)
    BY <1>1, <1>2, RequestFrame DEF TypeOK, cacheVars
  <1>4. /\ Collected(r)' <=> Collected(r)
        /\ UpstreamFailed(r)' <=> UpstreamFailed(r)
        /\ Succeeded(r)' = Succeeded(r)
        /\ \A k \in Keys : (Used(r, k)' <=> Used(r, k)) /\ Got(<<r, k>>)' = Got(<<r, k>>)
        /\ (\A k \in ToSet(ids[r]) : Got(<<r, k>>) # "cancelled")' <=>
           (\A k \in ToSet(ids[r]) : Got(<<r, k>>) # "cancelled")
    BY OnlyProgramCounterMoved
  <1>5. /\ ctx[r] = "live" => endedAt[r] = None
        /\ ctx[r] # "live" => endedAt[r] # "rereading"
        /\ reply[r] = None
    BY <1>1 DEF RequestInv, ContextTold, ReplyDrafted
  <1>6. ctx[r] = "live" /\ Collected(r) => \A k \in ToSet(ids[r]) : Got(<<r, k>>) # "cancelled"
    BY <1>1, GotIsAnswer, ReleasesAreKeys DEF Collected, TypeOK
  <1>7. LookupsFollowRequest(r)'
    BY <1>2, <1>4 DEF LookupsFollowRequest, Drafted
  <1>8. ReleasesDistinct(r)'
    BY <1>1, <1>2 DEF RequestInv, ReleasesDistinct
  <1>9. DraftJustified(r)'
    BY <1>2, <1>4, <1>5, <1>6 DEF DraftJustified, Drafted, contextVars
  <1>10. ContextTold(r)' /\ ReplyDrafted(r)'
    BY <1>1, <1>2, <1>5 DEF RequestInv, ContextTold, ReplyDrafted, contextVars
  <1> QED
    BY <1>3, <1>7, <1>8, <1>9, <1>10 DEF RequestInv

\* Execute goes on with what was collected.
LEMMA ProceedStep ==
    ASSUME IInv, NEW r \in Requests, Goto(r, "processing"), flow[r] \in {"search", "latest"},
           UNCHANGED <<flow, ids, draft, reply, contextVars, cacheVars, sharingVars>>,
           pc[r] \in {"loading", "waiting"},
           \A k \in Keys : Used(r, k) => Got(<<r, k>>) # None,
           flow[r] = "search" => Collected(r)
    PROVE  /\ TypeOK' /\ LookupInv' /\ RequestInv(r)'
           /\ \A s \in Requests \ {r} : Carried(s)
  <1>1. TypeOK /\ RequestInv(r)
    BY DEF IInv
  <1>2. /\ pc'[r] = "processing"
        /\ \A s \in Requests \ {r} : pc'[s] = pc[s]
        /\ pc' \in [Requests -> Places]
    BY <1>1 DEF TypeOK, Places, Goto
  <1>3. /\ TypeOK' /\ LookupInv'
        /\ \A s \in Requests \ {r} : Carried(s)
    BY <1>1, <1>2, RequestFrame DEF TypeOK, cacheVars
  <1>4. /\ Collected(r)' <=> Collected(r)
        /\ \A k \in Keys : (Used(r, k)' <=> Used(r, k)) /\ Got(<<r, k>>)' = Got(<<r, k>>)
    BY OnlyProgramCounterMoved
  <1>5. LookupsFollowRequest(r)'
    BY <1>2, <1>4 DEF LookupsFollowRequest, Drafted
  <1>6. ReleasesDistinct(r)'
    BY <1>1, <1>2 DEF RequestInv, ReleasesDistinct
  <1>7. DraftJustified(r)'
    BY <1>2, <1>4 DEF DraftJustified, Drafted
  <1>8. ContextTold(r)' /\ ReplyDrafted(r)'
    BY <1>1, <1>2 DEF RequestInv, ContextTold, ReplyDrafted, contextVars
  <1> QED
    BY <1>3, <1>5, <1>6, <1>7, <1>8 DEF RequestInv

LEMMA LatestLoadedStep ==
    ASSUME IInv, NEW r \in Requests, LatestLoaded(r)
    PROVE  /\ TypeOK' /\ LookupInv' /\ RequestInv(r)'
           /\ \A s \in Requests \ {r} : Carried(s)
  <1>1. /\ pc[r] = "loading" /\ flow[r] = "latest" /\ Got(<<r, Latest>>) # None
        /\ UNCHANGED <<flow, ids, reply, contextVars, cacheVars, sharingVars>>
    BY DEF LatestLoaded
  <1>2. \A k \in Keys : Used(r, k) => Got(<<r, k>>) # None
    BY <1>1 DEF IInv, RequestInv, LookupsFollowRequest
  <1>3. CASE Got(<<r, Latest>>) = Torrents
    BY <1>1, <1>2, <1>3, ProceedStep DEF LatestLoaded
  <1>4. CASE Got(<<r, Latest>>) # Torrents
    <2>1. Got(<<r, Latest>>) = Failed \/ ctx[r] # "live"
      BY <1>1, <1>4, GotIsAnswer, KindsOfAnswers
    <2>2. UpstreamFailed(r) \/ ctx[r] # "live"
      BY <2>1 DEF UpstreamFailed
    <2>3. Conclude(r, Error("upstream_failed"))
      BY <1>4 DEF LatestLoaded
    <2>4. Error("upstream_failed") \in Outcomes /\ Error("upstream_failed").kind = "upstream_failed"
      BY OutcomesBuilt
    <2> QED
      BY <1>1, <1>2, <2>2, <2>3, <2>4, ConcludeStep
  <1> QED
    BY <1>3, <1>4

\* wg.Wait is over: every branch has returned.
LEMMA CollectStep ==
    ASSUME IInv, NEW r \in Requests, Collect(r)
    PROVE  /\ TypeOK' /\ LookupInv' /\ RequestInv(r)'
           /\ \A s \in Requests \ {r} : Carried(s)
  <1>1. /\ pc[r] = "waiting" /\ \A k \in ToSet(ids[r]) : Got(<<r, k>>) # None
        /\ UNCHANGED <<flow, ids, reply, contextVars, cacheVars, sharingVars>>
    BY DEF Collect
  <1>2. /\ flow[r] = "search" /\ ids[r] # << >>
        /\ \A k \in Keys : Used(r, k) => Got(<<r, k>>) # None
    BY <1>1 DEF IInv, RequestInv, LookupsFollowRequest
  <1>3. CASE ctx[r] # "live" \/ Succeeded(r) = << >>
    <2>1. ASSUME ctx[r] = "live" PROVE UpstreamFailed(r)
      <3>1. \A k \in ToSet(ids[r]) : Got(<<r, k>>) # Torrents
        BY <1>3, <2>1, NothingSucceeded DEF IInv, TypeOK, RequestInv
      <3>2. \A k \in ToSet(ids[r]) : k \in Releases /\ k \in Keys
        BY ReleasesAreKeys DEF IInv, TypeOK
      <3>3. \A k \in ToSet(ids[r]) : Got(<<r, k>>) = Failed
        BY <1>1, <2>1, <3>1, <3>2, GotIsAnswer, KindsOfAnswers
      <3> QED
        BY <1>2, <3>3 DEF UpstreamFailed
    <2>2. Conclude(r, Error("upstream_failed"))
      BY <1>3 DEF Collect
    <2>3. Error("upstream_failed") \in Outcomes /\ Error("upstream_failed").kind = "upstream_failed"
      BY OutcomesBuilt
    <2> QED
      BY <1>1, <1>2, <2>1, <2>2, <2>3, ConcludeStep
  <1>4. CASE ~(ctx[r] # "live" \/ Succeeded(r) = << >>)
    <2>1. Collected(r)
      BY <1>1, <1>4 DEF Collected
    <2>2. Goto(r, "processing") /\ UNCHANGED draft
      BY <1>4 DEF Collect
    <2> QED
      BY <1>1, <1>2, <2>1, <2>2, ProceedStep
  <1> QED
    BY <1>3, <1>4

\* The rest of Execute.
LEMMA ProcessStep ==
    ASSUME IInv, NEW r \in Requests, Process(r)
    PROVE  /\ TypeOK' /\ LookupInv' /\ RequestInv(r)'
           /\ \A s \in Requests \ {r} : Carried(s)
  <1>1. /\ pc[r] = "processing"
        /\ UNCHANGED <<flow, ids, reply, contextVars, cacheVars, sharingVars>>
    BY DEF Process
  <1>2. /\ \A k \in Keys : Used(r, k) => Got(<<r, k>>) # None
        /\ flow[r] \in {"search", "latest"} /\ (flow[r] = "search" => Collected(r))
    BY <1>1 DEF IInv, RequestInv, LookupsFollowRequest, DraftJustified
  <1>3. CASE ctx[r] # "live"
    <2>1. Conclude(r, Error("upstream_failed"))
      BY <1>3 DEF Process
    <2>2. Error("upstream_failed") \in Outcomes /\ Error("upstream_failed").kind = "upstream_failed"
      BY OutcomesBuilt
    <2> QED
      BY <1>1, <1>2, <1>3, <2>1, <2>2, ConcludeStep
  <1>4. CASE ctx[r] = "live"
    <2> DEFINE from == IF flow[r] = "latest" THEN <<Latest>> ELSE Succeeded(r)
    <2>1. Conclude(r, Feed(from))
      BY <1>4 DEF Process
    <2>2. from \in Seq(Keys)
      <3>1. Succeeded(r) \in Seq(Releases)
        BY SucceededInOrder DEF IInv, TypeOK, RequestInv, ReleasesDistinct
      <3>2. \A s \in Seq(Releases) : s \in Seq(Keys)
        BY KindsOfAnswers
      <3>3. <<Latest>> \in Seq(Keys)
        BY KindsOfAnswers
      <3> QED
        BY <3>1, <3>2, <3>3
    <2>3. flow[r] = "search" => from = Succeeded(r)
      OBVIOUS
    <2> HIDE DEF from
    <2>4. Feed(from) \in Outcomes /\ Feed(from).kind = "feed" /\ Feed(from).from = from
      BY <2>2, OutcomesBuilt
    <2> QED
      BY <1>1, <1>2, <1>4, <2>1, <2>3, <2>4, ConcludeStep
  <1> QED
    BY <1>3, <1>4

\* cachedSearch has returned: the branches begin, one per distinct release.
LEMMA FanOutStep ==
    ASSUME IInv, NEW r \in Requests, FanOut(r)
    PROVE  /\ TypeOK' /\ LookupInv' /\ RequestInv(r)'
           /\ \A s \in Requests \ {r} : Carried(s)
  <1> DEFINE found == Got(<<r, Query>>)
             list  == Distinct(IDsOf[found])
  <1>1. TypeOK /\ RequestInv(r)
    BY DEF IInv
  <1>2. /\ pc[r] = "loading" /\ flow[r] = "search" /\ found # None
        /\ UNCHANGED <<flow, reply, contextVars, served, store, sharingVars>>
    BY DEF FanOut
  <1>3. \A k \in Keys : Used(r, k) => k = Query
    BY <1>1, <1>2 DEF RequestInv, LookupsFollowRequest
  <1>4. CASE found \notin Matches
    <2>1. UNCHANGED <<flow, ids, reply, contextVars, cacheVars, sharingVars>>
      BY <1>2, <1>4 DEF FanOut, cacheVars
    <2>2. \A k \in Keys : Used(r, k) => Got(<<r, k>>) # None
      BY <1>2, <1>3
    <2>3. found = Failed \/ ctx[r] # "live"
      BY <1>2, <1>4, GotIsAnswer, KindsOfAnswers
    <2>4. UpstreamFailed(r) \/ ctx[r] # "live"
      BY <2>3 DEF UpstreamFailed
    <2>5. Conclude(r, Error("upstream_failed"))
      BY <1>4 DEF FanOut
    <2>6. Error("upstream_failed") \in Outcomes /\ Error("upstream_failed").kind = "upstream_failed"
      BY OutcomesBuilt
    <2> QED
      BY <1>2, <2>1, <2>2, <2>4, <2>5, <2>6, ConcludeStep
  <1>5. CASE found \in Matches
    <2>1. /\ list \in Seq(Releases) /\ Len(list) <= MaxReleases
          /\ \A i, j \in DOMAIN list : list[i] = list[j] => i = j
      <3>1. IDsOf[found] \in Seq(Releases)
        BY <1>5, KindsOfAnswers
      <3> QED
        BY <3>1, DistinctWithinLimit
    <2>2. /\ ids' = [ids EXCEPT ![r] = list]
          /\ lookup' = [b \in Lookups |-> IF b[1] = r /\ b[2] \in ToSet(list)
                                          THEN "new" ELSE lookup[b]]
          /\ Goto(r, IF list = << >> THEN "processing" ELSE "waiting")
          /\ UNCHANGED draft
      BY <1>5 DEF FanOut
    <2> HIDE DEF list
    <2>3. ToSet(list) \subseteq Releases
      BY <2>1 DEF ToSet
    <2>4. /\ lookup' \in [Lookups -> {"idle", "new", "hit", "miss"}]
          /\ \A b \in Lookups : \/ lookup'[b] = lookup[b]
                                \/ b[1] = r /\ lookup[b] = "idle" /\ lookup'[b] = "new"
      <3>1. ASSUME NEW b \in Lookups, b[1] = r, b[2] \in ToSet(list) PROVE lookup[b] = "idle"
        BY <1>3, <2>3, <3>1, LookupParts, KindsOfAnswers DEF Used
      <3> QED
        BY <1>1, <2>2, <3>1 DEF TypeOK
    <2>5. /\ pc'[r] = IF list = << >> THEN "processing" ELSE "waiting"
          /\ ids'[r] = list
          /\ pc' \in [Requests -> Places] /\ ids' \in [Requests -> Seq(Releases)]
          /\ \A s \in Requests \ {r} : pc'[s] = pc[s] /\ ids'[s] = ids[s]
      BY <1>1, <2>1, <2>2 DEF TypeOK, Places, Goto
    <2>6. /\ TypeOK' /\ LookupInv'
          /\ \A s \in Requests \ {r} : Carried(s)
          /\ \A k \in Keys : Got(<<r, k>>) # None => Got(<<r, k>>)' = Got(<<r, k>>)
      BY <1>1, <1>2, <2>2, <2>4, <2>5, RequestFrame DEF TypeOK
    <2>7. \A k \in Keys : Used(r, k)' => k \in ToSet(list) \/ Got(<<r, k>>)' # None
      <3>1. ASSUME NEW k \in Keys, lookup'[<<r, k>>] # "idle", k \notin ToSet(list)
            PROVE  Got(<<r, k>>)' # None
        <4>1. <<r, k>> \in Lookups /\ lookup'[<<r, k>>] = lookup[<<r, k>>]
          BY <2>2, <3>1, LookupParts
        <4>2. k = Query
          BY <1>3, <3>1, <4>1 DEF Used
        <4> QED
          BY <1>2, <2>6, <4>2
      <3> QED
        BY <3>1 DEF Used
    <2>8. LookupsFollowRequest(r)'
      <3>1. CASE list = << >>
        <4>1. ToSet(list) = {}
          BY <3>1 DEF ToSet
        <4> QED
          BY <2>5, <2>7, <3>1, <4>1 DEF LookupsFollowRequest, Drafted
      <3>2. CASE list # << >>
        BY <1>2, <2>5, <2>7, <3>2 DEF LookupsFollowRequest, Drafted
      <3> QED
        BY <3>1, <3>2
    <2>9. ReleasesDistinct(r)'
      BY <2>1, <2>5 DEF ReleasesDistinct
    <2>10. DraftJustified(r)'
      <3>1. CASE list = << >>
        <4>1. ids'[r] = << >> /\ ToSet(ids'[r]) = {}
          BY <2>5, <3>1 DEF ToSet
        <4>2. Collected(r)'
          BY <4>1 DEF Collected
        <4> QED
          BY <1>2, <2>5, <3>1, <4>2 DEF DraftJustified, Drafted
      <3>2. CASE list # << >>
        BY <2>5, <3>2 DEF DraftJustified, Drafted
      <3> QED
        BY <3>1, <3>2
    <2>11. ContextTold(r)' /\ ReplyDrafted(r)'
      BY <1>1, <1>2, <2>5 DEF RequestInv, ContextTold, ReplyDrafted, contextVars
    <2> QED
      BY <2>6, <2>8, <2>9, <2>10, <2>11 DEF RequestInv
  <1> QED
    BY <1>4, <1>5

\* stopForContext and the writing keep the draft; only a draft of a context
\* that is alive, or ended between the two reads, is written.
LEMMA StopStep ==
    ASSUME IInv, NEW r \in Requests, StopIfCanceled(r) \/ StopIfExpired(r)
    PROVE  /\ TypeOK' /\ LookupInv' /\ RequestInv(r)'
           /\ \A s \in Requests \ {r} : Carried(s)
  <1>1. TypeOK /\ RequestInv(r)
    BY DEF IInv
  <1>2. /\ pc[r] \in {"stopping", "rereading"} /\ Drafted(r) /\ reply[r] = None
        /\ UNCHANGED <<flow, ids, draft, contextVars, cacheVars, sharingVars>>
    BY <1>1 DEF StopIfCanceled, StopIfExpired, Drafted, RequestInv, ReplyDrafted
  <1>3. draft[r] \in Outcomes
    BY <1>1, <1>2 DEF RequestInv, DraftJustified
  <1>4. \/ /\ pc' = [pc EXCEPT ![r] = "rereading"] /\ reply' = reply
           /\ pc[r] = "stopping" /\ ctx[r] # "canceled"
        \/ \E outcome \in Outcomes :
              /\ pc' = [pc EXCEPT ![r] = "replied"]
              /\ reply' = [reply EXCEPT ![r] = outcome]
              /\ \/ outcome.kind \in {"cancelled", "deadline_exceeded"}
                 \/ outcome = draft[r] /\ pc[r] = "rereading" /\ ctx[r] # "expired"
    <2>1. CASE StopIfCanceled(r)
      BY <2>1, OutcomesBuilt DEF StopIfCanceled, Reply, Goto
    <2>2. CASE StopIfExpired(r)
      <3>1. CASE ctx[r] = "expired"
        BY <2>2, <3>1, OutcomesBuilt DEF StopIfExpired, Reply, Goto
      <3>2. CASE ctx[r] # "expired"
        BY <1>3, <2>2, <3>2 DEF StopIfExpired, Reply, Goto
      <3> QED
        BY <3>1, <3>2
    <2> QED
      BY <2>1, <2>2
  <1>5. /\ pc'[r] \in {"rereading", "replied"}
        /\ pc' \in [Requests -> Places] /\ reply' \in [Requests -> Outcomes \cup {None}]
        /\ \A s \in Requests \ {r} : pc'[s] = pc[s] /\ reply'[s] = reply[s]
        /\ pc'[r] = "rereading" => reply'[r] = None /\ ctx[r] # "canceled"
        /\ pc'[r] = "replied" =>
              \/ reply'[r].kind \in {"cancelled", "deadline_exceeded"}
              \/ /\ reply'[r] = draft[r] /\ pc[r] = "rereading" /\ ctx[r] # "expired"
    <2>1. CASE /\ pc' = [pc EXCEPT ![r] = "rereading"] /\ reply' = reply
               /\ pc[r] = "stopping" /\ ctx[r] # "canceled"
      BY <1>1, <1>2, <2>1 DEF TypeOK, Places
    <2>2. ASSUME NEW outcome \in Outcomes,
                 pc' = [pc EXCEPT ![r] = "replied"], reply' = [reply EXCEPT ![r] = outcome],
                 \/ outcome.kind \in {"cancelled", "deadline_exceeded"}
                 \/ outcome = draft[r] /\ pc[r] = "rereading" /\ ctx[r] # "expired"
          PROVE  /\ pc'[r] \in {"rereading", "replied"}
                 /\ pc' \in [Requests -> Places] /\ reply' \in [Requests -> Outcomes \cup {None}]
                 /\ \A s \in Requests \ {r} : pc'[s] = pc[s] /\ reply'[s] = reply[s]
                 /\ pc'[r] = "rereading" => reply'[r] = None /\ ctx[r] # "canceled"
                 /\ pc'[r] = "replied" =>
                       \/ reply'[r].kind \in {"cancelled", "deadline_exceeded"}
                       \/ /\ reply'[r] = draft[r] /\ pc[r] = "rereading" /\ ctx[r] # "expired"
      BY <1>1, <2>2 DEF TypeOK, Places
    <2> QED
      BY <1>4, <2>1, <2>2
  <1>6. /\ TypeOK' /\ LookupInv'
        /\ \A s \in Requests \ {r} : Carried(s)
    BY <1>1, <1>2, <1>5, RequestFrame DEF TypeOK, cacheVars
  <1>7. /\ Collected(r)' <=> Collected(r)
        /\ UpstreamFailed(r)' <=> UpstreamFailed(r)
        /\ Succeeded(r)' = Succeeded(r)
        /\ \A k \in Keys : (Used(r, k)' <=> Used(r, k)) /\ Got(<<r, k>>)' = Got(<<r, k>>)
        /\ (\A k \in ToSet(ids[r]) : Got(<<r, k>>) # "cancelled")' <=>
           (\A k \in ToSet(ids[r]) : Got(<<r, k>>) # "cancelled")
    BY <1>2, OnlyProgramCounterMoved
  <1>8. LookupsFollowRequest(r)'
    BY <1>1, <1>2, <1>5, <1>7 DEF RequestInv, LookupsFollowRequest, Drafted
  <1>9. ReleasesDistinct(r)'
    BY <1>1, <1>2, <1>5 DEF RequestInv, ReleasesDistinct
  <1>10. DraftJustified(r)'
    BY <1>1, <1>2, <1>5, <1>7 DEF RequestInv, DraftJustified, Drafted, contextVars
  <1>11. ContextTold(r)'
    BY <1>1, <1>2, <1>5 DEF RequestInv, ContextTold, contextVars
  <1>12. ReplyDrafted(r)'
    <2>1. ctx[r] \in {"live", "canceled", "expired"}
      BY <1>1 DEF TypeOK
    <2> QED
      BY <1>1, <1>2, <1>5, <2>1 DEF RequestInv, ReplyDrafted, ContextTold, contextVars
  <1> QED
    BY <1>6, <1>8, <1>9, <1>10, <1>11, <1>12 DEF RequestInv

LEMMA StepPreserves == IInv /\ [Next]_vars => IInv'
  <1> SUFFICES ASSUME IInv, [Next]_vars PROVE IInv'
    OBVIOUS
  <1>1. \A s \in Requests : Carried(s) => RequestInv(s)'
    BY CarriedKeepsInv DEF IInv, TypeOK
  <1>2. ASSUME NEW r \in Requests, RequestStep(r) PROVE IInv'
    <2>1. /\ TypeOK' /\ LookupInv' /\ RequestInv(r)'
          /\ \A s \in Requests \ {r} : Carried(s)
      BY <1>2, EnterStep, LatestLoadedStep, FanOutStep, CollectStep, ProcessStep, StopStep
         DEF RequestStep
    <2> QED
      BY <1>1, <2>1 DEF IInv
  <1>3. ASSUME NEW r \in Requests, NEW why \in {"canceled", "expired"}, ContextEnds(r, why)
        PROVE  IInv'
    BY <1>1, <1>3, ContextEndsStep DEF IInv
  <1>4. ASSUME NEW b \in Lookups, LookupStep(b) PROVE IInv'
    <2>1. TypeOK' /\ LookupInv' /\ \A r \in Requests : Carried(r)
      BY <1>4, CacheStep, EnterSharingStep, LeaveSharingStep DEF LookupStep
    <2> QED
      BY <1>1, <2>1 DEF IInv
  <1>5. ASSUME NEW b \in Lookups, NEW v \in Answers(b[2]), LoadEnds(b, v) PROVE IInv'
    BY <1>1, <1>5, LoadEndsStep DEF IInv
  <1>6. ASSUME NEW k \in Keys, EntryLost(k) PROVE IInv'
    BY <1>1, <1>6, EntryLostStep DEF IInv
  <1>7. ASSUME UNCHANGED vars PROVE IInv'
    <2>1. UNCHANGED <<requestVars, contextVars, lookup, served, store, sharingVars>>
      BY <1>7 DEF vars, cacheVars
    <2>2. TypeOK'
      BY <2>1 DEF IInv, TypeOK, requestVars, contextVars, sharingVars
    <2>3. LookupInv'
      BY <2>1 DEF IInv, LookupInv, CachesHoldAnswers, LoadsServeTheirKey, ToldTruthfully,
         contextVars, sharingVars
    <2>4. \A r \in Requests : Carried(r)
      BY <2>1 DEF Carried, Used, Got, requestVars, contextVars, sharingVars
    <2> QED
      BY <1>1, <2>2, <2>3, <2>4 DEF IInv
  <1> QED
    BY <1>2, <1>3, <1>4, <1>5, <1>6, <1>7 DEF Next

------------------------------------------------------------------------------
(* The theorems                                                              *)

\* In every reachable state the variables have their types, caches and loads
\* hold answers for their keys, and each request is as far as its lookups are.
THEOREM RequestsConsistent == Spec => []IInv
  BY InitEstablishes, StepPreserves, PTL DEF Spec

\* A reply is the draft of a context that is alive, or that ended between the
\* two reads of stopForContext.
LEMMA DraftReplied ==
    ASSUME IInv, NEW r \in Requests, reply[r] # None,
           reply[r].kind \in {"feed", "upstream_failed"}
    PROVE  /\ Drafted(r) /\ reply[r] = draft[r] /\ DraftJustified(r)
           /\ ctx[r] = "live" \/ endedAt[r] = "rereading"
           /\ endedAt[r] \in {None, "rereading"}
  BY DEF IInv, RequestInv, ReplyDrafted, Drafted, ContextTold

\* "Parent cancellation or deadline expiry takes priority over any completed
\* fan-out branches": the feed was collected under a live context, and both
\* reads of stopForContext found no end of it.
THEOREM EndBeatsResults == Spec => []EndedContextBeatsResults
  <1>1. IInv => EndedContextBeatsResults
    BY DraftReplied DEF EndedContextBeatsResults
  <1> QED
    BY <1>1, RequestsConsistent, PTL

\* loadSearch leaves a release out of a feed only if the upstream failed for
\* it, and keeps the order of the search, for any number of branches.
THEOREM PartialFeedsHonest == Spec => []PartialFeedIsHonest
  <1>1. ASSUME IInv, NEW r \in Requests, reply[r] # None, reply[r].kind = "feed",
               flow[r] = "search"
        PROVE  /\ IsInjective(reply[r].from) /\ Len(reply[r].from) <= MaxReleases
               /\ ToSet(reply[r].from) = {k \in ToSet(ids[r]) : Got(<<r, k>>) # Failed}
               /\ \A i, j \in DOMAIN reply[r].from : i < j =>
                     \E p, q \in DOMAIN ids[r] :
                         /\ p < q
                         /\ ids[r][p] = reply[r].from[i] /\ ids[r][q] = reply[r].from[j]
               /\ ids[r] = << >> \/ reply[r].from # << >>
    <2>1. /\ reply[r].from = Succeeded(r) /\ Collected(r)
          /\ \A k \in ToSet(ids[r]) : Got(<<r, k>>) # "cancelled"
      BY <1>1, DraftReplied DEF DraftJustified
    <2>2. /\ ids[r] \in Seq(Releases) /\ Len(ids[r]) <= MaxReleases
          /\ \A i, j \in DOMAIN ids[r] : ids[r][i] = ids[r][j] => i = j
      BY <1>1 DEF IInv, TypeOK, RequestInv, ReleasesDistinct
    <2>3. /\ Succeeded(r) \in Seq(Releases)
          /\ Len(Succeeded(r)) <= Len(ids[r])
          /\ ToSet(Succeeded(r)) = {k \in ToSet(ids[r]) : Got(<<r, k>>) = Torrents}
          /\ \A i, j \in DOMAIN Succeeded(r) : Succeeded(r)[i] = Succeeded(r)[j] => i = j
          /\ \A i, j \in DOMAIN Succeeded(r) : i < j =>
                \E p, q \in DOMAIN ids[r] :
                   /\ p < q
                   /\ ids[r][p] = Succeeded(r)[i] /\ ids[r][q] = Succeeded(r)[j]
      BY <2>2, SucceededInOrder
    <2>4. \A k \in ToSet(ids[r]) : Got(<<r, k>>) = Torrents <=> Got(<<r, k>>) # Failed
      <3>1. ASSUME NEW k \in ToSet(ids[r]) PROVE Got(<<r, k>>) \in {Torrents, Failed}
        <4>1. k \in Releases /\ k \in Keys
          BY <2>2, ReleasesAreKeys
        <4> QED
          BY <1>1, <2>1, <4>1, GotIsAnswer, KindsOfAnswers DEF Collected
      <3>2. Torrents # Failed
        BY SearchRequestAssumption
      <3> QED
        BY <3>1, <3>2
    <2>5. IsInjective(Succeeded(r))
      BY <2>3 DEF IsInjective
    <2>6. Len(Succeeded(r)) <= MaxReleases
      BY <2>2, <2>3, SearchRequestAssumption
    <2>7. ToSet(Succeeded(r)) = {k \in ToSet(ids[r]) : Got(<<r, k>>) # Failed}
      BY <2>3, <2>4
    <2> QED
      BY <2>1, <2>3, <2>5, <2>6, <2>7 DEF Collected
  <1>2. IInv => PartialFeedIsHonest
    BY <1>1 DEF PartialFeedIsHonest
  <1> QED
    BY <1>2, RequestsConsistent, PTL

\* A request completes as upstream_failed only if the upstream failed: an end
\* of the request's own context is told apart by stopForContext.
THEOREM BlamedFairly == Spec => []UpstreamBlamedFairly
  <1>1. IInv => UpstreamBlamedFairly
    BY DraftReplied DEF UpstreamBlamedFairly, DraftJustified, UpstreamFailed
  <1> QED
    BY <1>1, RequestsConsistent, PTL

\* wg.Wait keeps the request until every branch has returned, also the ones
\* whose context has ended.
THEOREM BranchesEndFirst == Spec => []NoBranchOutlivesRequest
  <1>1. IInv => NoBranchOutlivesRequest
    BY DEF NoBranchOutlivesRequest, IInv, RequestInv, LookupsFollowRequest, Drafted, Used
  <1> QED
    BY <1>1, RequestsConsistent, PTL
==============================================================================
