--------------------------------- MODULE LRU ---------------------------------
(****************************************************************************)
(* What the bounded cache of internal/cache/lru.go promises.  Every exported *)
(* method runs entirely under cache.mu, so each is one action; the list and  *)
(* the heap that implement it are in LRUHeap.                                *)
(****************************************************************************)
EXTENDS Integers, FiniteSets

CONSTANTS
    Keys, Values,
    MaxEntries,   \* maxEntries
    TTLs,         \* the ttl arguments callers pass, non-positive ones included
    MaxTime,      \* bound on the clock
    None          \* no value

VARIABLES
    now,        \* the clock
    rank,       \* 1 for the most recently used key, 2 for the next, 0 if absent
    value,      \* entry.value
    expiresAt,  \* entry.expiresAt
    reply       \* what the last method call returned

vars == <<now, rank, value, expiresAt, reply>>

Stored == {k \in Keys : rank[k] > 0}
Expired(k) == expiresAt[k] <= now
Live(k) == k \in Stored /\ ~Expired(k)

Init ==
    /\ now = 0
    /\ rank = [k \in Keys |-> 0]
    /\ value = [k \in Keys |-> None]
    /\ expiresAt = [k \in Keys |-> 0]
    /\ reply = None

\* k becomes the most recently used key.
Promoted(rk, k) ==
    [j \in Keys |->
        IF j = k THEN 1
        ELSE IF rk[j] > 0 /\ (rk[k] = 0 \/ rk[j] < rk[k]) THEN rk[j] + 1
        ELSE rk[j]]

\* The keys in S are removed, the others keep their order.
Without(rk, S) ==
    [j \in Keys |->
        IF j \in S \/ rk[j] = 0 THEN 0
        ELSE Cardinality({i \in Keys \ S : rk[i] \in 1..rk[j]})]

\* The keys in S leave the cache with their entries.
Drop(S) ==
    /\ rank' = Without(rank, S)
    /\ value' = [j \in Keys |-> IF j \in S THEN None ELSE value[j]]
    /\ expiresAt' = [j \in Keys |-> IF j \in S THEN 0 ELSE expiresAt[j]]

Hit(k) ==
    /\ Live(k)
    /\ rank' = Promoted(rank, k)
    /\ reply' = value[k]
    /\ UNCHANGED <<now, value, expiresAt>>

\* A miss on an expired entry removes it.
Miss(k) ==
    /\ ~Live(k)
    /\ Drop({k} \cap Stored)
    /\ reply' = None
    /\ UNCHANGED now

Get(k) == Hit(k) \/ Miss(k)

\* What a Set that overfills the cache throws out: all expired entries, or the
\* least recently used one if none is expired.
Evicted(rk, exp) ==
    LET filled  == {j \in Keys : rk[j] > 0}
        expired == {j \in filled : exp[j] <= now}
        oldest  == {j \in filled : \A i \in filled : rk[i] <= rk[j]}
    IN  IF Cardinality(filled) <= MaxEntries THEN {}
        ELSE IF expired # {} THEN expired ELSE oldest

\* Set with a positive ttl.  Only a new key can overfill the cache.
Store(k, v, ttl) ==
    /\ ttl > 0
    /\ LET rk  == Promoted(rank, k)
           exp == [expiresAt EXCEPT ![k] = now + ttl]
           out == Evicted(rk, exp)
       IN  /\ rank' = Without(rk, out)
           /\ value' = [j \in Keys |-> IF j \in out THEN None
                                       ELSE IF j = k THEN v ELSE value[j]]
           /\ expiresAt' = [j \in Keys |-> IF j \in out THEN 0 ELSE exp[j]]
    /\ reply' = None
    /\ UNCHANGED now

\* Delete, and Set with a ttl that is not positive.
Delete(k) ==
    /\ Drop({k} \cap Stored)
    /\ reply' = None
    /\ UNCHANGED now

Set(k, v, ttl) == Store(k, v, ttl) \/ (ttl <= 0 /\ Delete(k))

Len ==
    /\ Drop({k \in Stored : Expired(k)})
    /\ reply' = Cardinality({k \in Keys : Live(k)})
    /\ UNCHANGED now

\* The clock advances, up to its bound.
Tick ==
    /\ now < MaxTime
    /\ now' = now + 1
    /\ UNCHANGED <<rank, value, expiresAt, reply>>

Next ==
    \/ \E k \in Keys :
          \/ Get(k)
          \/ \E v \in Values, ttl \in TTLs : Set(k, v, ttl)
          \/ Delete(k)
    \/ Len
    \/ Tick

Spec == Init /\ [][Next]_vars
==============================================================================
