------------------------------- MODULE LRUHeap -------------------------------
(****************************************************************************)
(* internal/cache/lru.go: the cache as a map, a recency list and a heap of   *)
(* expiry times that have to stay in step.  Every method holds cache.mu from *)
(* its first to its last statement, so each is one action.                   *)
(****************************************************************************)
EXTENDS ExpiryHeap, FiniteSets

CONSTANTS Keys, Values, MaxEntries, TTLs, MaxTime, None

ASSUME LRUHeapAssumption ==
    /\ IsFiniteSet(Keys) /\ None \notin Values
    /\ MaxEntries \in Nat \ {0}
    /\ TTLs \subseteq Int /\ MaxTime \in Nat

VARIABLES
    now,        \* cache.now()
    entries,    \* the keys of the map cache.entries
    recency,    \* the list, front first
    heap,       \* cache.expiry with the heapIndex fields
    value,      \* entry.value of the stored keys
    expiresAt,  \* entry.expiresAt of the stored keys
    reply       \* what the last method call returned

vars == <<now, entries, recency, heap, value, expiresAt, reply>>

Init ==
    /\ now = 0
    /\ entries = {}
    /\ recency = << >>
    /\ heap = [items |-> << >>, index |-> [k \in Keys |-> -1]]
    /\ value = [k \in Keys |-> None]
    /\ expiresAt = [k \in Keys |-> 0]
    /\ reply = None

\* The three structures, as remove and removeExpired pass them on.
Structures == [entries |-> entries, recency |-> recency, heap |-> heap]

\* Mutant of MovedToFront: a hit leaves the entry where it is in the list.
LeftInPlace(list, k) == list

\* list.Remove of the element that holds k.
Unlinked(list, k) == RemoveAt(list, CHOOSE p \in DOMAIN list : list[p] = k)

MovedToFront(list, k) == <<k>> \o Unlinked(list, k)

\* Mutant of Removed: the heap keeps an entry that left the map and the list.
RemovedButInHeap(st, exp, k) ==
    [entries |-> st.entries \ {k},
     recency |-> Unlinked(st.recency, k),
     heap    |-> st.heap]

\* remove: out of the map, the list and the heap.
Removed(st, exp, k) ==
    [entries |-> st.entries \ {k},
     recency |-> Unlinked(st.recency, k),
     heap    |-> HeapRemove(st.heap, exp, st.heap.index[k])]

RootExpired(st, exp) == Size(st.heap) > 0 /\ ~(now < exp[At(st.heap, 0)])

\* One turn of the loop in removeExpired: the heap's root goes if it is expired.
PurgeOnce(st, exp) ==
    IF RootExpired(st, exp) THEN Removed(st, exp, At(st.heap, 0)) ELSE st

\* removeExpired: at most as many turns as there are entries.
ExpiredRemoved(st, exp) ==
    LET turn[n \in 0..Size(st.heap)] ==
            IF n = 0 THEN st ELSE PurgeOnce(turn[n - 1], exp)
    IN  turn[Size(st.heap)]

\* The cache continues with these structures; what left the map is garbage.
Adopt(st, val, exp) ==
    /\ entries' = st.entries
    /\ recency' = st.recency
    /\ heap' = st.heap
    /\ value' = [k \in Keys |-> IF k \in st.entries THEN val[k] ELSE None]
    /\ expiresAt' = [k \in Keys |-> IF k \in st.entries THEN exp[k] ELSE 0]

Get(k) ==
    /\ IF k \in entries /\ now < expiresAt[k]
       THEN /\ recency' = MovedToFront(recency, k)
            /\ reply' = value[k]
            /\ UNCHANGED <<entries, heap, value, expiresAt>>
       ELSE /\ Adopt(IF k \in entries THEN Removed(Structures, expiresAt, k) ELSE Structures,
                     value, expiresAt)
            /\ reply' = None
    /\ UNCHANGED now

\* Set of a key that is in the map: in place, heap.Fix, to the front.
Update(k, v, ttl) ==
    LET exp == [expiresAt EXCEPT ![k] = now + ttl]
        val == [value EXCEPT ![k] = v]
    IN  Adopt([entries |-> entries,
               recency |-> MovedToFront(recency, k),
               heap    |-> HeapFix(heap, exp, heap.index[k])], val, exp)

\* Set of a new key: insert, then expired entries go, then the list's back.
Insert(k, v, ttl) ==
    LET exp      == [expiresAt EXCEPT ![k] = now + ttl]
        val      == [value EXCEPT ![k] = v]
        inserted == [entries |-> entries \cup {k},
                     recency |-> <<k>> \o recency,
                     heap    |-> HeapPush(heap, exp, k)]
        purged   == IF Len(inserted.recency) > MaxEntries
                    THEN ExpiredRemoved(inserted, exp) ELSE inserted
        fitted   == IF Len(purged.recency) > MaxEntries
                    THEN Removed(purged, exp, Last(purged.recency)) ELSE purged
    IN  Adopt(fitted, val, exp)

Delete(k) ==
    /\ Adopt(IF k \in entries THEN Removed(Structures, expiresAt, k) ELSE Structures,
             value, expiresAt)
    /\ reply' = None
    /\ UNCHANGED now

Set(k, v, ttl) ==
    IF ttl <= 0 THEN Delete(k)
    ELSE /\ IF k \in entries THEN Update(k, v, ttl) ELSE Insert(k, v, ttl)
         /\ reply' = None
         /\ UNCHANGED now

\* Len counts after removing every expired entry.
Count ==
    LET purged == ExpiredRemoved(Structures, expiresAt) IN
    /\ Adopt(purged, value, expiresAt)
    /\ reply' = Len(purged.recency)
    /\ UNCHANGED now

\* The clock advances, up to its bound.
Tick ==
    /\ now < MaxTime
    /\ now' = now + 1
    /\ UNCHANGED <<entries, recency, heap, value, expiresAt, reply>>

Next ==
    \/ \E k \in Keys :
          \/ Get(k)
          \/ \E v \in Values, ttl \in TTLs : Set(k, v, ttl)
          \/ Delete(k)
    \/ Count
    \/ Tick

Spec == Init /\ [][Next]_vars

------------------------------------------------------------------------------
(* Properties                                                                *)

\* The map, the list and the heap hold the same keys, each once; every
\* heapIndex is right, which remove relies on; and the heap stays ordered by
\* expiresAt although Set changes expiresAt in place, which removeExpired
\* relies on.
StructuresAgree ==
    /\ ToSet(recency) = entries /\ IsInjective(recency)
    /\ Entries(heap) = entries
    /\ Sound(heap, expiresAt)

\* The place of a key in the list is its rank.
position ==
    [k \in Keys |-> IF k \in ToSet(recency)
                    THEN CHOOSE p \in DOMAIN recency : recency[p] = k ELSE 0]

Promise == INSTANCE LRU WITH rank <- position

\* List and heap together implement the bounded cache.
ImplementsLRU == Promise!Spec
==============================================================================
