\* Three keys, two places.  TTLs 1 and 3 let an entry used later expire
\* earlier, so that list order and heap order differ; ttl 0 removes.
CONSTANTS
    Keys = {a, b, c}
    Values = {v, w}
    MaxEntries = 2
    TTLs = {0, 1, 3}
    MaxTime = 4
    None = None
SPECIFICATION Spec
INVARIANTS
    StructuresAgree
    HeapOperationsSound
PROPERTIES
    ImplementsLRU
CHECK_DEADLOCK FALSE
