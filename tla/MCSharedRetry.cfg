\* Three requests over two keys: an abandoned load, its replacement and an
\* unrelated load can exist together.  The base deadline lies between the two
\* request deadlines; the wait asked for ends between them too.
CONSTANTS
    Requests = {r1, r2, r3}
    Keys = {k1, k2}
    Answer = answer
    Refused = refused
    Results = {answer, refused}
    MaxAttempts = 2
    WaitEnds = {3}
    Deadlines = {2, 4}
    NoDeadline = NoDeadline
    BaseDeadline = 3
    None = None
SYMMETRY RequestSymmetry
SPECIFICATION RetrySpec
INVARIANTS
    OneLiveLoadPerKey
    CancelledExactlyWhenUnwanted
    AdmitsWhatSomeWaiterCanUse
    RefusalConcernsThePresent
PROPERTIES
    JoinsOnlyLiveLoads
CHECK_DEADLOCK FALSE
