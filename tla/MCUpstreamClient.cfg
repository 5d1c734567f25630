\* Two operations with all three attempts share one slot.  A retry delay may
\* be nothing, a backoff or a Retry-After as long as the interval; some fit
\* the deadline and some do not.  The upstream may never answer and the clock
\* may stand still.
CONSTANTS
    Ops = {o1, o2}
    MaxConcurrency = 1
    RequestInterval = 2
    MaxAttempts = 3
    BackoffBase = 1
    BackoffMax = 2
    RetryAfters <- Headers
    Second = 2
    MaxDuration = 7
    MaxInt = 7
    Deadlines = {2}
    NoDeadline = NoDeadline
    MaxTime = 3
    None = None
SPECIFICATION FairSpec
INVARIANTS
    NoSlotLeak
    StartsSpaced
    RetryWaitedOut
    ErrorIsHonest
PROPERTIES
    OnlyRetriableRepeated
    EveryOperationEnds
CHECK_DEADLOCK FALSE
