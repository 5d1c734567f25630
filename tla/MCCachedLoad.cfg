\* Three requests for one key: an abandoned load, its replacement and a late
\* hit overlap.  A client call may hang until its context is done; deadlines
\* play no part here.
CONSTANTS
    Requests = {r1, r2, r3}
    Keys = {k1}
    Values = {v}
    Failed = failed
    Aborted = aborted
    Results = {v, failed, aborted}
    Deadlines = {}
    NoDeadline = NoDeadline
    BaseDeadline = NoDeadline
    None = None
SPECIFICATION CachedFairSpec
INVARIANTS
    NobodyInheritsAbort
    UpstreamAskedOnlyWithCause
PROPERTIES
    ImplementsLoadSharing
    EveryRequestReturns
    EveryLoadEnds
CHECK_DEADLOCK FALSE
