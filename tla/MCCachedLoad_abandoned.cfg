\* Two requests suffice: one abandons its load, whose answer is stored anyway.
CONSTANTS
    Requests = {r1, r2}
    Keys = {k1}
    Values = {v}
    Failed = failed
    Aborted = aborted
    Results = {v, failed, aborted}
    Deadlines = {}
    NoDeadline = NoDeadline
    BaseDeadline = NoDeadline
    None = None
SPECIFICATION CachedSpec
PROPERTIES
    NoAbandonedFill
CHECK_DEADLOCK FALSE
