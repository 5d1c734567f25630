\* Every raw query of up to three fields, and those of four that start with a
\* key and a function; an offset register of eight bits.
CONSTANTS
    Queries <- AllQueries
    RightKey = "right"
    Unavailable = {"movie"}
    MaxOffset = 255
    None = None
SPECIFICATION Spec
INVARIANTS
    ServedUnambiguously
    BlameIsReal
    PagingIsExact
    LogTellsTheReply
CHECK_DEADLOCK FALSE
