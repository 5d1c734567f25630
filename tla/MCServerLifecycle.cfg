\* Three requests: some finish in time, some do not, some come too late.  In
\* the start, every environment that sets up to two variables, one of the URLs
\* to anything, and every version; KiB is 4, so that a word of 127 overflows as
\* 64 bits do.
CONSTANTS
    Environments <- AllEnvironments
    Versions = {"empty", "plain", "odd"}
    MaxInt = 127
    KiB = 4
    DefaultSize = 16
    MaxSize = 32
    Handlers = {h1, h2, h3}
    None = None
SPECIFICATION FairSpec
INVARIANTS
    RequestsCutOffOnlyWithCause
    FailureIsReported
    ConstructorsAccept
    SizeIsWhatWasWritten
PROPERTIES
    ProcessEnds
CHECK_DEADLOCK FALSE
