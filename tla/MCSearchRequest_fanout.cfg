\* One request whose search names four releases, one of them twice, of which
\* three are loaded concurrently; any load may hang.
CONSTANTS
    a = a
    b = b
    c = c
    d = d
    nothing = nothing
    several = several
    Requests = {r1}
    Releases = {a, b, c, d}
    Query = Query
    Latest = Latest
    Matches = {nothing, several}
    IDsOf <- UpToFourReleases
    MaxReleases = 3
    Torrents = Torrents
    Failed = Failed
    None = None
SPECIFICATION FairSpec
INVARIANTS
    PartialFeedIsHonest
PROPERTIES
    EveryRequestAnswered
CHECK_DEADLOCK FALSE
