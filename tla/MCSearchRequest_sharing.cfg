\* Two requests that meet in the loads and the caches of one query and one
\* release, or of the latest window.
CONSTANTS
    a = a
    b = b
    c = c
    d = d
    nothing = nothing
    several = several
    Requests = {r1, r2}
    Releases = {a}
    Query = Query
    Latest = Latest
    Matches = {several}
    IDsOf <- OneRelease
    MaxReleases = 1
    Torrents = Torrents
    Failed = Failed
    None = None
SYMMETRY RequestSymmetry
SPECIFICATION Spec
INVARIANTS
    EndedContextBeatsResults
    UpstreamBlamedFairly
    NoBranchOutlivesRequest
CHECK_DEADLOCK FALSE
