--------------------------- MODULE MCSearchRequest ---------------------------
EXTENDS SearchRequest, TLC

CONSTANTS a, b, c, d, nothing, several

\* An empty answer, and one with four releases of which one is repeated.
UpToFourReleases == [m \in Matches |-> IF m = nothing THEN << >> ELSE <<b, a, b, d, c>>]

\* An answer with a single release.
OneRelease == [m \in Matches |-> <<a>>]

RequestSymmetry == Permutations(Requests)
==============================================================================
