---------------------------- MODULE MCSharedRetry ----------------------------
EXTENDS SharedRetry, TLC

RequestSymmetry == Permutations(Requests)
=============================================================================
