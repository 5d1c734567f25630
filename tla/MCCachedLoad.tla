---------------------------- MODULE MCCachedLoad -----------------------------
EXTENDS CachedLoad, CoalescerRefinement
=============================================================================
