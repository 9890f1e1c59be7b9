----------------------------- MODULE MCCacheSim -----------------------------
EXTENDS CacheSim, TLC

CONSTANTS e1, e2, e3, e4, e5

FiveExperts == {e1, e2, e3, e4, e5}
AnyExpert == Permutations(FiveExperts)
=============================================================================
