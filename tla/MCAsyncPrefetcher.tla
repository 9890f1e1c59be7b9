-------------------------- MODULE MCAsyncPrefetcher --------------------------
EXTENDS AsyncPrefetcher, TLC

CONSTANTS k1, k2, k3

\* Two small experts and a large one.
MixedBlobs == k1 :> 1 @@ k2 :> 1 @@ k3 :> 2

\* The small experts are interchangeable.
SmallSymmetry == Permutations({k1, k2})
=============================================================================
