----------------------------- MODULE MCVramCache -----------------------------
EXTENDS VramCache, TLC

\* Nothing orders the keys: the only choice between them is by score.
Symmetry == Permutations(Keys)
=============================================================================
