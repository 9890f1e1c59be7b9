------------------------------ MODULE MCEngine ------------------------------
EXTENDS Engine

MCKeys == Layers \X Experts
MCPriorities == 1 .. TopK
UnitBlobs == [key \in Keys |-> 1]

\* Synthetic shards hold layer 0 only, with all the experts or without the last.
FullShard == {0} \X Experts
GappyShard == {0} \X (0 .. NumExperts - 2)
=============================================================================
