\* Four experts, two slots and three predicted: prefetching evicts what it has just
\* loaded, so that requests miss and both streams load.  Three tokens; the loop
\* ends.
SPECIFICATION TritonSpec
CONSTANTS
    e1 = e1
    e2 = e2
    e3 = e3
    e4 = e4
    Experts <- FourExperts
    Capacity = 2
    TopKPred = 3
    Blank = Blank
    NumTokens = 5
INVARIANTS
    SlotsInLockstep
    StackReadsOwnWeights
PROPERTIES
    PipelineCompletes
CHECK_DEADLOCK FALSE
