\* Five bytes and blocks of one to three: holes that are too small, exact and
\* partial fits.  The priority weight is 2 instead of 2^20, so that within five
\* ticks recency both loses to priority and, with age, beats it.
SPECIFICATION CacheSpec
SYMMETRY Symmetry
CONSTANTS
    Keys = {k1, k2, k3}
    Cap = 5
    Sizes = {1, 2, 3}
    Priorities = {0, 1}
    PriorityWeight = 2
    MaxCalls = 5
INVARIANTS
    CacheTypeOK
    BlocksDisjoint
    BlocksCoverTaken
    RefusalIsFragmentation
PROPERTIES
    PredictedOutlivesSameAge
