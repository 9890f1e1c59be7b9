\* Five experts, room for three, three predicted and two routed to, the tightest
\* pool run_sweep allows; two predictions.  Experts are interchangeable.  The
\* replay ends.
SPECIFICATION SimSpec
CONSTANTS
    e1 = e1
    e2 = e2
    e3 = e3
    e4 = e4
    e5 = e5
    Experts <- FiveExperts
    Capacity = 3
    TopKPred = 3
    NumTokens = 4
    RoutedK = 2
SYMMETRY AnyExpert
INVARIANTS
    NoMissBeforeASurprise
    LoadsAccountedFor
PROPERTIES
    DeltaSparesPredicted
CHECK_DEADLOCK FALSE
