SPECIFICATION GenSpec
CONSTANTS
    e1 = e1
    e2 = e2
    e3 = e3
    Experts <- MCExperts
    Keys <- MCKeys
    Configs <- MCConfigs
    NumSlots = 2
    Priorities = {0, 1}
    NoExpert = NoExpert
INVARIANTS
    GenTypeOK
    SlotsPartition
    StampsDistinct
    EvaluatesOwnWeights
    ReadySlotsSettled
    EventCoversCopies
    TelemetryAddsUp
PROPERTIES
    ReactiveMeansMispredicted
    GenerationEnds
CHECK_DEADLOCK FALSE
