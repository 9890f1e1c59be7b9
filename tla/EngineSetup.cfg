SPECIFICATION SetupSpec
CONSTANTS
    NumLocals = 2
    MaxStorage = 3
    MaxEntries = 5
    NoPickle = NoPickle
    MaxInits = 2
    DeviceBuffers = {"d_h_in", "d_ybuf"}
    ShortText = 2
    Strings <- MCStrings
    Headers <- MCHeaders
    Accepted <- HeaderOk
    TensorsIn <- HeaderTensors
INVARIANTS
    SetupTypeOK
    LoadedWhole
    NothingLeaks
    ReadyIsComplete
    HeaderMeansWhatItSays
PROPERTIES
    IntactArchiveLoads
CHECK_DEADLOCK FALSE
