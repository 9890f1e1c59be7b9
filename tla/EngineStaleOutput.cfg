SPECIFICATION EngineSpec
CONSTANTS
    Keys <- MCKeys
    Priorities <- MCPriorities
    Cap = 2
    Sizes = {1}
    BlobSize <- UnitBlobs
    PriorityWeight = 1048576
    MaxCalls = 0
    Backends = {TRUE}
    CudaFails = FALSE
    TokenCounts = {1}
    NumLayers = 2
    NumExperts = 4
    TopK = 2
    Shard <- GappyShard
    MaxTokens = 1
INVARIANT
    CombinesThisLayer
CHECK_DEADLOCK FALSE
