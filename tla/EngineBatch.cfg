SPECIFICATION EngineSpec
CONSTANTS
    Keys <- MCKeys
    Priorities <- MCPriorities
    Cap = 3
    Sizes = {1}
    BlobSize <- UnitBlobs
    PriorityWeight = 1048576
    MaxCalls = 0
    Backends = {FALSE}
    CudaFails = FALSE
    TokenCounts = {1}
    NumLayers = 2
    NumExperts = 3
    TopK = 3
    Shard <- FullShard
    MaxTokens = 1
INVARIANT
    BatchResident
CHECK_DEADLOCK FALSE
