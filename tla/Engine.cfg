\* Two blobs of room and two experts a layer out of four, the last of which the
\* shard lacks; two layers and a second generate() make every batch evict an older
\* one.  The bound on tokens gives two generate() calls of one token or one of two.
\* The program ends after the last generate().
SPECIFICATION EngineSpec
CONSTANTS
    Keys <- MCKeys
    Priorities <- MCPriorities
    Cap = 2
    Sizes = {1}
    BlobSize <- UnitBlobs
    PriorityWeight = 1048576
    MaxCalls = 0
    Backends = {FALSE, TRUE}
    CudaFails = FALSE
    TokenCounts = {1, 2}
    NumLayers = 2
    NumExperts = 4
    TopK = 2
    Shard <- GappyShard
    MaxTokens = 2
INVARIANTS
    EngineTypeOK
    OutputsFromOwnWeights
    KernelNotUnderCopy
    BatchResident
    NothingPendingAtReset
    StatisticsAddUp
    SkipsStillReported
    UniformNeverRefused
PROPERTIES
    GenerateReturns
CHECK_DEADLOCK FALSE
