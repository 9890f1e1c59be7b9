SPECIFICATION Spec
CONSTANTS
    k1 = k1
    k2 = k2
    k3 = k3
    Keys = {k1, k2, k3}
    Cap = 3
    Sizes = {1, 2}
    BlobSize <- MixedBlobs
    Priorities = {0, 1}
    PriorityWeight = 2
    MaxCalls = 4
    Backends = {TRUE}
    CudaFails = TRUE
INVARIANT
    ReadyHoldsWeights
