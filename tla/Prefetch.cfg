\* Three bytes for blobs of one, one and two: the large expert evicts both small
\* ones or fits in the hole of one and the byte above it, and transfers into the
\* same bytes pile up before a wait drains them.
SPECIFICATION Spec
SYMMETRY SmallSymmetry
CONSTANTS
    k1 = k1
    k2 = k2
    k3 = k3
    Keys = {k1, k2, k3}
    Cap = 3
    Sizes = {1, 2}
    BlobSize <- MixedBlobs
    Priorities = {0, 1}
    PriorityWeight = 2
    MaxCalls = 4
    Backends = {FALSE, TRUE}
    CudaFails = FALSE
INVARIANTS
    ReadyHoldsWeights
    ReadyNotUnderCopy
