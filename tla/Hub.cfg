SPECIFICATION Spec
CONSTANTS
    None = None
    NoMatch = NoMatch
    Failed = Failed
    EmptyKernel = EmptyKernel
    Clusters = {c1}
    Nodes = {n1, n2}
    RawKernels = {"k1+", "k2"}
    TrimSuffix <- MCTrimSuffix
    Specs <- MCSpecs
    MaxDisturbances = 3
INVARIANTS
    ShippedExist
    WorksRestRight
    StatusRestsRight
PROPERTY
    KernelsDistributed
CHECK_DEADLOCK FALSE
