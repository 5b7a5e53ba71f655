SPECIFICATION Spec
CONSTANTS
    None = None
    NoMatch = NoMatch
    Failed = Failed
    EmptyKernel = EmptyKernel
    Clusters = {c1, c2}
    Nodes = {n1}
    RawKernels = {"k1+", "k2"}
    TrimSuffix <- MCTrimSuffix
    Specs <- OneSpec
    MaxDisturbances = 1
INVARIANT
    MappingsPreserved
CHECK_DEADLOCK FALSE
