CONSTANTS
    k1 = k1
    k2 = k2
    Modules = {a}
    NameOf <- MCNameOf
    Kernels = {k1, k2}
    KernelAt <- MCKernelAt
    Images = {i1, i2}
    Options = {}
    NoOption = NoOption
    NoConfig = NoConfig
    MaxBoot = 1
    RebootAnytime = FALSE
    LateEffects = FALSE
SPECIFICATION Spec
INVARIANTS
    TypeOK
    StatusLoaded
    RestsOnlyWhenDone
    LabelsRestRight
    LoaderMatchesStatus
    OrphanPodsCollected
CHECK_DEADLOCK FALSE
