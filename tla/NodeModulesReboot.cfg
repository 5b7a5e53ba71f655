CONSTANTS
    k1 = k1
    k2 = k2
    Modules = {a}
    NameOf <- MCNameOf
    Kernels = {k1}
    KernelAt <- MCSameKernel
    Images = {i1}
    Options = {}
    NoOption = NoOption
    NoConfig = NoConfig
    MaxBoot = 1
    RebootAnytime = TRUE
    LateEffects = FALSE
SPECIFICATION Spec
INVARIANTS
    StatusLoaded
CHECK_DEADLOCK FALSE
