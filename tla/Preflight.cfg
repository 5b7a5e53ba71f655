SPECIFICATION Spec
CONSTANTS
    k1 = k1
    k2 = k2
    short = short
    None = None
    InvalidRegexp = InvalidRegexp
    a = a
    p1 = p1
    p2 = p2
    Kernels = {k1, k2, short}
    ShortKernels = {short}
    Modules = {a}
    Preflights = {p1, p2}
    Candidates <- AllCandidates
    MaxChanges = 4
    MaxFailures = 1
INVARIANTS
    AdmittedUsable
    VerdictsRestRight
PROPERTY
    PreflightCompletes
CHECK_DEADLOCK FALSE
