SPECIFICATION Spec
CONSTANTS
    a = a
    b = b
    ns = ns
    k1 = k1
    k2 = k2
    None = None
    Nodes = {n1}
    Modules = {a, b}
    Namespaces = {ns}
    NamespaceOf <- MCNamespaceOf
    Versioned = {b}
    Loaderless = {}
    Kernels = {k1, k2}
    MaxRev = 2
    Mapping <- MCMapping
    Booted <- MCBooted
    MaxDisturbances = 3
INVARIANTS
    EntriesRestRight
    NoOrphanEntries
    NamespaceProtected
    NamespaceReleased
    StatusRestsRight
    FinalizerReleased
CHECK_DEADLOCK FALSE
