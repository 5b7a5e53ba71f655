SPECIFICATION Spec
CONSTANTS
    n1 = n1
    p1 = p1
    p2 = p2
    p3 = p3
    plugin = plugin
    dra = dra
    None = None
    Nodes = {n1}
    Pods = {p1, p2, p3}
    Roles = {plugin, dra}
    RoleOf <- TwoVersions
    MaxFlaps = 4
    MaxFailures = 1
INVARIANTS
    TypeOK
    LabelHasPod
    LabelsRestRight
CHECK_DEADLOCK FALSE
PROPERTY
    FinalizerReleased
