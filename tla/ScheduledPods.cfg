SPECIFICATION Spec
CONSTANTS
    n1 = n1
    c1 = c1
    Nodes = {n1}
    Classes = {c1}
    MaxVersion = 2
    SectionSets <- OneSection
    SectionEdits <- InTwoEdits
    MaxChanges = 3
    MaxFailures = 1
INVARIANTS
    NoLeftovers
    SectionsRestRight
    CountsRestRight
CHECK_DEADLOCK FALSE
PROPERTY
    TeardownCompletes
