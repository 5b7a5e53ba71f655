SPECIFICATION Spec
CONSTANTS
    Images = {i1}
    Specs <- AllSpecs
    Edits <- RepairEdits
    GoodRevs <- GoodRevsDef
    PullNames = {p1, p2}
    MaxEvents = 1
    Dependable = FALSE
    None = None
INVARIANTS
    ExistsIsPresent
    BuildThenSign
    RestsOnlyWhenWaiting
CHECK_DEADLOCK FALSE
