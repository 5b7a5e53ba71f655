SPECIFICATION Spec
CONSTANTS
    Images = {i1}
    Specs <- FewSpecs
    Edits <- FewEdits
    GoodRevs <- GoodRevsDef
    PullNames = {p1, p2}
    MaxEvents = 1
    Dependable = TRUE
    None = None
INVARIANTS
    RestsOnlyWhenWaiting
PROPERTIES
    UserImageKept
    ImagesConverge
CHECK_DEADLOCK FALSE
