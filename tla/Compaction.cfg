SPECIFICATION FairSpec
CONSTANTS
    p1 = p1
    p2 = p2
    NoFile = NoFile
    Parts <- MCFourParts
    Outputs <- MCTwoOutputs
    Runs = {p1, p2}
    PartSchema <- MCConflict
    Plan <- MCPlan
    MinFiles = 2
    Target = 2
    MaxFaults = 1
    MaxKills = 1
INVARIANTS
    RowsPartitioned
    ColumnsPreserved
    WithheldIsReported
    SpentWhenOutputVisible
    SomeoneCompacts
PROPERTIES
    ImplementsReadSurface
    GapCloses
CHECK_DEADLOCK FALSE
