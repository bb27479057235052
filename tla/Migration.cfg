SPECIFICATION FairSpec
CONSTANTS
    m1 = m1
    m2 = m2
    Runs = {m1, m2}
    NumSources = 2
    Pieces <- MCPieces
    Files = {1, 2, 3, 4, 5}
    MaxStops = 1
    MaxEdits = 1
    MaxMerges = 1
    MaxOverlaps = 1
INVARIANTS
    PublishedOnce
    CompleteIsReadable
PROPERTIES
    ImplementsCopy
    RerunsFinish
CHECK_DEADLOCK FALSE
