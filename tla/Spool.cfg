SPECIFICATION FairSpec
CONSTANTS
    NumSamples = 4
    MaxRecords = 2
    Capacity = 1
    MaxFaults = 1
    MaxBreaks = 1
    MaxStops = 1
INVARIANTS
    LossHasCause
    ArrivesInOrder
    DuplicateHasCause
PROPERTIES
    TickDrains
CHECK_DEADLOCK FALSE
