SPECIFICATION Spec
CONSTANTS
    NumSamples = 2
    MaxRecords = 2
    Capacity = 1
    MaxFaults = 0
    MaxBreaks = 0
    MaxStops = 1
INVARIANTS
    NothingLost
CHECK_DEADLOCK FALSE
