SPECIFICATION Spec
CONSTANTS
    NumRequests = 2
    May <- MCPatches
    MaxFaults = 0
    MaxCrashes = 0
INVARIANTS
    UpdatesKept
CHECK_DEADLOCK FALSE
