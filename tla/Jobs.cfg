SPECIFICATION Spec
CONSTANTS
    NumRequests = 3
    May <- MCMay
    MaxFaults = 1
    MaxCrashes = 1
INVARIANTS
    SavesAreExact
    SideFilesMatch
    DeletedStaysDeleted
    RunningIsCurrent
CHECK_DEADLOCK FALSE
