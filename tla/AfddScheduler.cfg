SPECIFICATION FairSpec
CONSTANTS
    all = all
    site = site
    Timer = Timer
    Nobody = Nobody
    op1 = op1
    Scopes = {all, site}
    Scheduled = all
    RunNowScopes = {all, site}
    Requests = {op1}
    Rules = {1, 2}
    Times = {1, 2}
    MaxUnlocked = 1
    MaxFaults = 1
    MaxStops = 1
INVARIANTS
    CheckpointCovered
    LocksMatchRuns
PROPERTY
    AnalysedAlone
CHECK_DEADLOCK FALSE
