SPECIFICATION FairSpec
CONSTANTS
    all = all
    site = site
    Timer = Timer
    Nobody = Nobody
    op1 = op1
    Scopes = {all, site}
    Scheduled = all
    RunNowScopes = {site}
    Requests = {op1}
    Rules = {1}
    Times = {1}
    MaxUnlocked = 0
    MaxFaults = 0
    MaxStops = 0
PROPERTY
    TelemetryAnalysed
CHECK_DEADLOCK FALSE
