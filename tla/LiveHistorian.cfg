SPECIFICATION FairSpec
CONSTANTS
    a = a
    b = b
    c = c
    NoEnvelope = NoEnvelope
    Keys <- MCKeys
    Envelopes = {a, b, c}
    Invalid = {b}
    Roles <- MCRoles
    ObservedAt <- MCObservedAt
    MonthOf <- MCMonthOf
    FlushRows = 2
    MaxDeliveries <- MCDeliveries
    MaxFaults = 1
    MaxStops = 1
INVARIANTS
    AcceptedIsStored
    WatermarkBacked
    DuplicateHasCause
    WatermarkExactWithoutFaults
    DrainStoresAccepted
PROPERTIES
    EventuallyStored
    WatermarkMonotone
    ImplementsWriteBehindStore
CHECK_DEADLOCK FALSE
