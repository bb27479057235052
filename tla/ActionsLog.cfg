SPECIFICATION Spec
CONSTANTS
    NumActions = 4
    Cap = 2
    MaxFaults = 1
    MaxStops = 1
INVARIANTS
    OrderKept
    MissingHasCause
PROPERTIES
    ShownStaysShown
    NothingComesBack
CHECK_DEADLOCK FALSE
