SPECIFICATION Partitions
CONSTANTS
    MinFiles = 2
    Target = 4
    MaxFiles = 6
    MaxBytes = 4
INVARIANTS
    PlansCoverSmallFiles
    PlansAreMinimal
CHECK_DEADLOCK FALSE
