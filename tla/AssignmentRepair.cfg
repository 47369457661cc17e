SPECIFICATION Spec
CONSTANTS
    Runs <- MCRuns
    DateOf <- MCDateOf
    Contents = {x, y}
    None = None
    RepeatsIdentity = FALSE
    MaxExecutions = 3
    MaxFaults = 2
    today = today
    yesterday = yesterday
    late = late
    first = first
    second = second
INVARIANTS
    RepairRecalculatesNothing
CHECK_DEADLOCK FALSE
