SPECIFICATION FairSpec
CONSTANTS
    Runs = {r1, r2}
    Builds = {b1}
    None = None
    LeaseLength = 10
    Concurrent = FALSE
    TakesOver = TRUE
    ThemeAffinity = FALSE
    MaxExecutions = 3
    MaxFaults = 3
    MaxTicks = 4
INVARIANTS
    FinishedWorkIsReused
PROPERTIES
    EveryRunPublishes
CHECK_DEADLOCK FALSE
