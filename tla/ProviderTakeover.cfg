SPECIFICATION Spec
CONSTANTS
    Runs = {r1, r2}
    Builds = {b1}
    None = None
    LeaseLength = 3
    Concurrent = TRUE
    TakesOver = TRUE
    ThemeAffinity = TRUE
    MaxExecutions = 3
    MaxFaults = 3
    MaxTicks = 3
SYMMETRY Symmetry
INVARIANTS
    TypeOK
    ConsumedIsReady
PROPERTIES
    PublishesOnce
    SlotMovesForward
CHECK_DEADLOCK FALSE
