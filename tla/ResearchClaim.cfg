SPECIFICATION Spec
CONSTANTS
    Runs = {r1, r2}
    Codes = {old, new}
    RefVals = {a, b}
    None = None
    LeaseSeconds = 1
    MaxClock = 2
    MaxTokens = 3
    MaxVersion = 5
SYMMETRY Symmetry
INVARIANTS
    TypeOK
    LeaseExclusion
    VersionIdentifiesRow
    ResumableRow
PROPERTIES
    TakenOnlyAfterExpiry
    AttemptMovesForward
    ImplementsLedger
CHECK_DEADLOCK FALSE
