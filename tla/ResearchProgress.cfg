SPECIFICATION FairSpec
CONSTANTS
    Runs = {r1, v1}
    Reviewers = {v1}
    Codes = {old}
    Tokens = {1, 2, 3, 4, 5, 6}
    Candidates = {x, y}
    Required = {x}
    MinReady = 1
    Policies = {"AUTO", "REVIEW"}
    Overlap = FALSE
    MaxFaults = 2
    RefVals = {1, 2, 3, 4, 5, 6, x, y}
    None = None
INVARIANTS
    NothingTwice
PROPERTIES
    SelectedModelStays
    EveryRunSettles
CHECK_DEADLOCK FALSE
