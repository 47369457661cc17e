SPECIFICATION Spec
CONSTANTS
    Runs = {r1, r2, v1, v2}
    Reviewers = {v1, v2}
    Codes = {old, new}
    Tokens = {1, 2, 3}
    Candidates = {x, y}
    Required = {x}
    MinReady = 1
    Policies = {"AUTO", "REVIEW"}
    Overlap = TRUE
    MaxFaults = 1
    RefVals = {1, 2, 3, x, y}
    None = None
SYMMETRY Symmetry
INVARIANTS
    TypeOK
    StoresFollowClaim
    OneCandidateSelected
CHECK_DEADLOCK FALSE
