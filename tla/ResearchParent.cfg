SPECIFICATION Spec
CONSTANTS
    Runs = {r1}
    Reviewers = {}
    Codes = {old}
    Tokens = {1, 2, 3}
    Candidates = {x}
    Required = {x}
    MinReady = 1
    Policies = {"REVIEW"}
    Overlap = FALSE
    MaxFaults = 1
    RefVals = {1, 2, 3, x}
    None = None
SYMMETRY Symmetry
INVARIANTS
    ParentHonest
CHECK_DEADLOCK FALSE
