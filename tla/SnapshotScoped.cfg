SPECIFICATION Spec
CONSTANTS
    Scopes <- MCScopes
    Dates <- MCDates
    Plans <- OnlyRouted
    v1 = v1
    v2 = v2
    d1 = d1
    d2 = d2
    d3 = d3
    MaxAttempts = 2
    MaxExecutions = 3
    MaxFaults = 3
PROPERTIES
    NeverEmptied
CHECK_DEADLOCK FALSE
