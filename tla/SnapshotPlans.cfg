SPECIFICATION FairSpec
CONSTANTS
    Scopes <- MCScopes
    Dates <- MCDates
    Plans <- AllPlans
    v1 = v1
    v2 = v2
    d1 = d1
    d2 = d2
    d3 = d3
    MaxAttempts = 3
    MaxExecutions = 3
    MaxFaults = 2
INVARIANTS
    TypeOK
    OneDate
    
    PublishedIsServed
PROPERTIES
    
    EveryTaskPublishes
CHECK_DEADLOCK FALSE
