SPECIFICATION FairSpec
CONSTANTS
    Runs <- MCRuns
    DateOf <- MCDateOf
    Contents = {x, y}
    None = None
    RepeatsIdentity = TRUE
    MaxExecutions = 3
    MaxFaults = 2
    today = today
    yesterday = yesterday
    late = late
    first = first
    second = second
INVARIANTS
    TypeOK
    LatestIsRecorded
    OneHistoryPerAttempt
PROPERTIES
    SuccessAgreesWithHistory
    EveryRunGoesLive
CHECK_DEADLOCK FALSE
