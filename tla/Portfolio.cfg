SPECIFICATION FairSpec
CONSTANTS
    Routes = {v1}
    Serving = {p}
    Optional = {q}
    Today = {t}
    Yesterday = {y}
    Older = {}
    MaxCount = 1
    Reruns = {t}
    Attempts <- FewAttempts
    Cutoff = 2
    FallbackAge = 1
    Poll = 1
    MaxClock = 4
    MaxPublished = 2
    MaxExecutions = 2
INVARIANTS TypeOK HeaderHasEntries FallbackIsLastResort LaterLooksAgree
PROPERTY ExecutionsEnd
CHECK_DEADLOCK FALSE
