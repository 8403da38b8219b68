SPECIFICATION MCSpec
CONSTANTS
    l1 = l1
    l2 = l2
    l3 = l3
    idle = idle
    established = established
    Tools <- MCTools
    Numbers = {0, 2}
    Texts <- MCTexts
    TextMetrics <- MCTextMetrics
    AsOf = 3
    Limit = 2
    MaxCalls = 2
    MaxRows = 3
    MaxTokens = 3
    MaxRepairs = 1
    MaxHypotheses = 2
    Costs = {0, 3}
    Replies <- MCReplies
    MaxSteps = 3
    Users = {u1}
    Tabs = {t1, t2}
    Ttl = 1
    MaxClock = 3
    MaxLogins = 2
    MaxInject = 2
    MaxSlices = 3
CHECK_DEADLOCK FALSE
INVARIANTS
    DiagnosisIsGrounded
    FallbackFindsOutage
    UndoneInReverse
    AuthorityIsBounded
    ActsForItsLogin
    SliceVerdictIsRight
