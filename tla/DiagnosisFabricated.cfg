SPECIFICATION Spec
CONSTANTS
    l1 = l1
    l2 = l2
    l3 = l3
    idle = idle
    established = established
    Tools <- MCTools
    Numbers = {0, 2}
    Texts <- MCTexts
    TextMetrics <- MCTextMetrics
    AsOf = 3
    Limit = 2
    MaxCalls = 2
    MaxRows = 3
    MaxTokens = 3
    MaxRepairs = 1
    MaxHypotheses = 2
    Costs = {0, 3}
    Replies <- MCReplies
CHECK_DEADLOCK FALSE
INVARIANTS
    NotFabricated
