SPECIFICATION MCSpec
CONSTANTS
    Persistences = {1, 2}
    Cooldown = 4
    Warmup = 2
    ZThreshold = 4
    EwmaWeight = 2
    Slack = 1
    Threshold = 3
    RefWeight = 4
    Horizon = 3
    Scale = 256
    Gaps = {0, 1, 2}
    Changes <- MCChanges
    MaxSamples = 6
    MaxTicks = 4
    Increments = {0, 2}
    MaxGap = 1
    Width = 2
    EvalWidth = 2
    MaxCopies = 1
    Links = {l1, l2, l3}
    Lookback = 2
    MaxScrapes = 4
    Injected = {"admin_shutdown", "intermittent_link", "impaired_link"}
    StateGaps <- MCStateGaps
    GridSize = 3
    EvalClasses = {"gray"}
    EvalSplits = {"validation", "test"}
    EvalLineages = {"v2", "v3"}
    MaxIncidents = 3
CHECK_DEADLOCK FALSE
INVARIANTS
    AnomalyIsNotMasked
    QuietInsideSlack
    OutageIsDetected
    CountersNeverInvent
    RuleRanksWhatItSees
    ThresholdsAreBlind
PROPERTIES
    ImplementsPolicy
    FutureNeverLeaks
