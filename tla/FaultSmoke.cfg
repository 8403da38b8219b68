SPECIFICATION FairSpec
CONSTANTS
    l1 = l1
    l2 = l2
    collector = collector
    Campaign <- MCCampaign
    Collector <- collector
    MaxRuns = 2
CHECK_DEADLOCK FALSE
INVARIANTS
    WriteAhead
    PassIsEarned
PROPERTIES
    CampaignEnds
