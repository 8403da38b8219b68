SPECIFICATION FairSpec
CONSTANTS
    s1 = s1
    s2 = s2
    s3 = s3
    s4 = s4
    k1 = k1
    k2 = k2
    Sessions = {c1, c2, c3}
    Keys = {k1, k2}
    Signals <- MCSignals
    KeyOf <- MCKeyOf
    MaxCalls = 2
CHECK_DEADLOCK FALSE
INVARIANTS
    HistoryMatchesSignals
    CommittedDeliveries
PROPERTIES
    SessionsEnd
    ImplementsLog
