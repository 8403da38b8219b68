SPECIFICATION Spec
CONSTANTS
    Requests = {r1, r2}
    Users = {u1, u2}
    MaxVersion = 1
    MaxCrashes = 1
INVARIANT
    AuditOutlivesMutation
CHECK_DEADLOCK FALSE
