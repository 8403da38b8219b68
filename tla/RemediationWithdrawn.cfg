SPECIFICATION Spec
CONSTANTS
    Requests = {r1, r2}
    Users = {u1, u2}
    MaxVersion = 2
    MaxCrashes = 0
PROPERTY
    WithdrawnPlansRest
CHECK_DEADLOCK FALSE
