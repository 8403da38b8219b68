SPECIFICATION FairSpec
CONSTANTS
    Requests = {r1, r2, r3}
    Users = {u1, u2}
    MaxVersion = 2
    MaxCrashes = 1
CHECK_DEADLOCK FALSE
INVARIANTS
    JobMatchesExecution
    ExecutionHasOneTrail
    AnswersAreTrue
    AttemptsAreSerial
PROPERTIES
    ApprovalPrecedesMutation
    SettledIsFinal
    RequestsEnd
    ImplementsContract
