CONSTANTS
    Requests = {r1}
    Users = {u1, u2}
    PendingLimit = 1
    MaxConnections = 2
    MaxFailures = 2
SPECIFICATION FairSpec
INVARIANTS TypeOK ClaimedByApprover ConnectionsAreTracked
PROPERTY CutWithoutLease
CHECK_DEADLOCK FALSE
