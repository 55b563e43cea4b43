CONSTANTS
    Emails = {e1, e2}
    Networks = {n1, n2}
    Attempts = {a1, a2}
    Cooldown = 1
    CodeTtl = 2
    MaxAttempts = 2
    Capacity = 2
    RefillInterval = 1
    MaxEntries = 1
    MaxRequests = 3
    MaxTicks = 3
    MaxAssignments = 3
SPECIFICATION Spec
SYMMETRY Symmetry
INVARIANTS TypeOK CodeIsSpentOnce EvictionIsFree SomebodyAdministers
CHECK_DEADLOCK FALSE
