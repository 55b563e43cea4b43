SPECIFICATION FairSpec
CONSTANTS
    m1 = m1
    m2 = m2
    Messages = {m1, m2}
    Starters = {m1}
    Daemons = {1, 2}
    Capable = {1, 2}
    MaxAttempts = 3
    Revocations = TRUE
INVARIANTS
    StoredRunIsTrue
PROPERTIES
    
    RetryIsDecided
CHECK_DEADLOCK FALSE
