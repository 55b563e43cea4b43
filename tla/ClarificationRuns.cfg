SPECIFICATION Spec
CONSTANTS
    m1 = m1
    m2 = m2
    Messages = {m1, m2}
    Starters = {m1, m2}
    Daemons = {1}
    Capable = {1}
    MaxAttempts = 2
    Revocations = FALSE
SYMMETRY Symmetry
INVARIANTS
    TypeOK
    OneRunAtATime
    AttemptLedger
    NoExecutionAfterCancel
PROPERTY
    TerminalIsFinal
CHECK_DEADLOCK FALSE
