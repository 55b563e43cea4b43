SPECIFICATION Spec
CONSTANTS
    s1 = s1
    s2 = s2
    s3 = s3
    Sessions = {s1, s2, s3}
    Permits = 1
    MaxCommands = 5
SYMMETRY Symmetry
INVARIANTS
    TypeOK
    OneRuntimePerSession
    CancellationStateIsCurrent
    CancellationIsAnswered
    NothingIsLost
CHECK_DEADLOCK FALSE
