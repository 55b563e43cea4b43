CONSTANTS
    MaxGapBuffer = 1
    MaxCommands = 3
    MaxEvents = 1
    MaxFrames = 2
    MaxRepeats = 1
    MaxFailures = 2
    MaxActivity = 4
SPECIFICATION Spec
INVARIANTS TypeOK NoIdentityConflict NothingIsLost
PROPERTY ImplementsSessionLog
CHECK_DEADLOCK FALSE
