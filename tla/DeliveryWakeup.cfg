CONSTANTS
    MaxGapBuffer = 1
    MaxCommands = 1
    MaxEvents = 0
    MaxFrames = 3
    MaxRepeats = 0
    MaxFailures = 0
    MaxActivity = 1
SPECIFICATION FairSpec
PROPERTY CommandsArrive
CHECK_DEADLOCK FALSE
