CONSTANTS
    MaxGapBuffer = 1
    MaxCommands = 1
    MaxEvents = 2
    MaxFrames = 9
    MaxRepeats = 0
    MaxFailures = 1
    MaxActivity = 4
SPECIFICATION FairSpec
PROPERTY EventsArrive
CHECK_DEADLOCK FALSE
