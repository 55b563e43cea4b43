CONSTANTS
    Tasks = {t1, t2}
    Repos = {r1}
    MaxCommits = 2
    MaxNames = 7
    MaxCleanups = 2
    MaxFaults = 1
    MaxCrashes = 1
SPECIFICATION FairSpec
INVARIANTS TypeOK ResultIsExact DirectoriesAreAccountedFor MirrorIsSound
PROPERTY InspectionsEnd
CHECK_DEADLOCK FALSE
