CONSTANTS
    top = top sub = sub a1 = a1 c1 = c1
    Dirs <- TwoDirs
    SubDirs <- TwoSubDirs
    Adirs <- OneAdir
    NoAdir = noadir
    Location <- AtTop
    Persistent <- OneAdir
    Callers <- OneCaller
    Inotify = c1
    Timer = timer
    Added <- AddEither
    Removed <- TwoDirs
    MaxTaskID = 2
SPECIFICATION Spec
PROPERTIES TasksAreServed ShutdownEnds
CHECK_DEADLOCK FALSE
