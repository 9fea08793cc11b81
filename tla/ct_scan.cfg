CONSTANTS
    top = top sub = sub a1 = a1 c1 = c1
    Dirs <- TwoDirs
    SubDirs <- TwoSubDirs
    Adirs <- OneAdir
    NoAdir = noadir
    Location <- AtTop
    Persistent <- Nothing
    Callers <- OneCaller
    Inotify = c1
    Timer = timer
    Added <- AddSub
    Removed <- TwoDirs
    MaxTaskID = 3
SPECIFICATION Spec
INVARIANTS  NoAddBelowRemoval RemovedStaysRemoved
CHECK_DEADLOCK FALSE
