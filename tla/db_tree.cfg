SPECIFICATION PartSpec
CONSTANTS
    s1 = s1 s2 = s2
    Parts <- EachPart
    Files <- MCFiles
    Dirs <- MCDirs
    Virtuals <- MCVirtuals
    DirOf <- MCDirOf
    Chain <- MCChain
    Order <- MCOrder
    Tags <- MCTags
    Threads = {"content", "web", "inotify"}
    Top = "top"
    Fixed = {}
    Modes = {"timed", "inotify"}
    MaxRemoveSize = 1000
    MaxTasks = 3
    MaxChanges = 2
INVARIANTS ImportSucceeds TreeIsSound ScanMirrorsDisk VirtualTreeIsComplete RemovalIsWhole ListingIsFresh DynamicIsShown SearchIsExact
CHECK_DEADLOCK FALSE
