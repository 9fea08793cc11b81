SPECIFICATION InotifySpec
CONSTANTS
    s1 = s1 s2 = s2
    Parts <- OnlyTree
    Files <- MCFiles
    Dirs <- MCDirs
    Virtuals <- MCVirtuals
    DirOf <- MCDirOf
    Chain <- MCChain
    Order <- MCOrder
    Tags <- MCTags
    Threads = {"content", "web", "inotify"}
    Top = "top"
    Fixed = {}
    Modes = {"inotify"}
    MaxRemoveSize = 1000
    MaxTasks = 3
    MaxChanges = 2
INVARIANT ImportSucceeds
CHECK_DEADLOCK FALSE
