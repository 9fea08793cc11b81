CONSTANTS
    o1 = o1 o2 = o2 o3 = o3 o4 = o4 c1 = c1
    s1 = s1 s2 = s2 i1 = i1 autoscan = autoscan manager = manager
    Parts <- Configured
    ObjectIDs <- FourObjects
    Callers <- OneCaller
    INVALID_OBJECT_ID = invalid
    MAX_OBJECT_IDS = 2
    MAX_OBJECT_IDS_OVERLOAD = 1
    MaxReport = 4
    SpuriousWakeups = FALSE
SPECIFICATION MCSpec
INVARIANTS IdleMeansNoUpdates
CHECK_DEADLOCK FALSE
