SPECIFICATION Spec
CONSTANTS
    Adirs = {A}
    Paths <- MCPaths
    Fixed <- MCFixed
    Renames <- MCRenames
    Location <- MCLocation
    Kinds <- MCKinds
    MaxChanges = 3
    MaxCalls = 2
INVARIANTS TreeIsWatched ComesBack UnmonitorEnds
CHECK_DEADLOCK FALSE
