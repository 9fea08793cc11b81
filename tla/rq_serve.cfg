CONSTANTS
    phone = phone player = player app = app tv = tv browser = browser
    bubble = bubble samsung = samsung mine = mine
    Addrs = {phone, player} Agents = {app, tv, browser}
    ByAddr <- KnownPlayer ByAgent <- KnownAgents ByDescription <- Described
    Unrecognized = unknown None = none NotUnique = {bubble}
    cacheThreshold = 0 MaxTime = 1 MaxClients = 3
    Requests = {r1, r2} alone = r1 Shared = {"file", "track", "zip"}
    Size = 3 Length = 2 Packet = 3 MaxChanges = 2
SPECIFICATION MCSpec
INVARIANTS InOrder EndIsWhole ServedAsItself EditsAreLocal
CHECK_DEADLOCK FALSE
