CONSTANTS
    c1 = c1 c2 = c2
    Callers <- TwoCallers
    Modes <- BothModes
    MaxOps = 1
    MaxErrors = 1
    MysqlOps = 1
    MaxCuts = 1
    shutdownAttempts = 3
    Objects <- TwoObjects
    Attributes = 2
    Scripts <- FourUpgrades
    MaxDeaths = 2
    MaxLosses = 2
    MaxCopies = 1
SPECIFICATION StartSpec
INVARIANT LossIsRecovered
CHECK_DEADLOCK FALSE
