CONSTANTS
    c1 = c1 c2 = c2
    Callers <- TwoCallers
    Modes <- BothModes
    MaxOps = 1
    MaxErrors = 1
    MysqlOps = 2
    MaxCuts = 1
    shutdownAttempts = 3
    Objects <- TwoObjects
    Attributes = 2
    Scripts <- FourUpgrades
    MaxDeaths = 2
    MaxLosses = 2
    MaxCopies = 1
SPECIFICATION MCSpec
INVARIANTS OperationsAreApart AckedIsKept BackupIsCurrent ReadyIsWhole
PROPERTY OperationsEnd
CHECK_DEADLOCK FALSE
