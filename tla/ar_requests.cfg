CONSTANTS
    top = top sub = sub w1 = w1 w2 = w2
    Instances <- Both
    Paths <- TwoPaths
    Inside <- SubInTop
    Config <- TopInConfig
    Workers <- TwoWorkers
    Via <- ByEither
    MaxRequests = 3
    MaxStarts = 2
SPECIFICATION MCSpec
INVARIANTS ScanIDsUnique SequentialNoOverlap SequentialRestartKeeps
CHECK_DEADLOCK FALSE
