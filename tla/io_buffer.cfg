CONSTANTS
    Bytes <- SevenBytes
    Source <- NumberedSource
    Lengths <- OneOrThree
    bufSize = 3
    maxChunkSize = 2
    initialFillSize = 2
    contentLength = 4
    Pieces = {1, 2}
    CurlLengths = {2}
    MaxSeeks = 2
    Content <- ThreeBytes
    Capacity = 2
    Chunk = 3
    readLength = 2
    retryCount = 1
    MaxRead = 4
SPECIFICATION MCSpec
INVARIANTS NeverBothWait CurlRightBytes ReadInOrder EndIsWhole
PROPERTIES IsByteStream ReadReturns
CHECK_DEADLOCK FALSE
