SPECIFICATION Spec
CONSTANTS
    Interval = 2
    MaxChunks = 3
    MaxSegs = 1
    NameLimit = 1000
    Radix = 10
INVARIANTS
    FinalChunksSaved
CHECK_DEADLOCK FALSE
