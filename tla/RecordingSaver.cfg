SPECIFICATION FairSpec
CONSTANTS
    Interval = 2
    MaxChunks = 4
    MaxSegs = 1
    NameLimit = 1000
    Radix = 10
CHECK_DEADLOCK FALSE
INVARIANTS
    AcceptedExactlyOnce
    CheckpointedOnDisk
    CompletedMeansSaved
