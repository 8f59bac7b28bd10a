SPECIFICATION Spec
CONSTANTS
    Interval = 2
    MaxChunks = 2
    MaxSegs = 1
    NameLimit = 1000
    Radix = 10
INVARIANTS
    CleanupKeepsAudio
CHECK_DEADLOCK FALSE
