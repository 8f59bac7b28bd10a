SPECIFICATION Spec
CONSTANTS
    Interval = 1
    MaxChunks = 3
    MaxSegs = 1
    NameLimit = 2
    Radix = 10
INVARIANTS
    RecoveredInOrder
CHECK_DEADLOCK FALSE
