CONSTANTS
    Runs = {1, 2}
    MaxChunks = 2
    MaxStops = 1
    MaxEdits = 1
    None = None
SPECIFICATION Spec
CHECK_DEADLOCK FALSE
INVARIANTS
    StopFindsRun
    PendingHasRun
PROPERTIES
    KeepsRecord
    PendingEnds
