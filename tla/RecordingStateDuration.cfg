SPECIFICATION Spec
CONSTANTS
    MaxRecoverable = 2
    MaxTotal = 4
    MaxErrors = 4
    MaxChunks = 1
    MaxTime = 1
    MaxCommands = 2
INVARIANTS
    DurationFromState
CHECK_DEADLOCK FALSE
