SPECIFICATION FairSpec
CONSTANTS
    MaxRecoverable = 2
    MaxTotal = 4
    MaxErrors = 4
    MaxChunks = 1
    MaxTime = 1
    MaxCommands = 2
CHECK_DEADLOCK FALSE
INVARIANTS
    ErrorBudget
    PauseClock
    ChannelCloses
