CONSTANTS
    Clients = {1, 2}
    MaxSpawns = 2
    MaxTrouble = 1
    Nobody = Nobody
SPECIFICATION SidecarSpec
CHECK_DEADLOCK FALSE
INVARIANT ReadyIsWired
PROPERTY LoneAnswer
