CONSTANTS
    Clients = {1, 2}
    MaxSpawns = 2
    MaxTrouble = 1
    Nobody = Nobody
SPECIFICATION SidecarSpec
INVARIANT OwnAnswer
CHECK_DEADLOCK FALSE
