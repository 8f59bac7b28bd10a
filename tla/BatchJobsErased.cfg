CONSTANTS
    Jobs = {1}
    Models = {base, large}
    MaxSegments = 1
    Exclusive = FALSE
    None = None
SPECIFICATION JobsSpec
INVARIANT NothingErased
CHECK_DEADLOCK FALSE
