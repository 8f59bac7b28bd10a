CONSTANTS
    Jobs = {1, 2}
    Models = {base, large}
    MaxSegments = 1
    Exclusive = FALSE
    None = None
SPECIFICATION JobsSpec
CHECK_DEADLOCK FALSE
INVARIANTS
    MeetingsKeepFolder
