CONSTANTS
    Beats = {1, 2}
    Clicks = {1, 2}
    Meetings = {1, 2}
    Entries = {e1}
    Limit = 1
    MaxDrafts = 2
    MaxTroubles = 1
    MaxMoves = 2
    None = None
SPECIFICATION Spec
INVARIANTS
    NoTwinDrafts
    AcceptedSettled
    ClosedStaysClosed
PROPERTIES
    EveryMeetingDone
