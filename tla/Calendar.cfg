CONSTANTS
    Callers = {c1}
    Events = {e1}
    Scores = {50, 60, 75}
    MaxRecordings = 2
    MaxManual = 1
    None = None
SPECIFICATION Spec
INVARIANTS
    OwnEvent
    StaysDisconnected
