CONSTANTS
    Callers = {c1, c2}
    Events = {e1}
    Scores = {50, 60, 75}
    MaxRecordings = 2
    MaxManual = 1
    None = None
SPECIFICATION Spec
SYMMETRY Symmetry
INVARIANT DisconnectRemovesAccess
