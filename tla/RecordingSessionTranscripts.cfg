SPECIFICATION Spec
CONSTANTS
    Callers = {window}
    Starters = {window}
    MaxSessions = 2
    MaxFinals = 1
INVARIANTS
    TranscriptsPreserved
