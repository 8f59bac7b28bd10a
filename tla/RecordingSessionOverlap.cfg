SPECIFICATION Spec
CONSTANTS
    Callers = {window, tray}
    Starters = {window}
    MaxSessions = 2
    MaxFinals = 1
INVARIANTS
    FlagTracksRecording
