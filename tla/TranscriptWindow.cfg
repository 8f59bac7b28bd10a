SPECIFICATION WindowSpec
CONSTANTS
    MaxRecordings = 2
    MaxSegments = 1
    MaxBreaks = 2
ACTION_CONSTRAINT Brief
CHECK_DEADLOCK FALSE
INVARIANTS
    SavedMeansSaved
    CopyComplete
    SavedOnce
    OneRecordingPerSave
