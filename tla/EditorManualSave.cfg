CONSTANTS
    AutoSave = FALSE
    Incremental = TRUE
    MaxEdits = 2
    MaxFormats = 0
    MaxUndos = 1
    MaxSaves = 1
    MaxReverts = 1
    MaxExternal = 1
    MaxFailures = 1
SPECIFICATION FairSpec
INVARIANT SavedVersionIsClean
PROPERTY CancelledSaveSendsNothing EveryOperationEnds
CHECK_DEADLOCK FALSE
