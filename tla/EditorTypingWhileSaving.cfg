CONSTANTS
    AutoSave = FALSE
    Incremental = FALSE
    MaxEdits = 2
    MaxFormats = 0
    MaxUndos = 0
    MaxSaves = 1
    MaxReverts = 0
    MaxExternal = 0
    MaxFailures = 0
SPECIFICATION Spec
INVARIANT CleanMeansSaved
CHECK_DEADLOCK FALSE
