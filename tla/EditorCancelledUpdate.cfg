CONSTANTS
    AutoSave = TRUE
    Incremental = TRUE
    MaxEdits = 2
    MaxFormats = 0
    MaxUndos = 0
    MaxSaves = 0
    MaxReverts = 0
    MaxExternal = 1
    MaxFailures = 0
SPECIFICATION Spec
PROPERTY NoBlindOverwrite
CHECK_DEADLOCK FALSE
