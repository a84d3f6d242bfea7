CONSTANTS
    AutoSave = FALSE
    Incremental = TRUE
    MaxEdits = 1
    MaxFormats = 0
    MaxUndos = 0
    MaxSaves = 1
    MaxReverts = 1
    MaxExternal = 0
    MaxFailures = 0
SPECIFICATION Spec
PROPERTY WritesWhatIsShown
CHECK_DEADLOCK FALSE
