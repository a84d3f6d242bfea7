CONSTANTS
    AutoSave = TRUE
    Incremental = FALSE
    MaxEdits = 2
    MaxFormats = 1
    MaxUndos = 0
    MaxSaves = 1
    MaxReverts = 0
    MaxExternal = 1
    MaxFailures = 0
SPECIFICATION FairSpec
INVARIANT CleanMeansSaved
PROPERTY NoBlindOverwrite PromptOnlyIfChanged EventuallySaved
CHECK_DEADLOCK FALSE
