SPECIFICATION FairSpec
CONSTANTS
    lasting = lasting
    once = once
    Paths <- McPaths
    Once <- McOnce
    MaxAttempts = 2
    MaxBreaks = 2
    MaxCloses = 2
    MaxLosses = 1
INVARIANTS
    AskedForOnce
    ChannelsAgree
PROPERTIES
    ServedInTheEnd
CHECK_DEADLOCK FALSE
