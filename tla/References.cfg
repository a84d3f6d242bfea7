SPECIFICATION Spec
CONSTANTS
    MaxAcquisitions = 5
    MaxClears = 2
INVARIANTS
    KeptForItsUsers
    NothingLeaks
    DisposedOnce
    MapsAgree
CHECK_DEADLOCK FALSE
