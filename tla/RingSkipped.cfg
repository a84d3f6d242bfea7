CONSTANTS
    Readers = {r1}
    MaxSize = 3
    MaxCharacter = 2
    MaxChunk = 3
    MaxBytes = 8
SPECIFICATION Spec
INVARIANT NothingSkipped
CHECK_DEADLOCK FALSE
