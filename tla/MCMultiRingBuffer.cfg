CONSTANTS
    Readers = {r1, r2}
    MaxSize = 3
    MaxCharacter = 3
    MaxChunk = 4
    MaxBytes = 7
SYMMETRY ReaderSymmetry
SPECIFICATION Spec
INVARIANT HoldsNewestBytes ChunksAreConsecutive NoDataWhileWanted DrainedSawNewest
CHECK_DEADLOCK FALSE
