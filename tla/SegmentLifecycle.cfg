SPECIFICATION EitherSpec
CONSTANTS
    w1 = w1
    w2 = w2
    r1 = r1
    Writers <- TwoWriters
    Readers <- OneReader
    MessageSize <- TwoSizes
    MaxReferences = 3
    MaxShm = 3
    MaxMessages = 1
    MayDestroy <- Everybody
SYMMETRY Symmetry
CHECK_DEADLOCK FALSE
INVARIANTS
    WriteFits
    StaleIsFlagged
    NothingIsLeft
    WithinMemory
