SPECIFICATION FairSpec
CONSTANTS
    w1 = w1
    w2 = w2
    r1 = r1
    m1 = m1
    NoMessage = NoMessage
    Writers <- TwoWriters
    Readers <- OneReader
    Message <- OneMessage
    BlockNum = 2
    SeqModulus = 4
    MaxTryLockTimes = 2
    WeakCas = TRUE
    MaxCrashes = 2
INVARIANTS
    NoTornRead
PROPERTIES
    ImplementsRWLock
    BusyRingIsLeft
