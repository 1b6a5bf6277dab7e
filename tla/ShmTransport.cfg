SPECIFICATION ShmFairSpec
CONSTANTS
    t1 = t1
    n1 = n1
    d1 = d1
    MyChannel = MyChannel
    OtherChannel = OtherChannel
    NoChannel = NoChannel
    Transmitters <- OneTransmitter
    Notifiers <- WithBystander
    Listeners <- OneDispatcher
    Channel <- TwoChannels
    BlockIndex <- TwoBlocks
    BlockNum = 2
    SeqModulus = 4
    MaxTryLockTimes = 2
    BufLength = 2
    FirstRun = FALSE
    StartSeq = 1
    MaxSeq = 4
    MaxStops = 1
CHECK_DEADLOCK FALSE
INVARIANTS
    HandedOverIsWhole
    HandedOverIsAnnounced
    RefusedOnlyWhenLate
PROPERTIES
    AnnouncedArrivesAndTransmitEnds
