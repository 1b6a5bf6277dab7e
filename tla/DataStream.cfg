SPECIFICATION EitherSpec
CONSTANTS
    p1 = p1
    p2 = p2
    None = None
    Undefined = Undefined
    Processes <- TwoProcesses
    Words <- ThreeWords
    Contents <- SomeContents
    Hash <- SomeCollide
    Ips <- TwoIps
    Loopback <- LoopbackIps
    LOCALHOST = "127.0.0.1"
    IpHash <- AllDiffer
    Interfaces <- LoopbackFirst
    Environments <- SetOrNot
    Attributes <- SomeAttributes
    MaxMessages = 2
    MpsChosen <- NoOtherMps
    MaxCaches = 3
    Removed = 2
    DepthLimit = 4096
    FRACTIONS = 4295
    MaxTransmits = 5
    MaxWriters = 2
SYMMETRY AnyOrder
CHECK_DEADLOCK FALSE
INVARIANTS
    RoundTrip
    RestoredIsLast
    HashIsNotStale
    ChannelIsInOrder
