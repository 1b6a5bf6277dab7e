SPECIFICATION FairSpec
CONSTANTS
    n1 = n1
    n2 = n2
    l1 = l1
    c1 = c1
    NoChannel = NoChannel
    Notifiers <- OneNotifier
    Listeners <- OneListener
    Channel <- OneChannel
    BlockIndex <- TwoBlocks
    BufLength = 2
    FirstRun = TRUE
    StartSeq = 0
    MaxSeq = 3
    MaxStops = 1
CHECK_DEADLOCK FALSE
PROPERTIES
    EveryListenerCatchesUp
