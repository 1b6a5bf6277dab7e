SPECIFICATION Spec
CONSTANTS
    n1 = n1
    n2 = n2
    l1 = l1
    c1 = c1
    NoChannel = NoChannel
    Notifiers <- TwoNotifiers
    Listeners <- OneListener
    Channel <- OneChannel
    BlockIndex <- TwoBlocks
    BufLength = 2
    FirstRun = TRUE
    StartSeq = 0
    MaxSeq = 3
    MaxStops = 0
CHECK_DEADLOCK FALSE
SYMMETRY NotifierSymmetry
INVARIANTS
    ExactlyOnceInOrder
PROPERTIES
    NeverBackwards
