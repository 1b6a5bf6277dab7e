SPECIFICATION EitherSpec
CONSTANTS
    c1 = c1
    c2 = c2
    w1 = w1
    w2 = w2
    t1 = t1
    t2 = t2
    i1 = i1
    None = None
    Threads <- TwoThreads
    Infos <- OneInfo
    Listeners <- OneListens
    Descriptors = 2
    BufferSize = 1
    MaxCalls = 1
    Loggers <- TwoLoggers
    HeaderSize = 3
    ContentSize = 2
    MaxLength = 6
    MaxLines = 6
    MaxOpens = 3
    MaxSeconds = 2
    Clients <- TwoClients
    Workers <- TwoWorkers
    MaxTaskNum = 1
    MaxTasks = 2
CHECK_DEADLOCK FALSE
INVARIANTS
    TaskIsSomewhere
    LogIsKept
    ClosesItsOwn
PROPERTIES
    PoolGoesOn
    ArrivedIsListened
