SPECIFICATION EitherSpec
CONSTANTS
    r1 = r1
    r2 = r2
    s1 = s1
    s2 = s2
    Everyone = Everyone
    NoHash = NoHash
    Nobody = Nobody
    t1 = t1
    t2 = t2
    c1 = c1
    c2 = c2
    None = None
    Threads <- TwoThreads
    Channels <- TwoChannels
    MaxCalls = 2
    Receivers <- TwoReceivers
    Senders <- TwoSenders
    Opposites <- OneIsFree
    MaxReceiverCalls <- ThreeAndTwo
    MaxMessages = 1
CHECK_DEADLOCK FALSE
INVARIANTS
    EnabledHears
    DisabledIsSilent
    NullOnlyOnShutdown
    EnabledHasReader
PROPERTIES
    CallsEnd
