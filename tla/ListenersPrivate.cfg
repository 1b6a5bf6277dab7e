SPECIFICATION ListenersSpec
CONSTANTS
    r1 = r1
    r2 = r2
    s1 = s1
    s2 = s2
    Everyone = Everyone
    NoHash = NoHash
    Nobody = Nobody
    Receivers <- TwoReceivers
    Senders <- TwoSenders
    Opposites <- OneIsFree
    MaxReceiverCalls <- ThreeAndTwo
    MaxMessages = 1
CHECK_DEADLOCK FALSE
INVARIANTS
    SenderIsHeard
