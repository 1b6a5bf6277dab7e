SPECIFICATION EitherSpec
CONSTANTS
    p1 = p1
    p2 = p2
    c1 = c1
    c2 = c2
    e1 = e1
    e2 = e2
    n1 = n1
    n2 = n2
    n3 = n3
    NoNode = NoNode
    NoElement = NoElement
    Producers <- TwoProducers
    Consumers <- TwoConsumers
    Element <- TwoElements
    Enqueuers <- TwoProducers
    Dequeuers <- TwoConsumers
    Nodes <- ThreeNodes
    MaxCalls = 2
    MaxClears = 1
    SizeLimit = 8
    InitSize = 1
    MaxTickets = 4
CHECK_DEADLOCK FALSE
INVARIANTS
    OneConsumerIsSafe
PROPERTIES
    RefusedWhenFull
    ImplementsFifo
    SomebodyTakes
    ListImplementsFifo
