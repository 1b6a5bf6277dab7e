SPECIFICATION EitherSpec
CONSTANTS
    t1 = t1
    t2 = t2
    n1 = n1
    n2 = n2
    n3 = n3
    a1 = a1
    a2 = a2
    a3 = a3
    a4 = a4
    Nil = Nil
    Freed = Freed
    Absent = Absent
    Present = Present
    HeadEntry = HeadEntry
    NoName = NoName
    Threads <- TwoThreads
    Names <- ThreeNames
    NameHash <- CloseHashes
    IdLimit = 3
    MaxCalls = 5
    Callers <- TwoThreads
    Keys = {1, 2}
    Addresses <- FourAddresses
    MaxMapCalls = 3
CHECK_DEADLOCK FALSE
SYMMETRY AnyOrder
INVARIANTS
    BucketIsIntact
    SameNameSameId
    UniqueUnlessRaced
PROPERTIES
    ImplementsMap
