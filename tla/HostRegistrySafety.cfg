CONSTANTS
    Clients = {c1, c2}
    Names = {n1, n2}
    NoId = NoId
    MaxTime = 1
    MaxFaults = 2
SPECIFICATION FairSpec
INVARIANTS
    TypeOK
    CacheSound
    UniqueUnlessRaced
PROPERTY AllResolve
CHECK_DEADLOCK FALSE
