CONSTANTS
    NCpu = 2
    Pinned = {0}
    MaxTicks = 70
    Ticks <- TwoTicks
    FirstTick = 33
    Float <- SixBits
    Precision = 64
    NoSample = NoSample
SPECIFICATION Spec
INVARIANTS
    TypeOK
    NeverWraps
    CountedOnce
    UndisturbedConsistent
