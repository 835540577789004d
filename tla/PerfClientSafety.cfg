CONSTANTS
    Hosts = {h1, h2}
    Ingester = ingester
    RowsIn <- TwoCpus
    NoId = NoId
    MaxTime = 0
    MaxFaults = 1
    MaxFetch = 2
SPECIFICATION Spec
SYMMETRY Symmetry
INVARIANTS
    TypeOK
    ConnectionSafe
    StoreAccounted
    RowsAttributed
    StoredOncePerFetch
    SummaryScored
CHECK_DEADLOCK FALSE
