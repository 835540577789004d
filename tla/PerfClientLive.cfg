CONSTANTS
    Hosts = {h1}
    Ingester = ingester
    RowsIn <- OneCpu
    NoId = NoId
    MaxTime = 1
    MaxFaults = 2
    MaxFetch = 1
SPECIFICATION FairSpec
PROPERTY StopLeadsToExit
CHECK_DEADLOCK FALSE
