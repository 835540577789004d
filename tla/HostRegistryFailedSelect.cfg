CONSTANTS
    Clients = {c1}
    Names = {n1}
    NoId = NoId
    MaxTime = 1
    MaxFaults = 2
SPECIFICATION Spec
PROPERTY CreatesOnlyIfAbsent
CHECK_DEADLOCK FALSE
