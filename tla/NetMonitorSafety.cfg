CONSTANTS
    NIf = 2
    Names = {eth0, eth1}
    Unborn = Unborn
    Gone = Gone
    Other = Other
    MaxRuns = 2
    MaxFaults = 1
    MaxCount = 2
    MaxErrors = 1
    NoSample = NoSample
SPECIFICATION Spec
SYMMETRY Symmetry
INVARIANTS
    TypeOK
    AttachComplete
    HalfAttachedExplained
    WrapsExplained
    ReportedOnce
CHECK_DEADLOCK FALSE
