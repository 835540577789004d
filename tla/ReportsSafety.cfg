CONSTANTS
    Disks = {sda}
    U32 = 2
    MaxOps = 2
    MaxTime = 2
    MaxSwaps = 1
    NoSample = NoSample
    Absent = Absent
    Top = 12
SPECIFICATION Spec
INVARIANTS
    DiskWrapsExplained
    ReadsAccounted
    PartsBounded
PROPERTIES
    WorseScoresLower
    NoJumps
CHECK_DEADLOCK FALSE
