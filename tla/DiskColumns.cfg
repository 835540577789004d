CONSTANTS
    Disks = {sda}
    U32 = 2
    MaxOps = 1
    MaxTime = 1
    MaxSwaps = 0
    NoSample = NoSample
    Absent = Absent
    Top = 0
SPECIFICATION Spec
INVARIANT WritesCounted
CHECK_DEADLOCK FALSE
