CONSTANTS
    Agents = {a1, a2}
    Minute = 2
    Hour = 2
    MaxWork = 1
    MaxTime = 10
    MaxFaults = 1
    Absent = Absent
SPECIFICATION Spec
INVARIANTS RowsFresh RowsRegular SummarySealed
CHECK_DEADLOCK FALSE
SYMMETRY Symmetry
