CONSTANTS
    Agents = {a1}
    Minute = 2
    Hour = 3
    MaxWork = 1
    MaxTime = 20
    MaxFaults = 0
    Absent = Absent
SPECIFICATION Spec
INVARIANT EveryHourSummarised
CHECK_DEADLOCK FALSE
