SPECIFICATION Spec
CONSTANTS
    Procs = {p1, p2, p3, p4}
    NoPath = NoPath
    Keep = 2
    KeepDays = 0
    Interval = 6
    AutoCleanup = FALSE
    Forced = {FALSE}
    Faults = {"skip"}
    MaxFaults = 1
    MaxActive = 1
    MaxTime = 6
SYMMETRY Symmetry
CHECK_DEADLOCK FALSE
INVARIANTS NewestIsReported
