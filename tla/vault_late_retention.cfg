SPECIFICATION Spec
CONSTANTS
    Procs = {p1, p2, p3}
    NoPath = NoPath
    Keep = 1
    KeepDays = 0
    Interval = 2
    AutoCleanup = TRUE
    Forced = {FALSE}
    Faults = {"put", "late"}
    MaxFaults = 1
    MaxActive = 2
    MaxTime = 5
SYMMETRY Symmetry
CHECK_DEADLOCK FALSE
INVARIANTS FullsRetained
