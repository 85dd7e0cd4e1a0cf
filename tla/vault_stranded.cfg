SPECIFICATION Spec
CONSTANTS
    Procs = {p1, p2, p3, p4, p5}
    NoPath = NoPath
    Keep = 1
    KeepDays = 0
    Interval = 5
    AutoCleanup = TRUE
    Forced = {FALSE}
    Faults = {"delete"}
    MaxFaults = 1
    MaxActive = 1
    MaxTime = 6
SYMMETRY Symmetry
CHECK_DEADLOCK FALSE
PROPERTIES NextCleanupFinishes
