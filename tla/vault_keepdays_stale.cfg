SPECIFICATION Spec
CONSTANTS
    Procs = {p1, p2, p3, p4}
    NoPath = NoPath
    Keep = 1
    KeepDays = 2
    Interval = 4
    AutoCleanup = TRUE
    Forced = {FALSE}
    Faults = {}
    MaxFaults = 0
    MaxActive = 2
    MaxTime = 7
SYMMETRY Symmetry
CHECK_DEADLOCK FALSE
PROPERTIES YoungChainsKept
