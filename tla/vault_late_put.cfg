SPECIFICATION Spec
CONSTANTS
    Procs = {p1, p2, p3}
    NoPath = NoPath
    Keep = 1
    KeepDays = 0
    Interval = 2
    AutoCleanup = TRUE
    Forced = {FALSE, TRUE}
    Faults = {"put", "late", "delete", "poll", "submit", "server", "error", "crash"}
    MaxFaults = 2
    MaxActive = 2
    MaxTime = 5
SYMMETRY Symmetry
CHECK_DEADLOCK FALSE
INVARIANTS NoInvisibleLeftovers CleanupIsHonest
