SPECIFICATION Spec
CONSTANTS
    Procs = {p1, p2, p3, p4, p5}
    NoPath = NoPath
    Keep = 1
    KeepDays = 3
    Interval = 3
    AutoCleanup = TRUE
    Forced = {FALSE, TRUE}
    Faults = {"crash", "error", "submit", "poll", "server", "restart", "put"}
    MaxFaults = 1
    MaxActive = 1
    MaxTime = 7
SYMMETRY Symmetry
CHECK_DEADLOCK FALSE
INVARIANTS NoneStranded NewestIsReported
PROPERTIES SuccessIsRestorable NextCleanupFinishes YoungChainsKept
