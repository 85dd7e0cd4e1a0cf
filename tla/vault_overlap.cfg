SPECIFICATION Spec
CONSTANTS
    Procs = {p1, p2, p3, p4}
    NoPath = NoPath
    Keep = 1
    KeepDays = 0
    Interval = 3
    AutoCleanup = TRUE
    Forced = {FALSE, TRUE}
    Faults = {"crash", "skip", "delete", "put"}
    MaxFaults = 1
    MaxActive = 2
    MaxTime = 5
SYMMETRY Symmetry
CHECK_DEADLOCK FALSE
INVARIANTS TypeOK BaseOlder FullsRetained RetentionKept VisibleIsIntact
PROPERTIES FullGoesLast
