SPECIFICATION Spec
CONSTANTS
    Backups = {b1, b2, b3, b4}
    NoPath = NoPath
    Keep = 1
    KeepDays = 3
    Requests <- MCRequests
    Word = 8
    Behind = 2
    MaxFaults = 1
    MaxTime = 6
SYMMETRY Symmetry
CHECK_DEADLOCK FALSE
INVARIANTS TypeOK CompleteView GroupingComplete OkMeansFresh FreshMeansOk SelectedHaveExpired SelectedAreOld
