SPECIFICATION FairSpec
CONSTANTS
    Deleters = {d1, d2}
    Data = {k1, k2, k3}
    Sidecar = sidecar
    Attempts = 3
INVARIANTS TypeOK EveryKeyCounted NeverOverReports CompleteMeansEmpty
PROPERTIES Returns SidecarGoesLast MeetsContract
CHECK_DEADLOCK FALSE
