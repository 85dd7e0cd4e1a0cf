SPECIFICATION FairSpec
CONSTANTS
    Timeout = 12
    PollInterval = 2
    QueryTime = 1
    MaxMissingPolls = 3
    MaxUnknownPolls = 5
    MaxBlinks = 2
INVARIANTS TypeOK LostMeansGone OverrunIsBounded TimeoutMeansLate
PROPERTIES Returns
CHECK_DEADLOCK FALSE
