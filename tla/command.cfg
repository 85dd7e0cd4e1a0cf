SPECIFICATION FairSpec
CONSTANTS
    Bits = 2
    Absent = Absent
    Files <- MCFiles
    Endpoints = {"slack", "hook"}
    Methods = {"POST", "PUT"}
CHECK_DEADLOCK FALSE
INVARIANTS TypeOK AcceptedIsUsable RetryBudget BackoffGrows EveryoneIsTold EventsAreTrue FailuresShow
PROPERTIES Exits
