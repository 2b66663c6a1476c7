SPECIFICATION FairSpec
CONSTANTS
    Requests <- MCRequests
    MaxRefresh = 3
    Threshold = 2
    None = None
INVARIANTS
    OneCreditPerRun
PROPERTIES
    CompletedOnlyAfterBoss
    StopIsHeard
CHECK_DEADLOCK FALSE
