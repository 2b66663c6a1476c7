SPECIFICATION FairSpec
CONSTANTS
    Producers = {p1}
    Priorities = {0}
    MAX_OUTBOUND_QUEUE = 2
    MaxSessions = 2
    MaxSends = 2
    MaxRequests = 1
    MayShutdown = TRUE
PROPERTIES
    QueuedFrameLeaves
    ListensAgain
    IpcThreadEnds
CHECK_DEADLOCK FALSE
