SPECIFICATION Spec
CONSTANTS
    Producers = {p1, p2}
    Priorities = {0, 3}
    MAX_OUTBOUND_QUEUE = 2
    MaxSessions = 2
    MaxSends = 3
    MaxRequests = 1
    MayShutdown = FALSE
INVARIANTS
    OnlyAdmittedServed
    NoOvertaking
CHECK_DEADLOCK FALSE
