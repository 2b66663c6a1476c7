SPECIFICATION FairSpec
CONSTANTS
    Count <- MCLast
    Label <- MCLabel
    ForcedStarts = {0}
    IgnoresStop = FALSE
    MaxRetries = 2
    RetryBack = 1
    WipeBack = 2
    MaxWipes = 2
INVARIANTS
    OutpostEndsRoute
PROPERTIES
    SkipsOnlyToTheParty
    RouteEnds
CHECK_DEADLOCK FALSE
