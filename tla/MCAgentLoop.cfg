SPECIFICATION FairSpec
CONSTANTS
    Profiles <- MCProfiles
    Worlds <- MCWorlds
    Messages = {1}
    PromptMessages = 1
    StallLimit = 1
    TimeoutLimit = 2
    None = None
PROPERTIES
    HandoffIsEarned
    PlanIsForWhatIsSeen
    OperatorIsHeard
    PlanCatchesUp
CHECK_DEADLOCK FALSE
