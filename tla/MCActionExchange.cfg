SPECIFICATION ExchangeFairSpec
CONSTANTS
    Calls = {c1, c2, c3, c4}
    supervisor = supervisor
    Supervisor = {c1, c2}
    Ids <- MCIds
    IdOf <- MCIdOf
    None = None
    MaxBacklog = 2
    PruneCount = 1
    MaxConnections = 2
INVARIANTS
    AnswerIsOwn
    OnlyLateAnswersKept
PROPERTIES
    AnsweredUnlessCut
CHECK_DEADLOCK FALSE
