SPECIFICATION FairSpec
CONSTANTS
    kMaxQueue = 2
    Tasks = {1, 2, 3}
    Workers = {w1}
    GameTid = game
    None = None
    CalledApis = {"Enqueue", "EnqueuePostRaw"}
    MaxRepatches = 1
    MayStop = TRUE
CHECK_DEADLOCK FALSE
INVARIANTS
    HookStaysRemoved
PROPERTIES
    RunningSlotUntouched
    LanesAreQueues
    WaitingTaskRuns
