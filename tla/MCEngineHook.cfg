SPECIFICATION HookFairSpec
CONSTANTS
    Originals = {o1, o2}
    Patch = Patch
    MaxPending = 2
    SleepCoversCycle = TRUE
INVARIANTS
    HookOffWhileSuspended
    SavedAreClientBytes
PROPERTIES
    QueuedCommandRuns
