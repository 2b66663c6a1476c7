SPECIFICATION FairSpec
CONSTANTS
    RingSize = 2
    Tasks = {1, 2, 3}
    Producers = {p1, p2}
    None = None
INVARIANTS
    BotshubIdleMeansDone
PROPERTIES
    LanesAreQueues
    AcceptedRuns
