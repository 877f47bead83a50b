SPECIFICATION FairSpec
CONSTANTS
    c1 = c1
    Clients <- MCClients
    MaxPages = 2
    MaxChapters = 2
    MaxBlocks = 1
INVARIANTS
    NoLeakedMark
    QueueIsServed
    FinishedIsReady
PROPERTIES
    WorkerNeverRevives
    QueuedGetTheirTurn
CHECK_DEADLOCK FALSE
