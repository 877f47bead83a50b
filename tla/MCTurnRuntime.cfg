SPECIFICATION FairSpec
CONSTANTS
    c1 = c1
    c2 = c2
    Clients <- MCClients
    MaxTurns = 2
    MaxCancels = 1
    MaxFails = 1
    MaxFaults = 0
    MaxCrashes = 1
INVARIANTS
    SettledIfDisturbedOnce
    ConversationOrder
PROPERTIES
    RefusedOnlyWhileLive
    CompletedIsKept
    CancelEnds
CHECK_DEADLOCK FALSE
