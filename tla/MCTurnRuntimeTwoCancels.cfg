SPECIFICATION Spec
CONSTANTS
    c1 = c1
    c2 = c2
    Clients <- MCClients
    MaxTurns = 1
    MaxCancels = 2
    MaxFails = 0
    MaxFaults = 0
    MaxCrashes = 0
INVARIANT
    EndedIsSettled
CHECK_DEADLOCK FALSE
