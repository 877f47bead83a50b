SPECIFICATION Spec
CONSTANTS
    c1 = c1
    c2 = c2
    Clients <- MCClients
    MaxTurns = 2
    MaxCancels = 2
    MaxFails = 1
    MaxFaults = 1
    MaxCrashes = 1
INVARIANTS
    ActiveRowRunning
PROPERTY
    AbstractSpec
SYMMETRY Symmetry
CHECK_DEADLOCK FALSE
