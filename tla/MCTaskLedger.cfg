SPECIFICATION FairSpec
CONSTANTS
    w1 = w1
    w2 = w2
    Workers <- MCWorkers
    MaxRuns = 2
    MaxAttempts = 2
    Leases <- MCLeases
    Limit <- MCLimit
INVARIANTS
    OneRunner
PROPERTIES
    StaleNeverSettles
    ContractSpec
    RunsAreSettled
CHECK_DEADLOCK FALSE
