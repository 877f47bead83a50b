SPECIFICATION FairSpec
CONSTANTS
    MaxJobs = 2
    MaxDelay = 2
    MaxSleep = 2
    MaxCrashes = 2
    MaxFaults = 1
INVARIANTS
    OneShotOnce
    CancelledStaysGone
    NoOversleep
PROPERTY
    DueRuns
CHECK_DEADLOCK FALSE
