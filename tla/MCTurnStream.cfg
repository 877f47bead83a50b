SPECIFICATION FairSpec
CONSTANTS
    s1 = s1
    Subscribers <- MCSubscribers
    MaxEvents = 3
    MaxCancels = 2
    MaxFails = 1
    MaxFaults = 1
    MaxCrashes = 1
INVARIANTS
    Contiguous
    EndsWithDone
    SynthesizedIsLate
    CompletedIsStored
PROPERTIES
    FeedSpec
    SubscriptionsEnd
CHECK_DEADLOCK FALSE
