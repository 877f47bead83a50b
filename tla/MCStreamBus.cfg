SPECIFICATION FairSpec
CONSTANTS
    s1 = s1
    s2 = s2
    w1 = w1
    Subscribers <- MCSubscribers
    Waiters <- MCWaiters
    Timed <- MCTimed
    MaxEvents = 3
    MaxCloses = 2
    MaxInputs = 2
INVARIANTS
    InOrder
    EndedSawEverything
    OneAnswerPerWait
PROPERTIES
    FeedSpec
    ConsumersEnd
CHECK_DEADLOCK FALSE
