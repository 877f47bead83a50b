SPECIFICATION FairSpec
CONSTANTS
    im = im
    web1 = web1
    w1 = w1
    s1 = s1
    s2 = s2
    ImKeys <- MCImKeys
    WebKeys <- MCWebKeys
    Sockets <- MCSockets
    Stoppers <- MCStoppers
    MaxMessages = 2
    MaxInstances = 2
    MaxFrames = 1
INVARIANTS
    TurnsFollow
    SocketsSeeAll
PROPERTIES
    MessagesAreAnswered
    WebTurnsEnd
    ContractSpec
CHECK_DEADLOCK FALSE
