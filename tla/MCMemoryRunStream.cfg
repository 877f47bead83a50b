SPECIFICATION FairSpec
CONSTANTS
    s1 = s1
    i1 = i1
    Streams <- MCStreams
    Inline <- MCInline
    Cap = 4
    MaxEvents = 5
    MaxUndos = 1
    MaxReconnects = 1
INVARIANTS
    NoRepeat
    InlineGapless
PROPERTY
    StreamsEnd
CHECK_DEADLOCK FALSE
