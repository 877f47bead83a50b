SPECIFICATION Spec
CONSTANTS
    s1 = s1
    i1 = i1
    Streams <- MCStreams
    Inline <- MCInline
    Cap = 9
    MaxEvents = 3
    MaxUndos = 0
    MaxReconnects = 0
INVARIANT
    StreamGapless
CHECK_DEADLOCK FALSE
