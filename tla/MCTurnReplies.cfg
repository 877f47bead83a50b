SPECIFICATION PauseSpec
CONSTANTS
    MaxAsks = 4
    MaxRepeats = 2
INVARIANT
    MatchingAnswer
CHECK_DEADLOCK FALSE
