SPECIFICATION Spec
CONSTANTS
    NoHeader = NoHeader
    Cases <- MCCases
    Frames <- MCFrames
    BODY_INSPECT_LIMIT = 3
    BODY_READ_TIMEOUT = 2
    MaxFrames = 3
INVARIANT MatchedScoresBlock
CHECK_DEADLOCK FALSE
