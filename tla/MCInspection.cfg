\* The run ends when every request has ended.
SPECIFICATION Spec
CONSTANTS
    NoHeader = NoHeader
    Cases <- MCCases
    Frames <- MCFrames
    BODY_INSPECT_LIMIT = 3
    BODY_READ_TIMEOUT = 2
    MaxFrames = 3
INVARIANTS
    FramesConserved
    VerdictOnTheBody
    CompleteIfEnded
    TimeoutMeansQuiet
    ScoreAddsUp
    EncodingInvisible
PROPERTY ReadingEnds
CHECK_DEADLOCK FALSE
