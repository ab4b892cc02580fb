SPECIFICATION Spec
CONSTANTS
    k1 = k1  k2 = k2
    Keys <- MCKeys
    MAX_ALERTS = 2
    CHANNEL = 1
    RECENT = 2
    PAGE = 2
    SOCK = 1
    Fetches = 2
    Tasks = 1
    MaxKept = 2
    MaxFaults = 1
INVARIANTS
    StreamInOrder
    OfferedIsShown
PROPERTIES
    NewAlertsAppear
    DeadSessionsEnd
    ClosedIsReopened
CHECK_DEADLOCK FALSE
