\* The clock ends at MaxClock.
SPECIFICATION Spec
CONSTANTS
    a = a  b = b  c = c  d = d  e = e  t1 = t1  t2 = t2
    NoIp = NoIp
    Ips <- MCIps
    Threads <- MCThreads
    SECOND = 4
    CAPACITY = 2
    REFILL = 3
    IDLE_TTL = 1
    CLEANUP_INTERVAL = 1
    CLEANUP_THRESHOLD = 3
    MAX_BUCKETS = 4
    WORD = 16
    MaxClock = 3
SYMMETRY Symmetry
INVARIANTS
    BucketsBounded
    NoOverAdmission
    EvictsTheOldest
    TokenTimeIsServed
CHECK_DEADLOCK FALSE
