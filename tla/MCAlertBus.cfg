\* The run ends when MaxRequests requests were served.
SPECIFICATION Spec
CONSTANTS
    w1 = w1  w2 = w2  w3 = w3  k1 = k1  k2 = k2  r1 = r1
    Workers <- MCWorkers
    Readers <- MCReaders
    Keys <- MCKeys
    NoKey = NoKey
    NoOne = NoOne
    MAX_ALERTS = 2
    MaxRequests = 5
SYMMETRY Symmetry
INVARIANTS
    StatsConsistent
    EveryBlockAccounted
PROPERTY ImplementsFeed
CHECK_DEADLOCK FALSE
