\* The run ends when MaxRequests requests were served.
SPECIFICATION PipelineSpec
CONSTANTS
    w1 = w1  w2 = w2  k1 = k1  k2 = k2
    Workers <- MCWorkers
    Readers = {}
    Keys <- MCKeys
    NoKey = NoKey
    NoOne = NoOne
    MAX_ALERTS = 2
    MaxRequests = 4
    AUDIT_CHANNEL = 1
INVARIANTS
    CountersMatchOutcomes
    AuditComplete
PROPERTY ReportsEnd
CHECK_DEADLOCK FALSE
