\* The clock ends at MaxInstant, so a run of calls may have no successor time.
SPECIFICATION Spec
CONSTANTS
    a = a  b = b  junk = junk  t1 = t1  t2 = t2
    NoIp = NoIp
    Threads <- MCThreads
    Ips <- MCIps
    Texts <- MCTexts
    Canon <- MCCanon
    Durations = {0, 1, 3}
    MaxBlock = 3
    CleanupInterval = 2
    MaxInstant = 4
SYMMETRY Symmetry
PROPERTIES
    NoneAllowedWhileBanned
    RefusedOnlyForABan
    ListingIsAccurate
    ImplementsBanTable
CHECK_DEADLOCK FALSE
