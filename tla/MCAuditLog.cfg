\* Two rotated files of two records; the run ends with the last record.
SPECIFICATION Spec
CONSTANTS
    AUDIT_KEEP = 2
    AUDIT_MAX_SIZE = 2
    Absent = Absent
    MaxRecords = 9
    MaxFaults = 3
INVARIANTS
    RecordsInOrder
    NewestAreKept
    DamageIsLocal
CHECK_DEADLOCK FALSE
