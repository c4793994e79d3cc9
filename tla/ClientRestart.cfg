CONSTANTS
    Threads = {t1, t2}
    Ids = {0, 1, 2, 3, 4, 9, 11}
    Ptr = {p1, p2, p3}
    NULL = NULL
    HASHTABLE_SIZE = 2
    BUFFER_MAX = 2
    UINT_MAX = 9
    StartKeys = {}
    PageSizes = {2}
    BatchSizes = {}
    Test = 9
    Existing = {0, 1, 2, 9, 11}
    MaxSessions = 5
    PageSize = 2
    RetryAttempts = 1
    IntSize = 10
    LongSize = 60
    Faults = {"kill"}
    MaxFaults = 2
SPECIFICATION ClientSpec
SYMMETRY PtrThreadSymmetry
INVARIANTS ClientTypeOK ReportedOnce AcknowledgedIsAccountedFor EveryAddedIsReported WellDefined
PROPERTIES CleanupEmpties
