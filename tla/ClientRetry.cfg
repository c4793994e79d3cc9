CONSTANTS
    Threads = {t1, t2}
    Ids = {0, 1, 8}
    Ptr = {p1, p2, p3}
    NULL = NULL
    HASHTABLE_SIZE = 1
    BUFFER_MAX = 2
    UINT_MAX = 7
    StartKeys = {}
    PageSizes = {1}
    BatchSizes = {}
    Test = 10
    Existing = {8}
    MaxSessions = 2
    PageSize = 1
    RetryAttempts = 1
    IntSize = 8
    LongSize = 64
    Faults = {"deadline", "unavailable", "kill"}
    MaxFaults = 2
SPECIFICATION ClientFairSpec
INVARIANTS AcknowledgedIsStored LossIsBounded
PROPERTIES DriverEnds
