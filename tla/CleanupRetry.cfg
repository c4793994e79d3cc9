CONSTANTS
    Threads = {t1, t2}
    Ids = {0, 1, 2}
    Ptr = {p1, p2, p3}
    NULL = NULL
    HASHTABLE_SIZE = 2
    BUFFER_MAX = 2
    UINT_MAX = 7
    StartKeys = {}
    PageSizes = {2}
    BatchSizes = {}
    Test = 1
    Existing = {1, 2}
    MaxSessions = 1
    PageSize = 2
    RetryAttempts = 2
    IntSize = 8
    LongSize = 64
    Faults = {"unavailable"}
    MaxFaults = 1
SPECIFICATION ClientSpec
PROPERTIES CleanupSurvivesRetry
