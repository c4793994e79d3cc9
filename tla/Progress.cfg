CONSTANTS
    Threads = {t1, t2, t3}
    Ids = {1, 2}
    Ptr = {p1, p2, p3}
    NULL = NULL
    HASHTABLE_SIZE = 1
    BUFFER_MAX = 2
    UINT_MAX = 9
    StartKeys = {}
    PageSizes = {2}
    BatchSizes = {1}
SPECIFICATION OwnersSpec
PROPERTIES EveryCallReturns
