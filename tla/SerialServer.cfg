CONSTANTS
    Threads = {t1}
    Ids = {1, 2, 3}
    Ptr = {p1, p2, p3, p4}
    NULL = NULL
    HASHTABLE_SIZE = 2
    BUFFER_MAX = 2
    UINT_MAX = 9
    StartKeys = {0, 9}
    PageSizes = {0, 1, 2}
    BatchSizes = {1, 2}
SPECIFICATION Spec
INVARIANTS TypeOK UniqueIds OnlyPagingDangles
PROPERTIES ImplementsStore
