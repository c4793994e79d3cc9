CONSTANTS
    Threads = {t1, t2}
    Ids = {1, 2}
    Ptr = {p1, p2, p3, p4}
    NULL = NULL
    HASHTABLE_SIZE = 1
    BUFFER_MAX = 2
    UINT_MAX = 9
    StartKeys = {0, 9}
    PageSizes = {2}
    BatchSizes = {1}
SPECIFICATION Spec
SYMMETRY ThreadPtrSymmetry
INVARIANTS Capacity BufferBound NoStuckSession
PROPERTIES ScansAdvance
