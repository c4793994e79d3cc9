CONSTANTS
    Ids = {1, 6, 9}
    Addresses = {1, 2}
    INT_MOD = 8
    ULONG_MOD = 64
    HASHTABLE_SIZE = 1
    BUFFER_MAX = 2
    MaxBatch = 3
SPECIFICATION Spec
INVARIANTS MessagesTypeOK RequestsArrive RefusalsAreReported OverflowNeedsALongBatch
PROPERTIES EnteredAsAsked AnswersAreAboutTheSession
CHECK_DEADLOCK FALSE
