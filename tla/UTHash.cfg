CONSTANTS
    MaxAdds = 6
    HashValues = {0, 1, 2, 3}
    HASH_INITIAL_NUM_BUCKETS_LOG2 = 0
    HASH_BKT_CAPACITY_THRESH = 2
SPECIFICATION Spec
INVARIANTS UTHashTypeOK Fsck FindsExactlyTheLinked ChainsAreBounded
PROPERTIES ImplementsList
CHECK_DEADLOCK FALSE
