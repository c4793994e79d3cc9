CONSTANTS
    maxSessionId = 4
    MaxAdds = 6
    startSessionId = 1
    maxFwSessionId = 4
    FirstBatch = 2
    LoopBatch = 1
    Tuples = {"a", "b"}
    TuplesV6 = {"p"}
SPECIFICATION FairSpec
INVARIANTS NosTypeOK TablesAgree OneSessionOnePlace FetchFinds
PROPERTIES RefusedForAReason ClosedIsReported
