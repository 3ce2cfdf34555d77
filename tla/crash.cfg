SPECIFICATION FairSpec
CONSTANTS
    j1 = j1  j2 = j2  w1 = w1  w2 = w2  b1 = b1  q1 = q1
    None = None
    Jobs = {j1, j2}
    Workers = {w1, w2, w3}
    Execs = {e1, e2, e3, e4, e5}
    Batches = {}
    Queues = {q1}
    QueueOf <- OneQueue
    Priority <- FirstHigh
    MaxRetries <- OneAndTwo
    BatchOf <- NoBatch
    Concurrency = 1
    Stallable = {}
    Crashable = {w2, w3}
    Stoppable = {}
    LogFails = {}
    Commands = {}
    ApiMayCrash = FALSE
    Kinds <- AllKinds
INVARIANTS ChildAfterParents DeadLocksReapable
PROPERTIES EveryJobSettles DeadLocksFreed
