SPECIFICATION Spec
CONSTANTS
    j1 = j1  j2 = j2  w1 = w1  w2 = w2  b1 = b1  q1 = q1
    None = None
    Jobs = {j1, j2}
    Workers = {w1, w2}
    Execs = {e1, e2, e3}
    Batches = {b1}
    Queues = {q1}
    QueueOf <- OneQueue
    Priority <- Equal
    MaxRetries <- OneAndTwo
    BatchOf <- OneBatch
    Concurrency = 2
    Stallable = {w1, w2}
    Crashable = {w1, w2}
    Stoppable = {w1}
    LogFails = {w1}
    Commands = {}
    ApiMayCrash = FALSE
    Kinds <- DueNow
INVARIANTS LockBacked OwnershipIntact NoEarlyDeath BatchExact
PROPERTIES LocksAreLeases
CHECK_DEADLOCK FALSE
