SPECIFICATION FairSpec
CONSTANTS
    j1 = j1  j2 = j2  w1 = w1  w2 = w2  b1 = b1  q1 = q1
    None = None
    Jobs = {j1}
    Workers = {w1, w2}
    Execs = {e1, e2, e3}
    Batches = {}
    Queues = {q1}
    QueueOf <- OneQueue
    Priority <- Equal
    MaxRetries <- OneAndTwo
    BatchOf <- NoBatch
    Concurrency = 2
    Stallable = {}
    Crashable = {w1}
    Stoppable = {w1}
    LogFails = {}
    Commands = {}
    ApiMayCrash = FALSE
    Kinds <- DueNow
PROPERTIES DeadLocksFreed
CHECK_DEADLOCK FALSE
