SPECIFICATION Spec
CONSTANTS
    j1 = j1  j2 = j2  w1 = w1  w2 = w2  b1 = b1  q1 = q1
    None = None
    Jobs = {j1, j2, j3}
    Workers = {w1}
    Execs = {e1, e2, e3, e4}
    Batches = {b1}
    Queues = {q1}
    QueueOf <- OneQueue
    Priority <- Equal
    MaxRetries <- One
    BatchOf <- OneBatch
    Concurrency = 2
    Stallable = {}
    Crashable = {w1}
    Stoppable = {w1}
    LogFails = {}
    Commands = {"dlq"}
    ApiMayCrash = TRUE
    Kinds <- DueNow
INVARIANTS CapacityRespected
PROPERTIES ExitLosesNothing
CHECK_DEADLOCK FALSE
