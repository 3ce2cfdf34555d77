SPECIFICATION Spec
CONSTANTS
    j1 = j1  j2 = j2  w1 = w1  w2 = w2  b1 = b1  q1 = q1
    None = None
    Jobs = {j1, j2}
    Workers = {w1, w2}
    Execs = {e1, e2}
    Batches = {}
    Queues = {q1}
    QueueOf <- OneQueue
    Priority <- Equal
    MaxRetries <- ZeroAndTwo
    BatchOf <- NoBatch
    Concurrency = 2
    Stallable = {w2}
    Crashable = {w2}
    Stoppable = {}
    LogFails = {w1}
    Commands = {"retry", "cancel", "dlq", "link"}
    ApiMayCrash = FALSE
    Kinds <- DueNow
INVARIANTS TypeOK DeadIsListed
PROPERTIES ClaimsValid SettledStays
