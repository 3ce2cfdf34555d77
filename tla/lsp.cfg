SPECIFICATION FairSpec
CONSTANTS
    None = None
    Callers = {c1}
    Shutdown = shutdown
    Reader = reader
    MaxId = 3
    PipeSize = 1
    MaxAsks = 1
INVARIANTS OneOutcome OnlyGivenUpLeak
PROPERTIES TheDeadAreReported StopEnds WritesEnd
CHECK_DEADLOCK FALSE
