SPECIFICATION FairSpec
CONSTANTS
    None = None
    Workers = {w1, w2}
    Crashable = {w2}
    Jobs = {j1, j2, j3}
    Execs = {e1, e2, e3}
    Limits = {1}
    Rates = {1}
    Windows = {1}
    Horizon = 1
INVARIANTS ConcurrencyBounded RateBounded PauseBounded
PROPERTIES QueueMoves
CHECK_DEADLOCK FALSE
