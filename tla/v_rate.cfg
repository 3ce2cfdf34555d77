SPECIFICATION Spec
CONSTANTS
    None = None
    Workers = {w1, w2}
    Crashable = {}
    Jobs = {j1, j2, j3}
    Execs = {e1, e2, e3}
    Limits = {2}
    Rates = {1}
    Windows = {1}
    Horizon = 1
INVARIANTS RateLimitRespected
CHECK_DEADLOCK FALSE
