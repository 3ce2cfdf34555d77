SPECIFICATION FairSpec
CONSTANTS
    None = None
    Rows = {r1, r2, r3}
    MaxInterrupts = 1
    Parses = TRUE
INVARIANTS NeverLost OneEach
PROPERTIES SeriesGoesOn
CHECK_DEADLOCK FALSE
