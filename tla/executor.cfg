SPECIFICATION FairSpec
CONSTANTS
    None = None
    NumTasks = 3
    Timed = {1}
    Endless = {2}
    Escaping = {1, 2}
INVARIANTS InOrder
PROPERTIES EveryTaskSettles
CHECK_DEADLOCK FALSE
