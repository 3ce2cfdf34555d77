SPECIFICATION FairSpec
CONSTANTS
    None = None
    Langs = {l1, l2}
    Default = {l1}
    NumServers = 4
    MaxStrays = 1
    Mortal = {"up"}
INVARIANTS TypeOK NothingForgotten AllOrNothing
PROPERTIES DeadAreReplaced
CHECK_DEADLOCK FALSE
