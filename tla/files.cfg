SPECIFICATION Spec
CONSTANTS
    None = None
    Empty = Empty
    Threads = {t1}
    Bufs = {b1}
    Edits = {e1, e2}
    Writes = {w1}
    Cut = Cut
    MaxRestarts = 1
INVARIANTS TypeOK CacheSound FreshSymbols  ServerInSync
