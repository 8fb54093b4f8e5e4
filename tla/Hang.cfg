SPECIFICATION ClosingSpec
CONSTANTS
    c1 = c1  c2 = c2  c3 = c3
    Calls = {c1, c2}
    Writers = {c1, c2}
    PoolLimit = 1
    Retries = 2
PROPERTY EveryCallEnds
CHECK_DEADLOCK FALSE
