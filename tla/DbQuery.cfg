SPECIFICATION TimerSpec
CONSTANTS
    c1 = c1  c2 = c2  c3 = c3
    Calls = {c1, c2, c3}
    Writers = {c1, c2}
    PoolLimit = 2
    Retries = 2
INVARIANTS TypeOK PoolSound AppliedAtMostOnce
PROPERTIES ImplementsDbCall TimersSuffice
CHECK_DEADLOCK FALSE
