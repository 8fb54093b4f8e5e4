SPECIFICATION Spec
CONSTANTS
    k1 = k1  k2 = k2
    Keys = {k1, k2}
    MaxTokens = 2
    WindowSec = 1
    Res = 3
    Bypass = TRUE
    Horizon = 4
    MaxBoots = 1
    NoBucket = NoBucket
SYMMETRY Symmetry
INVARIANTS TypeOK BurstBound RateBound RetryAfterHonoured
PROPERTY ImplementsTokenBucket
CHECK_DEADLOCK FALSE
