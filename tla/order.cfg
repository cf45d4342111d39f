\* Every way a graph of five blocks can grow, with one restart.
SPECIFICATION Spec
CONSTANTS
    Id = {1, 2, 3, 4, 5}
    K = 1
    CacheDistance = 2
    UseOrderCache = FALSE
    MaxRestarts = 1
INVARIANTS
    OrderComplete CachedBlueSetsExact
PROPERTY
    SameOrderAfterRestart
CHECK_DEADLOCK FALSE
