\* Two siblings: the first one to arrive is cached alone.
SPECIFICATION Spec
CONSTANTS
    Id = {1, 2, 3, 4}
    K = 3
    CacheDistance = 1
    UseOrderCache = TRUE
    MaxRestarts = 1
PROPERTY
    CachesKeepOrder
CHECK_DEADLOCK FALSE
