SPECIFICATION Spec
CONSTANTS
    Keys = {k1}
    Readers = {r1, r2}
    Writers = {w1}
    Backend = "redis"
    TTL <- UnitTTL
    StaleFactor = 2
    StaleFloor = 1
    StoreDelay = 1
    MaxAttempts = 1
    MaxVersion = 1
    MaxTime = 3
INVARIANT InvalidationIsComplete
PROPERTY BoundedStaleness
SYMMETRY Symmetry
