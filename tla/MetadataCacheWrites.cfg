SPECIFICATION Spec
CONSTANTS
    Keys = {k1}
    Readers = {r1}
    Writers = {w1}
    Backend = "memory"
    TTL <- UnitTTL
    StaleFactor = 2
    StaleFloor = 1
    StoreDelay = 1
    MaxAttempts = 1
    MaxVersion = 1
    MaxTime = 1
INVARIANT WritesInvalidateImmediately
