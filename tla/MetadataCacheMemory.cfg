SPECIFICATION Spec
CONSTANTS
    Keys = {k1}
    Readers = {r1, r2}
    Writers = {w1}
    Backend = "memory"
    TTL <- ZeroTTL
    StaleFactor = 2
    StaleFloor = 1
    StoreDelay = 1
    MaxAttempts = 2
    MaxVersion = 2
    MaxTime = 2
INVARIANTS TypeOK InvalidationIsComplete FreshHasBackup
PROPERTY BoundedStaleness
SYMMETRY Symmetry
