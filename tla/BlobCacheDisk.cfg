SPECIFICATION Spec
CONSTANTS
    k1 = k1
    k2 = k2
    Ranges = {k1, k2}
    Threads = {t1, t2}
    Size <- Sizes
    MaxBytes = 1
    MaxRangeBytes = 2
    TTL = 1
    StoreDelay = 1
    MaxFaults = 0
    MaxTime = 0
INVARIANT DiskIsBounded
