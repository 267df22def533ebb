SPECIFICATION FairSpec
CONSTANTS
    Workers = {w1, w2, w3}
    MaxRequests = 2
    MaxStreams = 1
    Limit = 2
    Window = 1
    MaxCount = 2
INVARIANTS TypeOK InFlightIsBounded NoPermitIsLost OvershootIsBounded
PROPERTIES RequestsEnd LockoutEnds
