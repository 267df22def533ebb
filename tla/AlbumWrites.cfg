SPECIFICATION Spec
CONSTANTS
    Requests = {r1, r2}
    Names = {n1}
    Assets = {x1}
    Files = {f1}
    Backend = "redis"
    MaxAttempts = 2
    MaxAlbums = 2
INVARIANTS TypeOK ConfirmedUploadIsInAlbum ReceiptIsHonest StagingIsCleaned
SYMMETRY Symmetry
CONSTRAINT OneReceipt
