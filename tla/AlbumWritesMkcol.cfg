SPECIFICATION Spec
CONSTANTS
    Requests = {r1}
    Names = {n1}
    Assets = {x1}
    Files = {f1}
    Backend = "redis"
    MaxAttempts = 2
    MaxAlbums = 2
INVARIANT MkcolCreatesOneAlbum
