CONSTANTS
    r1 = r1
    r2 = r2
    t1 = t1
    t2 = t2
    library = library
    other = other
    s1 = s1
    s2 = s2
    s3 = s3
    None = None
    Requests <- MCRequests
    Tokens <- MCTokens
    Libraries <- MCLibraries
    Shares <- MCShares
    Default = library
    LibraryOf <- MCLibraryOf
    Allowances <- MCAllowances
    Ttl = 3
    MaxTime = 3
SYMMETRY Symmetry
SPECIFICATION Spec
INVARIANTS
    TypeOK
    AttachedSharesStay
    AttachedSharesHaveKeys
    KeysEndWithTheirSession
    AdminKeySurvives
    GrantsAreEarned
    MountsShowCapabilities
PROPERTIES
    EndedSessionsStayEnded
