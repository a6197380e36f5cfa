SPECIFICATION MCSpec
CONSTANTS
    a = a
    b = b
    c = c
    Names = {a, b, c}
    OwnLists <- MCOwnLists
    ProviderLists <- MCProviderLists
    Requests = {r1, r2}
    Dials = {d}
    BalanceDials = {d1, d2}
    MaxStores = 2
    NoName = NoName
    MaxDelay = 2
    MaxTests = 2
    Tolerance = 1
INVARIANTS
    MCTypeOK StoredIsSelected SelectionHonoured FallbackByPriority UrlTestFastest
    FailedNotFastest
PROPERTIES SessionAffinity StickyFindsAlive
