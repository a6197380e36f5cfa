SPECIFICATION MCSpec
CONSTANTS
    Hosts = {h1, h2}
    Total = 3
    None = None
    Other = Other
    StoreSelected = FALSE
    Cut <- MCCut
    MemHosts = {h1, h2}
    MemSizes = {2}
PROPERTY PersistedEventually
