SPECIFICATION MCSpec
CONSTANTS
    Hosts = {h1, h2}
    Total = 4
    None = None
    Other = Other
    StoreSelected = TRUE
    Cut <- MCCut
    MemHosts = {h1, h2, h3, h4}
    MemSizes = {2, 4}
INVARIANTS MCTypeOK AnswersLeadBack NewestKept MemCachesAgree
PROPERTIES PairsKept PersistedEventually
