SPECIFICATION FairSpec
CONSTANTS
    c1 = c1
    c2 = c2
    Conns <- MCConns
    UntrackOnDrop = FALSE
    Spliced = {}
    MaxBytes = 1
    MaxShots = 0
PROPERTIES EndedUnlisted
CHECK_DEADLOCK FALSE
