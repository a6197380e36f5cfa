SPECIFICATION FairSpec
CONSTANTS
    c1 = c1
    c2 = c2
    Conns <- MCConns
    UntrackOnDrop = TRUE
    Spliced <- MCSpliced
    MaxBytes = 2
    MaxShots = 1
INVARIANTS TypeOK OpenListed SnapshotConsistent
PROPERTIES EndedUnlisted ClosedEnds
CHECK_DEADLOCK FALSE
