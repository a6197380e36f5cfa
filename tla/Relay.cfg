SPECIFICATION FairSpec
CONSTANTS
    BufSize = 2
    MaxSend = 3
INVARIANTS TypeOK InOrder EofAfterData CountsExact
PROPERTIES FlushedEventually HalfClosedEnds
CHECK_DEADLOCK FALSE
