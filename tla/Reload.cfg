SPECIFICATION FairSpec
CONSTANTS
    p1 = p1 p2 = p2 a1 = a1 x = x y = y
    Clients = {p1, p2, a1}
    Requests <- MCMixed
    Addrs = {x, y}
    StartCfg <- MCStart
    MaxDisconnects = 1
INVARIANTS TypeOK AnswerMeansLoaded LoadedOnce  ListenersUp
PROPERTY AnsweredUnlessBlocked
CHECK_DEADLOCK FALSE
