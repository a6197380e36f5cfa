SPECIFICATION FairSpec
CONSTANTS
    p1 = p1 p2 = p2 a1 = a1 x = x y = y
    Clients = {p1, p2}
    Requests <- MCTwoPuts
    Addrs = {x, y}
    StartCfg <- MCStart
    MaxDisconnects = 0
PROPERTY EveryRequestAnswered
CHECK_DEADLOCK FALSE
