SPECIFICATION FairSpec
CONSTANTS
    s1 = s1
    s2 = s2
    d1 = d1
    d2 = d2
    o1 = o1
    None = None
    Recv = Recv
    Stop = Stop
    Sources <- MCSources
    Dests <- MCDests
    Outbounds <- MCOutbounds
    Flows <- MCFlows
    ChanCap = 1
    Timeout = 1
    MaxPackets = 3
    MaxReplies = 1
INVARIANTS TypeOK SessionsTracked ReplyToItsSource
PROPERTIES SendUnblocks CloseStops
