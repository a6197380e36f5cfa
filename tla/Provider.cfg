SPECIFICATION FairSpec
CONSTANTS
    Requests = {"r1"}
    MaxContent = 2
    None = None
    NotYet = NotYet
INVARIANTS TypeOK ServesHash
PROPERTIES FollowsRemote ListsTested
