CONSTANTS
    None = None
    Groups = {1, 2, 3}
    Nets = {1, 2, 3}
    Names = {1, 2, 3}
    Routers = {1, 2, 3}
    MaxLapses = 1
    MaxEvents = 1
SPECIFICATION FairSpec
INVARIANTS
    TypeOK
    NetworksAccounted
    GroupsAccounted
PROPERTIES
    EventuallySettled
    NetworkIsHandle
