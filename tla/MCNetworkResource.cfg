CONSTANTS
    ip1 = ip1
    ip2 = ip2
    z1 = z1
    z2 = z2
    z3 = z3
    None = None
    Nets = {1, 2}
    Resources = {1, 2, 3}
    Records = {1, 2, 3, 4}
    Zones = {z1, z2, z3}
    Unknown = {z3}
    IPs = {ip1, ip2}
    MaxLapses = 1
    MaxEvents = 2
SPECIFICATION FairSpec
INVARIANTS
    TypeOK
    LeaksAccounted
PROPERTY
    EventuallySettled
CHECK_DEADLOCK FALSE
