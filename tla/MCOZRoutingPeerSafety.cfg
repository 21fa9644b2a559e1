CONSTANTS
    p1 = p1
    p2 = p2
    r1 = r1
    other = other
    g = g
    m = m
    None = None
    Group = g
    Manual = {}
    Peers = {p1, p2}
    Keys = {1, 2, 3, 4, 5, 6}
    Nets = {1, 2, 3}
    Resources = {r1}
    Foreign = {}
    MaxFaults = 1
    MaxEvents = 1
SPECIFICATION Spec
SYMMETRY PeerSymmetry
INVARIANTS
    TypeOK
    OneNetwork
