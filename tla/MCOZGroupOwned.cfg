CONSTANTS
    g1 = g1
    g2 = g2
    None = None
    OwnerKind = "OZResource"
    Groups = {g1}
    Ids = {1, 2}
    MaxLapses = 0
    MaxEvents = 1
SPECIFICATION Spec
INVARIANTS
    OwnedGroupKept
