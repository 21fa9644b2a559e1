CONSTANTS
    g1 = g1
    g2 = g2
    None = None
    OwnerKind = "OZResource"
    Groups = {g1, g2}
    Ids = {1, 2, 3}
    MaxLapses = 1
    MaxEvents = 1
SPECIFICATION FairSpec
INVARIANTS
    TypeOK
    NoDuplicate
PROPERTIES
    EventuallyBound
    DeletionCompletes
