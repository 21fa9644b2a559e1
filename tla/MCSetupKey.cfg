CONSTANTS
    other = other
    tail = tail
    short = short
    None = None
    TooShort = TooShort
    Prefix <- MCPrefix
    Keys = {1, 2, 3, 4, 5}
    Edits = {other, tail, short}
    MaxGen = 2
    MaxLapses = 2
    MaxLags = 1
    MaxEvents = 1
SPECIFICATION FairSpec
INVARIANTS
    TypeOK
    SecretKeyNotDeleted
    FinalizerGuardsKey
    LeaksAccounted
PROPERTIES
    EventuallySettled
    KeyIsHandle
