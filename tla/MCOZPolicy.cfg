CONSTANTS
    web = web
    dns = dns
    None = None
    Ids = {1, 2, 3, 4, 5, 6, 7, 8}
    Resources = {web, dns}
    Exposes <- MCExposes
    BareNotFound = FALSE
    MaxLapses = 1
    MaxEvents = 3
SPECIFICATION FairSpec
INVARIANTS
    TypeOK
    LeaksAccounted
    IdsMatchProtocol
PROPERTY
    EventuallySettled
