CONSTANTS
    Groups = {"own", "shared"}
    Shared = {"shared"}
    Policies = {"p", "q"}
    Configs <- MCConfigs
    Setups <- MCSetups
    First <- MCFirst
    Ids = {1, 2, 3}
    None = None
    MaxEvents = 2
SPECIFICATION Spec
INVARIANTS OrphansAccounted GroupsComplete PoliciesReleased PortsInLine
PROPERTY EventuallySettled
CHECK_DEADLOCK FALSE
