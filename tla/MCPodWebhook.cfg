CONSTANTS
    Keys = {"k"}
    Secrets = {"s", "t"}
    None = None
    MaxFaults = 1
    MaxEvents = 2
    Pods = {"legacy", "web", "bare"}
    Key <- MCKey
    Annotated = {"legacy", "web"}
    Profiles = {1, 2}
    Selects <- MCSelects
    SetupKeyRef <- MCSetupKeyRef
    SetupKeys = {"a", "b"}
SPECIFICATION PSpec
INVARIANTS PTypeOK NoLostWakeup
PROPERTIES AdmittedWithKey EventuallyAdmitted
CHECK_DEADLOCK FALSE
