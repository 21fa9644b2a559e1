CONSTANTS
    Routes = {"http", "tcp"}
    HTTPRoutes = {"http"}
    Setups <- MCSetups
    MaxProxies = 2
    MaxLapses = 1
    MaxEvents = 3
SPECIFICATION Spec
INVARIANTS GatewayOutlivesRoutes ProxyLeaksAccounted
PROPERTY EventuallySettled
CHECK_DEADLOCK FALSE
