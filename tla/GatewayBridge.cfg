SPECIFICATION Spec
CONSTANTS
    Hosts = {"a", "b"}
    Workers = {"gateway"}
    MaxFaults = 1
    Gateways = {"g"}
    GatewaySpecs <- MCGateways
    HTTPRoutes = {"r"}
    HTTPSpecs <- MCHTTP
    TLSRoutes = {"t"}
    TLSSpecs <- MCTLS
    Services = {"s"}
    InitialServices = {"plain"}
    InitialGateways <- FirstGateways
    InitialHTTP <- FirstHTTP
    InitialTLS <- FirstTLS
    MaxChanges = 2
PROPERTIES RoutedIsStored UnroutedIsGone
CHECK_DEADLOCK FALSE
