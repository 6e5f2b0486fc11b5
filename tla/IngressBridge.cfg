SPECIFICATION Spec
CONSTANTS
    Hosts = {"a", "b"}
    Workers <- Handlers
    MaxFaults = 1
    Ingresses = {"i", "j"}
    Specs <- MCSpecs
    InitialSpecs <- MCInitial
    Services = {"s"}
    InitialServices = {"plain"}
    MaxChanges = 1
PROPERTIES DeclaredIsStored UndeclaredIsGone  ResyncIsQuiet
CHECK_DEADLOCK FALSE
