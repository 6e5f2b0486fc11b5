SPECIFICATION Spec
CONSTANTS
    Ingresses = {"i", "j"}
    Services = {"s1", "s2"}
    Gateways = {"g"}
    Routes = {"r", "t"}
    RouteKind <- MCRouteKind
    Specs <- MCSpecs
    InitialObjs <- MCInitialObjs
    Rank <- MCRank
    Hosts <- MCHosts
    Requests <- MCRequests
    Entries <- MCEntries
    InitialSlaves <- MCInitialSlaves
    Conns = {c1}
    MaxChanges = 1
    MaxFaults = 1
    MaxRequests = 2
INVARIANTS TLSOrder AnsweredByFirstSource AnswersWereGiven AnswersFollowObjects
PROPERTIES ResyncKeepsAnswers
CHECK_DEADLOCK FALSE
