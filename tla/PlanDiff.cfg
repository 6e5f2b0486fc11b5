SPECIFICATION Spec
CONSTANTS
    c1 = c1
    c2 = c2
    Clients = {c1, c2}
    Lower <- MCLower
    Desires <- MCDesires
    Initial <- MCInitial
    Puts <- MCPuts
    MaxPlans <- MCMaxPlans
    MaxFaults = 1
INVARIANTS
    OnePlanReaches
    TwoPlansReach
    SettledPlanIsEmpty
    NoOrphanBackends
    AppliedAloneIsAnnounced
CHECK_DEADLOCK FALSE
