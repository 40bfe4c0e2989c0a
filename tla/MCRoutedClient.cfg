CONSTANTS
    Peers = {"od"}
    RouteOf <- MCRouteOf
    MaxConns = 3
    MaxCalls = 3
    Listeners = {"l1"}
    Routes = {1, 2}
    NULL = NULL
    MaxReceivers = 1
CHECK_DEADLOCK FALSE
SPECIFICATION FairSpec
INVARIANTS
    TypeOK
    RouteIsCurrentOrBroken
    KeepsTrying
    ListenerReachesItsClient
    PromptHoldsRoute
PROPERTY PromptRegisters
