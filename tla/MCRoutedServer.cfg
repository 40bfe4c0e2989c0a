CONSTANTS
    Clients = {100, 101}
    Listeners = {l1, l2}
    Routes = {0, 1, 2}
    NULL = NULL
    MaxReceivers = 2
SPECIFICATION Spec
INVARIANTS
    RoutesOneToOne
    RoutesAreJoin
PROPERTY ImplementsRouteTable
