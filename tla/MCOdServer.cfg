CONSTANTS
    Ids = {1, 2}
    ViewIds = {1}
    Addrs = {"a1", "a2"}
    Direct = {"coords"}
    Broadcast = {"auto"}
    Devices = {"NIIPP_1"}
    ArmrDevices = {"TcpArmr"}
    MaxConnects = 2
    MaxRecords = 2
    MaxRequests = 2
    MaxInputs = 3
    MaxQueued = 1
CHECK_DEADLOCK FALSE
SPECIFICATION FairSpec
INVARIANTS
    TypeOK
    SubscribersAreIdentified
    EachOnceInOrder
    ConfiguredNeverFaults
PROPERTIES
    SolverReaches
    ImplementsRelay
