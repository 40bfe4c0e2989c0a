CONSTANTS
    TimerIds = {1, 2, 3, 4, 5}
    MaxCalls = 2
    MaxConnects = 3
SPECIFICATION FairSpec
INVARIANTS
    TypeOK
    StatusIsTrue
    TimerIffNeeded
    OrphansBounded
PROPERTIES
    ImplementsLink
    Reconnects
    LossReported
