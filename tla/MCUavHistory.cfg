CONSTANTS
    Uavs = {1, 2}
    MaxTime = 3
    m_lifeTime = 2
    MaxCalls = 1
SPECIFICATION FairSpec
INVARIANTS
    TypeOK
    TreeIsRemovable
    ReadyShowsNothing
    ShownIsDated
PROPERTY ReplayEnds
