CONSTANTS
    Uavs = {1}
    MaxTime = 2
    m_lifeTime = 1
    MaxCalls = 2
SPECIFICATION FairSpec
PROPERTY StopReturns
