CONSTANTS
    Uavs = {"u1", "u2"}
    MaxTabs = 2
    MaxPoints = 2
    MaxMsgs = 2
    MaxPosted = 1
CHECK_DEADLOCK FALSE
SPECIFICATION FairSpec
INVARIANTS
    TypeOK
    KnownHasTimer
    NoGhosts
    MapShowsKnown
    ClearFindsNothing
PROPERTIES
    SilentUavGoes
    ConfigurationEnds
