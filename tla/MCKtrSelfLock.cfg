CONSTANTS
    Hosts = {ktr1}
    Boards = {100}
    Devices <- OneDevice
    NoThread = NoThread
SPECIFICATION FairSpec
PROPERTY ReconnectUpdates
