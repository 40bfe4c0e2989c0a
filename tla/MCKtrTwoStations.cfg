CONSTANTS
    Hosts = {ktr1, ktr2}
    Boards = {100}
    Devices <- OneDevice
    NoThread = NoThread
SPECIFICATION Spec
PROPERTY RegisterWhenDue
