SPECIFICATION DSpec
CONSTANTS
    n = n
    v4 = v4
    v6 = v6
    Server = {}
    Way = {}
    Wanted = {}
    Configured = {}
    Own = {"a"}
    Taken = {}
    Refused = {}
    MaxId = 1
    MaxBus = 2
    MaxChanges = 1
PROPERTY AnnouncedWhenConnected
CHECK_DEADLOCK FALSE
