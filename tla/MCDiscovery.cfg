SPECIFICATION DSpec
CONSTANTS
    n = n
    v4 = v4
    v6 = v6
    Server = {n}
    Way = {v4, v6}
    Wanted <- BothWays
    Configured = {n}
    Own = {"a", "b"}
    Taken = {0}
    Refused = {1}
    MaxId = 2
    MaxBus = 2
    MaxChanges = 2
CONSTRAINT OneWayWithOwn
INVARIANTS DTypeOK LeftIsUnknown ListedIsRouted OneListenerPerName OfferedIsTheList
PROPERTY RegistrationEnds
CHECK_DEADLOCK FALSE
