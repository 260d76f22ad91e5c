SPECIFICATION DSpec
CONSTANTS
    Obj = {d, n, c}
    Raw = {d}
    Listener = {n}
    Caller = {c}
    Sessions = {1, 2}
    MaxId = 3
    MaxLinks = 2
    MaxHeard = 100
    MaxCount = 2
VIEW SeenByDevices
CONSTRAINT WiresReachDevices
INVARIANTS DTypeOK NeverAborts OpenIsCounted CountsItsSessions
CHECK_DEADLOCK FALSE
