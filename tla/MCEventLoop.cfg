SPECIFICATION LSpec
CONSTANTS
    c1 = c1
    c2 = c2
    s1 = s1
    Conn = {c1, c2}
    Asking = {c1}
    Session = {s1}
    Fd = {1, 2, 3, 4}
    Forever = 7
    Watchdog = 0
    Retry = 1
    MaxRequests = 2
    Room = 1
INVARIANTS LTypeOK TimersOnTime
PROPERTIES RequestsAreAnswered EndedAreRemoved
CHECK_DEADLOCK FALSE
