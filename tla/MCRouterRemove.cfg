CONSTANTS
    Obj = {a, b}
    MaxId = 2
    MaxLinks = 1
    MaxHeard = 1
SPECIFICATION RSpec
INVARIANT RemoveEndsConnections
CHECK_DEADLOCK FALSE
