SPECIFICATION MSpec
CONSTANTS
    Segment = 2
    Mtu = 7
    MaxPayload = 8
    AlsaSizes = {0, 2, 5}
    DeviceSizes = {2, 6, 7}
    MaxMessages = 3
    MaxFaults = 2
INVARIANTS FaultFreeIsExact NothingIsInvented
CHECK_DEADLOCK FALSE
