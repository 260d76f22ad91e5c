SPECIFICATION SFairSpec
CONSTANTS
    Initiator = {0, 1, 2, 3}
    Ssrc = {0, 1, 2, 9}
    LocalSsrc = 9
    Session <- OneEach
    MaxPeers = 2
CHECK_DEADLOCK FALSE
PROPERTY SilentIsRemoved
