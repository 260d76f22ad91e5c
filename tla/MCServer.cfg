SPECIFICATION SSpec
CONSTANTS
    Initiator = {0, 1, 2, 3}
    Ssrc = {0, 1, 2, 9}
    LocalSsrc = 9
    Session <- TwoClients
    MaxPeers = 3
VIEW Unsent
CHECK_DEADLOCK FALSE
INVARIANTS
    STypeOK
    GoneIffTold
    ListedHasAPort
    ToldCoversStatus
PROPERTIES
    WatchdogOnlyLostInMoves
    EndingSaysGoodbye
    KeepsPromise
