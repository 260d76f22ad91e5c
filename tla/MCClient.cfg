SPECIFICATION CFairSpec
CONSTANTS
    Initiator = {0, 7}
    Ssrc = {0, 1, 9}
    MyInitiator = 7
    MySsrc = 9
    SsrcOf <- OneServer
    ShortCks = 2
    Endpoints <- Unresolved
    LocalFaults = TRUE
CHECK_DEADLOCK FALSE
INVARIANTS
    CTypeOK
    TimerFitsState
    CallbacksFitState
    AllConnectedIsConnected
PROPERTIES
    CallsReturn
    KeepsTrying
