SPECIFICATION CFairSpec
CONSTANTS
    Initiator = {0, 7}
    Ssrc = {0, 1, 2, 9}
    MyInitiator = 7
    MySsrc = 9
    SsrcOf <- TwoServers
    ShortCks = 2
    Endpoints <- TwoAddresses
    LocalFaults = FALSE
CHECK_DEADLOCK FALSE
PROPERTY EveryAddressTried
