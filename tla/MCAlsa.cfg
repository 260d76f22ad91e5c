SPECIFICATION ASpec
CONSTANTS
    p = p
    q = q
    Ext = {p, q}
    Exported = {q}
    Hardware = {q}
    Name = {"piano"}
    NameOf <- Alike
    OwnPort = {1, 2}
    MaxId = 4
    MaxQueue = 3
    MaxSubs = 2
VIEW SeenByHandlers
CONSTRAINTS QueueBound CountBound WiringBound
INVARIANTS ATypeOK UnusedIsDisconnected UsedIsConnected ClientsAreOwned LeftIsForgotten OneUserUncounted ExportsArePresent
CHECK_DEADLOCK FALSE
