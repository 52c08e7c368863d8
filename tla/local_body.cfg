SPECIFICATION LocalSpec
CONSTANTS
    c1 = c1  f1 = f1
    Conn = {c1}
    Slot = {f1}
    Chan = {}
    Null = Null
    MaxConn = 1
    InitTimeout = 1
    GracefulTimeout = 1
    IdleTimeout = 1
    MaxUnits = 3
    ClientKinds = {"HTTP_NORMAL"}
    AddrTypes = {"known"}
    MaxDns = 1
    MaxRelayConnection = 1
    RelayIdleTimeout = 1
    Assertions = TRUE
INVARIANT BodyFindsServer
CHECK_DEADLOCK FALSE
