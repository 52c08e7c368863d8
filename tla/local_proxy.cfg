SPECIFICATION LocalFairSpec
CONSTANTS
    c1 = c1  f1 = f1
    Conn = {c1}
    Slot = {f1}
    Chan = {}
    Null = Null
    MaxConn = 1
    InitTimeout = 1
    GracefulTimeout = 1
    IdleTimeout = 2
    MaxUnits = 3
    ClientKinds = {"S5_TCP", "HTTP_RAW", "HTTP_NORMAL"}
    AddrTypes = {"known"}
    MaxDns = 1
    MaxRelayConnection = 1
    RelayIdleTimeout = 2
    Assertions = FALSE
INVARIANT DataReachesTarget
PROPERTIES
    RelaySeesProxy
    RelayConnectionsEnd
    ClientsLeave
    HandshakeEnds
CHECK_DEADLOCK FALSE
