SPECIFICATION Spec
CONSTANTS
    c1 = c1  f1 = f1  h1 = h1
    Conn = {c1}
    Slot = {f1}
    Chan = {h1}
    Null = Null
    MaxConn = 1
    InitTimeout = 1
    GracefulTimeout = 1
    IdleTimeout = 1
    MaxUnits = 1
    ClientKinds = {"S5_TCP", "S5_UDP"}
    AddrTypes = {"known", "unknown"}
INVARIANT NoAssertionFails
CHECK_DEADLOCK FALSE
