SPECIFICATION Spec
CONSTANTS
    c1 = c1  c2 = c2  f1 = f1  h1 = h1
    Conn = {c1, c2}
    Slot = {f1}
    Chan = {h1}
    Null = Null
    MaxConn = 2
    InitTimeout = 1
    GracefulTimeout = 1
    IdleTimeout = 2
    MaxUnits = 3
    ClientKinds = {"HTTP_NORMAL"}
    AddrTypes = {"known"}
INVARIANTS
    ForwardingAuthorized
    StreamInOrder
SYMMETRY ConnSymmetry
