SPECIFICATION Spec
CONSTANTS
    c1 = c1  c2 = c2  f1 = f1  h1 = h1
    Conn = {c1, c2}
    Slot = {f1}
    Chan = {h1}
    Null = Null
    MaxConn = 2
    InitTimeout = 1
    GracefulTimeout = 1
    IdleTimeout = 2
    MaxUnits = 1
    ClientKinds = {"S5_TCP", "S5_UDP", "HTTP_RAW"}
    AddrTypes = {"known", "unknown"}
INVARIANTS
    TypeOK
    FutureOwnership
    AuthBalance
    ListPlacement
    NoExpiredSurvivor
    UdpChannelOwnership
    AnswersServed
    OneQuestionAtATime
PROPERTY MarkedStaysMarked
SYMMETRY ConnSymmetry
CHECK_DEADLOCK FALSE
