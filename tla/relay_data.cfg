SPECIFICATION Spec
CONSTANTS
    c1 = c1
    Client = {c1}
    Channel = {}
    Assertions = TRUE
    MaxDns = 1
    MaxConnection = 1
    IdleTimeout = 1
INVARIANT NoDataBeforeResult
CHECK_DEADLOCK FALSE
