SPECIFICATION FairSpec
CONSTANTS
    a1 = a1  a2 = a2
    MaxGroup = 1
    MaxServer = 2
    Address = {a1, a2}
    None = None
    UpdateTimeout = 1
    MaxChange = 4
    MaxNow = 3
    MaxFlight = 2
INVARIANTS
    VersionMeansList
    AuditConnectionsFollow
    PackedServersConnected
PROPERTY ListsSettle
