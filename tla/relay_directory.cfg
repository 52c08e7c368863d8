SPECIFICATION FairSpec
CONSTANTS
    r1 = r1  r2 = r2  s1 = s1  s2 = s2  i1 = i1  k1 = k1
    Relay = {r1, r2}
    Located = {r1}
    Slave = {s1, s2}
    Index = {i1}
    Key = {k1}
    HeartbeatTimeout = 2
    MaxQueue = 1
    MaxRestart = 1
    Null = Null
INVARIANTS
    DirectoryAgrees
    KnownListed
PROPERTIES
    GoneRelaysForgotten
    LiveRelaysKnown
