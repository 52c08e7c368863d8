SPECIFICATION FairSpec
CONSTANTS
    a1 = a1  a2 = a2  c1 = c1  c2 = c2  c3 = c3  n1 = n1  n2 = n2  n3 = n3
    Account = {a1}
    Conn = {c1, c2, c3}
    AuditNode = {n1, n2}
    Null = Null
    Usage = {2}
    Limit = 1
    BlockTimeout = 1
    ReportTimeout = 1
INVARIANTS
    ReferencesCounted
    UsageConserved
PROPERTIES
    UsageReported
CHECK_DEADLOCK FALSE
