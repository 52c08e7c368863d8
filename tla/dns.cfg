SPECIFICATION FairSpec
CONSTANTS
    h1 = h1  h2 = h2  a1 = a1  a2 = a2  a3 = a3  t1 = t1  t2 = t2
    Host = {h1, h2}
    Asker = {a1, a2, a3}
    Thread = {t1, t2}
    MaxRequest = 2
    MaxSource = 2
    QueryTimeout = 2
INVARIANTS
    PendingBacked
    RequestsKept
PROPERTIES
    KeepsProtocol
    QuestionsAnswered
