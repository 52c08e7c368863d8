SPECIFICATION FairSpec
CONSTANTS
    c1 = c1  c2 = c2  h1 = h1
    Client = {c1, c2}
    Channel = {h1}
    Assertions = TRUE
    MaxDns = 1
    MaxConnection = 1
    IdleTimeout = 1
INVARIANTS
    QuestionBacked
    RelayPlacement
PROPERTIES
    KeepsProtocol
    QuestionsAnswered
CHECK_DEADLOCK FALSE
