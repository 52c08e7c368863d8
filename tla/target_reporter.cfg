SPECIFICATION FairSpec
CONSTANTS
    PoolSize = 4
    MaxReport = 7
    MaxOutstanding = 1
INVARIANTS
    NodesInLine
    ThreadEndsFirst
PROPERTIES
    BehavesAsQueue
    EveryReportPosted
    CleanEnds
CHECK_DEADLOCK FALSE
