SPECIFICATION FairSpec
CONSTANTS
    BufSize = 2
    MaxEvent = 5
    MaxConn = 4
INVARIANTS
    TypeOK
    NewestKept
    UntilClosed
PROPERTIES
    CloseEnds
CHECK_DEADLOCK FALSE
