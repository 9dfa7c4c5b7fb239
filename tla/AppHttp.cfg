\* A source of two polls, two events, limits of which one may poison the queue,
\* and a close; fair.
SPECIFICATION SourceFairSpec
CONSTANTS
    Action = {}
    Poll = {p1, p2}
    Bad = {}
    Closer = {x1}
    Event = {1, 2}
    Inner = {n1, n2}
    Outer = {}
    Limit = {0, 1, 2}
    Notice = Notice
    None = None
    Req <- MCReq
    Cmd <- MCCmd
INVARIANTS
    EventOnce
    PolledInOrder
PROPERTIES
    ImplementsCalls
    ClientsSettle
    EventsArrive
CHECK_DEADLOCK FALSE
