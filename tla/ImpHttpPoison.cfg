\* One poll that asks for two events of a queue that holds one.
SPECIFICATION Spec
CONSTANTS
    Action = {}
    Poll = {p1}
    Bad = {}
    Closer = {}
    Event = {1}
    Inner = {n1}
    Outer = {}
    Limit = {2}
    Notice = Notice
    None = None
    Req <- MCReq
    Cmd <- MCCmd
INVARIANT EventsAvailable
CHECK_DEADLOCK FALSE
