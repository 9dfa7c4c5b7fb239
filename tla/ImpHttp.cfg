\* A poll, one with bad parameters and one action, two events, a close, echoes of both kinds.
SPECIFICATION Spec
CONSTANTS
    Action = {a1}
    Poll = {p1}
    Bad = {b1}
    Closer = {x1}
    Event = {1, 2}
    Inner = {n1}
    Outer = {o1}
    Limit = {1, 2}
    Notice = Notice
    None = None
    Req <- MCReq
    Cmd <- MCCmd
INVARIANTS
    TypeOK
    Correlated
    WaitingIsHeld
PROPERTIES
    QuietOnceClosed
CHECK_DEADLOCK FALSE
