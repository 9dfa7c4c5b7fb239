\* Handlers on one thread: two calls, one config call, one close, one event.
SPECIFICATION Spec
CONSTANTS
    Cmd <- MCCmd
    Frame <- MCFrame
    Inbound <- MCInbound
    Call = {c1, c2}
    Config = {g1}
    Closer = {x1}
    Event = {ev1}
    Echo = {e1, e2}
    CloseFrame = CloseFrame
    None = None
    Notice = Notice
    Failed = Failed
    Parallel = FALSE
SYMMETRY Sym
INVARIANTS
    TypeOK
    Correlated
    WaitingIsHeld
    NoticeMeansStopped
PROPERTIES
    QuietOnceClosed
    ImplementsCalls
CHECK_DEADLOCK FALSE
