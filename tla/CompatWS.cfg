\* A call of the user, a reply event with its query, one close; fair.
SPECIFICATION CompatFairSpec
CONSTANTS
    user = user
    query = query
    reply = reply
    Cmd <- MCCmd
    Frame <- MCCall
    Inbound <- MCInbound
    Call <- MCCall
    Config = {}
    Closer = {x1}
    Event <- MCEvent
    Reply <- MCEvent
    QueryOf <- MCQueryOf
    Echo = {e1, e2}
    CloseFrame = CloseFrame
    None = None
    Notice = Notice
    Failed = Failed
    Parallel = FALSE
INVARIANTS
    WaitingIsHeld
PROPERTIES
    QuerySettles
    LeftOnlyByQuery
CHECK_DEADLOCK FALSE
