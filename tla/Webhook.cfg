SPECIFICATION FairSpec
CONSTANTS
    Req = {r1, r2}
    e1 = e1
    e2 = e2
    Id <- MCId
    Posts <- MCPosts
    Cmd <- MCCmd
    Act = {a1}
    MaxRelease = 2
    Closer = {close}
    Notice = Notice
    None = None
INVARIANTS
    TypeOK
    WaitingIsHeld
    ActionOnce
PROPERTIES
    ClientsSettle
CHECK_DEADLOCK FALSE
