\* One close and nothing else: is the Close command ever answered.
SPECIFICATION FairSpec
CONSTANTS
    Cmd <- MCCmd
    Frame <- MCFrame
    Inbound <- MCInbound
    Call = {}
    Config = {}
    Closer = {x1}
    Event = {}
    Echo = {e1, e2}
    CloseFrame = CloseFrame
    None = None
    Notice = Notice
    Failed = Failed
    Parallel = FALSE
PROPERTIES
    CloseIsAnswered
CHECK_DEADLOCK FALSE
