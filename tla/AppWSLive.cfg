\* Two calls and one close under fair scheduling.
SPECIFICATION FairSpec
CONSTANTS
    Cmd <- MCCmd
    Frame <- MCFrame
    Inbound <- MCInbound
    Call = {c1, c2}
    Config = {}
    Closer = {x1}
    Event = {}
    Echo = {e1, e2}
    CloseFrame = CloseFrame
    None = None
    Notice = Notice
    Failed = Failed
    Parallel = FALSE
PROPERTIES
    AnswerReachesCaller
    ClosingTerminates
    NoCallerLeftBehind
CHECK_DEADLOCK FALSE
