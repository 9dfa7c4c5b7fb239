\* Three items through a buffer of one, two senders, one thread, fair.
SPECIFICATION FairSpec
CONSTANTS
    Item = {i1, i2, i3}
    Sender = {s1, s2}
    First = s1
    BufSize = 1
    None = None
    Parallel = FALSE
INVARIANTS
    NoLostWakeup
PROPERTIES
    ItemLeaves
    EndIsSeen
CHECK_DEADLOCK FALSE
