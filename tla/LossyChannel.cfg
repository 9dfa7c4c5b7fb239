\* Four items through a buffer of two, two senders, receiver on another thread.
SPECIFICATION Spec
CONSTANTS
    Item = {i1, i2, i3, i4}
    Sender = {s1, s2}
    First = s1
    BufSize = 2
    None = None
    Parallel = TRUE
SYMMETRY Sym
INVARIANTS
    TypeOK
    NewestSurvive
    InOrder
    ParkedIsWakeable
CHECK_DEADLOCK FALSE
