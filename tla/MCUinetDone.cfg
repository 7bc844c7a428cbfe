CONSTANTS
    NULL = NULL
    Conns = {c1, c2}
    CopyBufSize = 2
    SndBufSize = 2
    MaxData = 3
SPECIFICATION Spec
INVARIANTS
    DoneMeansDrained
CHECK_DEADLOCK FALSE
