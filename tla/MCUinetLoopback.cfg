CONSTANTS
    NULL = NULL
    Conns = {c1, c2}
    CopyBufSize = 2
    SndBufSize = 2
    MaxData = 3
SPECIFICATION Spec
INVARIANTS
    TypeOK
    QueueIsActive
    EchoConserves
PROPERTIES
    QueuedIsServed
CHECK_DEADLOCK FALSE
