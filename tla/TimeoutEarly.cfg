CONSTANTS
    NULL = NULL
    Callbacks = {c1, c2, c3}
    Delays = {0, 1, 2, 3}
    MsPerSecond = 2
    NsPerMs = 2
    MaxTime = 6
SPECIFICATION Spec
INVARIANTS
    NeverEarly
CHECK_DEADLOCK FALSE
