CONSTANTS
    Threads = {t1, t2}
    Sockets = {s1}
    Mem = {m1, m2, m3}
    NULL = NULL
    StackDepths <- MCStackDepths
    SockOpts = {"SO_REUSEPORT"}
    MaxResid = 1
    MaxLeft = 1
    InitializeAgain = FALSE
    CloseBeforeDeliver = TRUE
SPECIFICATION Spec
INVARIANTS
    NeverFaults
CHECK_DEADLOCK FALSE
