CONSTANTS
    Threads = {t1, t2}
    Sockets = {s1}
    Mem = {m1, m2, m3}
    NULL = NULL
    StackDepths <- MCStackDepths
    SockOpts = {"SO_REUSEPORT"}
    MaxResid = 1
    MaxLeft = 1
    InitializeAgain = FALSE
    CloseBeforeDeliver = FALSE
SPECIFICATION Spec
SYMMETRY MCSymmetry
INVARIANTS
    NeverFaults
    HeapIsOwned
CHECK_DEADLOCK FALSE
