CONSTANTS
    td_ = td_
    poll_ = poll_
    timeout_ = timeout_
    handler_thread_ = handler_thread_
    main = main
    NULL = NULL
    Stoppers = {td_, main}
    IOFirst = TRUE
    StopAnyTime = FALSE
    MaxStops = 2
SPECIFICATION Spec
INVARIANTS
    ThreadsIsNotRaced
CHECK_DEADLOCK FALSE
