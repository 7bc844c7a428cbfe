CONSTANTS
    td_ = td_
    poll_ = poll_
    timeout_ = timeout_
    handler_thread_ = handler_thread_
    main = main
    NULL = NULL
    Stoppers = {td_, main}
    IOFirst = FALSE
    StopAnyTime = TRUE
    MaxStops = 2
SPECIFICATION Spec
PROPERTIES
    JoinReturns
CHECK_DEADLOCK FALSE
