CONSTANTS
    NULL = NULL
SPECIFICATION KThreadSpec
INVARIANTS
    GoneIsFreed
CHECK_DEADLOCK FALSE
