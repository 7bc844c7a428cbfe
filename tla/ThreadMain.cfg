CONSTANTS
    NTHREAD = 4
    ROUNDS = 2
    NULL = NULL
SPECIFICATION Spec
INVARIANTS
    TypeOK
    EveryTestPasses
PROPERTIES
    Returns
CHECK_DEADLOCK FALSE
