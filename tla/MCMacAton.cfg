CONSTANTS
    ETHER_ADDR_LEN = 6
    MacStrings <- MCMacStrings
    NULL = NULL
SPECIFICATION Spec
INVARIANTS
    MacIsParsed
