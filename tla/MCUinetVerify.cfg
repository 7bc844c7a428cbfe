CONSTANTS
    NULL = NULL
    NumForeignAddrs = 2
    NumForeignPorts = 2
    StartAddrs <- MCStartAddrs
    MsgLen = 1
    SndBufSize = 1
    RcvBufSize = 1
SPECIFICATION Spec
INVARIANTS
    NothingUsedAfterFree
    CursorIsLinked
    PeersAreHosts
PROPERTIES
    HeadStays
    FirstConnectionWakes
CHECK_DEADLOCK FALSE
