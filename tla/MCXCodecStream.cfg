SPECIFICATION Spec
CONSTANTS
    d = d
    n = n
    x = x
    y = y
    Remote <- MCRemote
    Forgers <- MCForgers
    Peers <- MCPeers
    WithEncoder = {d}
    InitialCache <- MCInitialCache
    DeclareOnBackref = FALSE
    XCODEC_SEGMENT_LENGTH = 2
    XCODEC_WINDOW_COUNT = 1
    HASH_SIZE = 2
    Hash <- MCHash
    Tokens <- MCTokens
    MaxTokens <- MCMaxTokens
INVARIANTS
    InOrder
    DecodesAll
PROPERTIES
    DecodeReturns
CHECK_DEADLOCK FALSE
