SPECIFICATION Spec
CONSTANTS
    a = a
    b = b
    Peers <- MCPeers
    Remote <- MCRemote
    WithEncoder <- MCPeers
    InitialCache <- MCInitialCache
    DeclareOnBackref = FALSE
    XCODEC_SEGMENT_LENGTH = 2
    XCODEC_WINDOW_COUNT = 2
    HASH_SIZE = 2
    Hash <- MCHash
    Data = {241}
    Segments <- MCSegments
    MaxSend <- MCMaxSend
PROPERTIES
    LearnTeaches
CHECK_DEADLOCK FALSE
