SPECIFICATION Spec
CONSTANTS
    DEFLATE_CHUNK_SIZE = 2
    SegmentSize = 3
    MaxSegments = 2
    MaxInput = 6
    SinkFails = TRUE
    InputAfterEOS = FALSE
    NULL = NULL
INVARIANTS
    FlushIsComplete
CHECK_DEADLOCK FALSE
