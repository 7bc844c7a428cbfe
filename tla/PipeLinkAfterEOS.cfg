SPECIFICATION Spec
CONSTANTS
    DEFLATE_CHUNK_SIZE = 2
    SegmentSize = 3
    MaxSegments = 2
    MaxInput = 6
    SinkFails = TRUE
    InputAfterEOS = TRUE
    NULL = NULL
PROPERTIES
    ConsumeReturns
CHECK_DEADLOCK FALSE
