CONSTANTS
    a = a
    b = b
    Byte = {a, b}
    FifoDepth = 2
    CountSpan = 8
    Buffers <- MCBuffers
    Messages <- MCMessages
    Caps = {0, 1, 2, 3, 4}
    MaxTransfer = 3
    Timeout = 2
SPECIFICATION ProgressSpec
PROPERTIES
    TimeoutMeansNoProgress
