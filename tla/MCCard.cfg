SPECIFICATION CardSpec
CONSTANTS
    MaxTuples = 64
    CaptureMax = 1024
    ManfMax = 28
    ProdMax = 16
    Cises <- MCCises
    Crcs = {}
    Tables = {}
    Sizes = {32}
INVARIANT SmallBufferRefused
CHECK_DEADLOCK FALSE
