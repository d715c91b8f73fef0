SPECIFICATION Spec
CONSTANTS
    LineMax = 3
    BufMax = 2
    MaxInput = 6
    MaxConns = 1
INVARIANT EscapedDataIsData
CHECK_DEADLOCK FALSE
