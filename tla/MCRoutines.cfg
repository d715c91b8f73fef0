SPECIFICATION MCSpec
CONSTANTS
    LineMax = 3
    BufMax = 2
    MaxInput = 6
    MaxConns = 1
    Width = 5
    MaxTuples = 3
    CaptureMax = 14
    ManfMax = 2
    ProdMax = 1
    MemSize = 4
    Letters <- MCLetters
    Texts <- MCTexts
    Caps = {0, 1, 3, 7, 8, 9, 12}
    Formats <- MCFormats
    Cises <- MCCises
    Crcs <- MCCrcs
    Tables <- MCTables
    Sizes = {0, 7, 8, 9, 12, 25, 26}
    p1 = p1
    p2 = p2
    lf = lf
    off = off
    own0 = own0
    own1 = own1
    Timeouts = {0, 1}
    EosModes = {off, lf}
    NoEos = off
    Owns = {own0, own1}
    DefaultOwn = own0
    Pads = {0}
    DefaultPad = 0
    DefaultTimeout = 1
    Procs = {p1}
    MaxDevices = 3
    Calls = {"ibrd", "ibwrt", "ibrsp", "ibclr", "ibtrg", "ibloc", "ibpct", "board"}
    Boards = {p1}
    Probers = {p1}
INVARIANTS
    HandlesItsLines
    DivisionExact
    BuffersExact
    DeadlineExact
    CardDescribed
    TransfersUseOwnSettings
    BoardKept
CHECK_DEADLOCK FALSE
