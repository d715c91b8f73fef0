SPECIFICATION ApiSpec
CONSTANTS
    p1 = p1
    p2 = p2
    lf = lf
    off = off
    own0 = own0
    own1 = own1
    Timeouts = {0, 1}
    EosModes = {off}
    NoEos = off
    Owns = {own0}
    DefaultOwn = own0
    Pads = {0}
    DefaultPad = 0
    DefaultTimeout = 1
    Procs = {p1}
    MaxDevices = 3
    Calls = {"ibclr"}
    Boards = {}
    Probers = {}
INVARIANT CallsUseOwnTimeout
