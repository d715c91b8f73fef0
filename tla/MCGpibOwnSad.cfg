SPECIFICATION Spec
CONSTANTS
    d1 = d1
    d2 = d2
    c = c
    Ctl = c
    Devices <- MCDevices
    Pad <- MCPad
    Sad <- MCOwnSad
    MaxData = 1
    Ops = {"poll"}
INVARIANT WeAreAddressed
