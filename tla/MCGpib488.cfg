SPECIFICATION FairSpec
CONSTANTS
    d1 = d1
    d2 = d2
    c = c
    Ctl = c
    Devices <- MCDevices
    Pad <- MCPad
    Sad <- MCSad
    MaxData = 1
    Ops = {"ifc", "write", "read", "poll", "clear", "dcl", "pass"}
INVARIANTS
    TypeOK
    DataOnlyToTarget
    ReadOnlyFromTarget
    CommandOnlyTarget
    OkMeansDone
    PollsAreEnded
    ErrorsHaveCauses
PROPERTY CallsReturn
