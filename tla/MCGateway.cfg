SPECIFICATION FairSpec
CONSTANTS
    c1 = c1
    c2 = c2
    Clients = {c1, c2}
    IdleLimit = 2
    MaxDevices = 2
    MaxLines = 2
    MaxBlocks = 1
INVARIANTS
    DescriptorsReturned
    TerminatedOnlyBusy
PROPERTIES
    NextClientServed
    StopsWhenAsked
CHECK_DEADLOCK FALSE
