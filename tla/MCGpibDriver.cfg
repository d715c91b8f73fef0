SPECIFICATION FairSpec
CONSTANTS
    a1 = a1
    a2 = a2
    Apps = {a1, a2}
    MaxPulls = 2
INVARIANTS
    TypeOK
    NothingLeaks
    RegistersSafe
    RemovalKnown
PROPERTIES
    ReleasedInOrder
    RemovalNoticed
    DriverReturns
