CONSTANTS
    Goroutine = {g1, g2, g3}
    MaxCount = 2
CHECK_DEADLOCK FALSE
SPECIFICATION FairSpec
INVARIANTS
    FdInv
    ClosedIsDestroyed
PROPERTIES
    ImplementsDescriptor
    CloseWaitsForDestroy
    CallsReturn
