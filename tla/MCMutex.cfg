CONSTANTS
    Goroutine = {g1, g2, g3}
    Nil = Nil
    ActiveSpin = 1
SPECIFICATION FairSpec
INVARIANTS
    MutexInv
    NoStrandedWaiter
    WaiterCount
PROPERTIES
    ImplementsLocker
    Progress
