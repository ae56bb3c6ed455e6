CONSTANTS
    Goroutine = {g1, g2, g3}
    Addr = {a1, a2}
    Nil = Nil
    MaxSema = 2
CHECK_DEADLOCK FALSE
SPECIFICATION FairSpec
INVARIANTS
    SemaInv
PROPERTIES
    ImplementsSemaphore
    WakeupHappens
