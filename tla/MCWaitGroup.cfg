CONSTANTS
    Goroutine = {g1, g2, g3}
    MaxTasks = 3
CHECK_DEADLOCK FALSE
SPECIFICATION FairSpec
INVARIANTS
    WaitGroupInv
PROPERTIES
    WaitMeansDone
    WaitReturns
