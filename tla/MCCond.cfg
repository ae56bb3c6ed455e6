CONSTANTS
    Goroutine = {g1, g2, g3}
    Nil = Nil
    Width = 8
CHECK_DEADLOCK FALSE
SPECIFICATION FairSpec
INVARIANTS
    CondInv
PROPERTIES
    NotificationNotLost
    NotifiedRuns
