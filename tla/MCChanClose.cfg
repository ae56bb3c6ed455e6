CONSTANTS
    g1 = g1
    g2 = g2
    g3 = g3
    v1 = v1
    v2 = v2
    Goroutine = {g1, g2, g3}
    ChanAddr = {1}
    Cap <- MCCap1
    Program <- MCCloseProgram
    Value = {v1, v2}
    Zero = Zero
    Nil = Nil
    NoOp = NoOp
SPECIFICATION Spec
CHECK_DEADLOCK FALSE
INVARIANTS
    SendDefaultMissed
