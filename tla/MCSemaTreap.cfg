SPECIFICATION TreapSpec
CONSTANTS
    Sudog = {n1, n2, n3, n4}
    Nil = Nil
    Addr = {1, 2, 3, 4}
    Ticket = {1, 3, 5}
    MaxWaiters = 2
SYMMETRY SudogSymmetry
INVARIANTS
    TreapInv
PROPERTIES
    ImplementsWaitLists
    LoopsEnd
