SPECIFICATION PoolSpec
CONSTANTS
    Producer = P
    Consumer = {c1, c2}
    Item = {x1, x2}
    NilItem = x1
    DequeueNil = dequeueNil
    MaxElt = 3
    MaxPush = 5
    InitSize = 1
    DequeueLimit = 2
    IndexMod = 4
SYMMETRY ConsumerSymmetry
CHECK_DEADLOCK FALSE
INVARIANTS
    PoolInv
    DroppedIsEmpty
PROPERTIES
    ImplementsDeque
