SPECIFICATION Spec
CONSTANTS
    Blocker = {"r"}
    Setter = setter
    Owner = owner
    Poller = poller
    Callback = {p1}
    Time = {t1, t2}
    MaxSet = 2
    MaxOpen = 2
    MaxAdding = 1
    WaiterRange = 16
SYMMETRY TimeSymmetry
VIEW StaleView
CHECK_DEADLOCK FALSE
INVARIANTS
    NetpollInv
    NoLostReadiness
    NobodyStranded
    DeadlineArmed
    EventErrFresh
