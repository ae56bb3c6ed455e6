CONSTANTS
    Goroutine = {g1, g2, g3}
    Nil = Nil
    rwmutexMaxReaders = 5
SPECIFICATION FairSpec
INVARIANTS
    Exclusion
    CountersExact
    UnitsExact
PROPERTIES
    WriterAdmitted
    ReaderAdmitted
