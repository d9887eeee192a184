CONSTANTS
    a = a
    b = b
    t1 = t1
    t2 = t2
    t3 = t3
    Sides = {a, b}
    Units <- FewUnits
    HalfOpen = FALSE
    Closers = {a}
    Resets = {a}
    FinTimeouts = {a}
    Threads = {t1, t2, t3}
    EndOf <- TwoThreads
    NetCapacity = 1
SPECIFICATION Spec
SYMMETRY Symmetry
CONSTRAINT TwoAtWorkAlone
INVARIANTS
    TypeOK
    ClosedMeansReceived
    AckStopsAtFin
    ClosedMeansReported
    FinIsRepeated
PROPERTY TimewaitKept
CHECK_DEADLOCK FALSE
