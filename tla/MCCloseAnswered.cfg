CONSTANTS
    a = a
    b = b
    t1 = t1
    t2 = t2
    t3 = t3
    Sides = {a, b}
    Units <- NoUnits
    HalfOpen = FALSE
    Closers = {a, b}
    Resets = {}
    FinTimeouts = {a, b}
    Threads = {t1, t3}
    EndOf <- OneThread
    NetCapacity = 1
SPECIFICATION FairSpec
CONSTRAINT NoFinAnswered
PROPERTY SomeFinAnswered
CHECK_DEADLOCK FALSE
