CONSTANTS
    None = None
    Threads = {app, th1, th2}
    TimerThreads = {th1, th2}
    Timers = {t1, t2}
    SeqModulus = 8
    MaxStops = 3
SPECIFICATION StackSpec
INVARIANTS
    StackTypeOK
    TimersAccounted
    OneCurrentStart
    OwnedAndCovered
PROPERTY StartedFires
CHECK_DEADLOCK FALSE
