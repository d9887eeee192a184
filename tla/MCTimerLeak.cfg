CONSTANTS
    None = None
    Threads = {app, th1}
    TimerThreads = {th1}
    Timers = {t1}
    SeqModulus = 8
    MaxStops = 1
SPECIFICATION StackSpec
INVARIANT UnusedIsDeleted
CHECK_DEADLOCK FALSE
