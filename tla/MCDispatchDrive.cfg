CONSTANTS
    timer = timer
    app = app
    Threads <- FourThreads
    MaxPending = 4
    Packages = {p1, p2}
    SocketThreads = {s1, s2}
    DispatchThreads = 2
SPECIFICATION DriveSpec
INVARIANTS
    OneDriver
    NoRequestForgotten
    NoLostWakeup
PROPERTY ArrivedIsServed
CHECK_DEADLOCK FALSE
