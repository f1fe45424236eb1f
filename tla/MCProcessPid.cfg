\* A process on the zombie list and a new one with the same PID.
SPECIFICATION Spec
CONSTANTS
    Proc = {initd, p1, p2}
    Initd = initd
    NoProc = noproc
    PidMax = 2
    MaxThreads = 1
    Res = {}
    Status = {"ok"}
    Calls <- LifeCalls
    Timeouts = FALSE
    SelfEnd = FALSE
CHECK_DEADLOCK FALSE
INVARIANT PidNamesOneProcess
