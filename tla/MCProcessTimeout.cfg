\* process_wait with a finite timeout.
SPECIFICATION Spec
CONSTANTS
    Proc = {initd, p1}
    Initd = initd
    NoProc = noproc
    PidMax = 2
    MaxThreads = 2
    Res = {}
    Status = {"ok"}
    Calls <- TimeoutCalls
    Timeouts = TRUE
    SelfEnd = FALSE
CHECK_DEADLOCK FALSE
INVARIANT WokenWaiterFindsZombie
