\* Programs that end themselves from a thread, or by process_kill.
SPECIFICATION Spec
CONSTANTS
    Proc = {initd, p1}
    Initd = initd
    NoProc = noproc
    PidMax = 2
    MaxThreads = 2
    Res = {}
    Status = {"ok"}
    Calls <- SelfCalls
    Timeouts = FALSE
    SelfEnd = TRUE
CHECK_DEADLOCK FALSE
INVARIANT EndTakesEffect
