\* Programs that wait for one another and end, without kills: what must
\* eventually happen.  There are as many PIDs as programs.
SPECIFICATION FairSpec
CONSTANTS
    Proc = {initd, p1, p2}
    Initd = initd
    NoProc = noproc
    PidMax = 3
    MaxThreads = 1
    Res = {}
    Status = {"ok"}
    Calls <- LiveCalls
    Timeouts = FALSE
    SelfEnd = FALSE
CHECK_DEADLOCK FALSE
INVARIANT PidNamesOneProcess
PROPERTY WaiterReleased
PROPERTY EndedIsCleaned
