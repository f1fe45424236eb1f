\* Programs that create, kill, wait for and end one another, one with a second
\* thread, and an object.
SPECIFICATION Spec
CONSTANTS
    Proc = {initd, p1, p2}
    Initd = initd
    NoProc = noproc
    PidMax = 2
    MaxThreads = 2
    Res = {r1}
    Status = {"ok"}
    Calls <- TableCalls
    Timeouts = FALSE
    SelfEnd = FALSE
CHECK_DEADLOCK FALSE
INVARIANT TypeOK
INVARIANT WokenWaiterFindsZombie
INVARIANT MovesUnderMutex
PROPERTY LifeGoesOn
PROPERTY KeepsLifecycle
