\* One program with three threads that own an object, join and cancel one
\* another, and its parent, which may kill it.
SPECIFICATION Spec
CONSTANTS
    Proc = {initd, p1}
    Initd = initd
    NoProc = noproc
    PidMax = 2
    MaxThreads = 3
    Res = {r1}
    Status = {"ok"}
    Calls <- ThreadCalls
    Timeouts = TRUE
    SelfEnd = TRUE
SYMMETRY Symmetry
CHECK_DEADLOCK FALSE
INVARIANT RunsOnlyWhileActive
INVARIANT EndedOwnsNothing
INVARIANT DestroyedOnce
INVARIANT RunningThreadNotJoined
PROPERTY JoinMeansEnded
