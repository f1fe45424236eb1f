\* A reader that owns the reading end, a writer and a shell, each of which may
\* close the pipe.  They can all end up waiting on a full queue.
SPECIFICATION FairSpec
CONSTANTS
    Task = {r, w, s}
    Reader = r
    Writer = w
    PipeLength = 2
    Counts = {1, 2}
    Calls <- OwnerCalls
CHECK_DEADLOCK FALSE
INVARIANT TypeOK
INVARIANT WakeupPending
PROPERTY ZeroMeansClosed
PROPERTY ReaderAwakened
