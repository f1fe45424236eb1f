\* A writer that closes the pipe it has written to, against its reader.
SPECIFICATION Spec
CONSTANTS
    Task = {r, w}
    Reader = r
    Writer = w
    PipeLength = 2
    Counts = {1, 2}
    Calls <- StreamCalls
INVARIANT EndAfterData
