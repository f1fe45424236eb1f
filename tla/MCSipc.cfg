\* A host that connects to a client that has bound the port.  The host sends two
\* packets of two bytes, to a buffer of one; the client sends one byte; one fault.
SPECIFICATION FairSpec
CONSTANTS
    Does <- ServerDoes
    Capacity <- Bytes
    MTU = 2
    Size <- Chunks
    MaxChunks <- HostsTwo
    MaxOpens = 1
    MaxFaults = 1
CHECK_DEADLOCK FALSE
INVARIANT TypeOK
INVARIANT StopAndWait
INVARIANT WithinCapacity
PROPERTY HostStream
PROPERTY ClientStream
PROPERTY SenderAnswered
