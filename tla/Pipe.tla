-------------------------------- MODULE Pipe --------------------------------
(***************************************************************************)
(* The pipe behind a FIFO file: fs/pipe.c over the queue of                *)
(* kernel/kwrapper.c.  A pipe has no lock of its own: RAMFS drops its      *)
(* mutex before it calls a pipe operation, so the operations of several    *)
(* tasks interleave at every access to the queue and to the flags, and     *)
(* "flag |= x" is a load and a store.                                      *)
(*                                                                         *)
(* A pipe is closed by the flag CLOSED and by a NUL put in the queue, which *)
(* awakens a reader blocked on it.  MAX_DELAY_MS (49 days) is for ever.    *)
(***************************************************************************)
EXTENDS Naturals, Sequences

CONSTANTS
    Task,           \* tasks that have the FIFO open
    Calls,          \* the operations each of them uses
    PipeLength,     \* __OS_PIPE_LENGTH__
    Counts          \* the sizes of reads and writes

PipeOp == {"read", "write", "close", "clear", "permanent"}

ASSUME CallsAssumption  == Calls \in [Task -> SUBSET PipeOp]
ASSUME LengthAssumption == PipeLength \in Nat \ {0}
ASSUME CountsAssumption == Counts \subseteq Nat \ {0}

Byte == {"data", "nul"}
Flag == {"closed", "permanent"}

PC == {"idle",      \* in the program
       "rlength",   \* _pipe_read, about to ask for the length
       "rflag",     \* ... about to test CLOSED
       "receive",   \* ... in _queue_receive
       "end",       \* ... in _queue_send of the NUL, about to break
       "wlength",   \* _pipe_write, about to ask for the length
       "wflag",     \* ... about to test CLOSED
       "send",      \* ... in _queue_send
       "cstore",    \* _pipe_close, about to store the flags
       "cmark",     \* ... in _queue_send of the NUL
       "pstore"}    \* _pipe_permanent, about to store the flags

(* A read or a write: bytes asked for and done, the mode, and noitm.       *)
Transfer == [count: Nat, n: Nat, nonblocking: BOOLEAN, noitm: Nat]
NoTransfer == [count |-> 0, n |-> 0, nonblocking |-> FALSE, noitm |-> 0]

VARIABLES
    queue,      \* the queue of bytes
    flag,       \* pipe->flag
    pc,         \* where a task is
    io,         \* the transfer it is in
    loaded      \* the flags it has loaded and not stored yet

vars == <<queue, flag, pc, io, loaded>>

TypeOK ==
    /\ queue  \in Seq(Byte) /\ Len(queue) <= PipeLength
    /\ flag   \in SUBSET Flag
    /\ pc     \in [Task -> PC]
    /\ io     \in [Task -> Transfer]
    /\ loaded \in [Task -> SUBSET Flag]

(* _pipe_create. *)
Init ==
    /\ queue  = <<>>
    /\ flag   = {}
    /\ pc     = [t \in Task |-> "idle"]
    /\ io     = [t \in Task |-> NoTransfer]
    /\ loaded = [t \in Task |-> {}]

-----------------------------------------------------------------------------

HasRoomMutant == Len(queue) <= PipeLength
HasRoom       == Len(queue) < PipeLength

At(t, at)    == pc[t] = at
Goes(t, at)  == pc' = [pc EXCEPT ![t] = at]

Returns(t) ==
    /\ Goes(t, "idle")
    /\ io' = [io EXCEPT ![t] = NoTransfer]

(* One byte more: the for loop goes on or ends. *)
NextByte(t, loop) ==
    IF io[t].n + 1 = io[t].count
    THEN Returns(t)
    ELSE /\ Goes(t, loop)
         /\ io' = [io EXCEPT ![t].n = @ + 1]

Transfers(t, op, loop) ==
    /\ At(t, "idle")
    /\ op \in Calls[t]
    /\ \E k \in Counts, nb \in BOOLEAN :
          io' = [io EXCEPT ![t] = [NoTransfer EXCEPT !.count = k, !.nonblocking = nb]]
    /\ Goes(t, loop)
    /\ UNCHANGED <<queue, flag, loaded>>

(* The number of items is read before the flag is, and kept until then.    *)
AsksLength(t, at, to) ==
    /\ At(t, at)
    /\ io' = [io EXCEPT ![t].noitm = Len(queue)]
    /\ Goes(t, to)
    /\ UNCHANGED <<queue, flag, loaded>>

AtEndMutant(t) == FALSE
AtEnd(t)       == "closed" \in flag /\ io[t].noitm = 0

-----------------------------------------------------------------------------
(* _pipe_read. *)

Read(t)       == Transfers(t, "read", "rlength")
ReadLength(t) == AsksLength(t, "rlength", "rflag")

ReadFlag(t) ==
    /\ At(t, "rflag")
    /\ Goes(t, IF AtEnd(t) THEN "end" ELSE "receive")
    /\ io' = [io EXCEPT ![t].noitm = 0]
    /\ UNCHANGED <<queue, flag, loaded>>

ReadEnd(t) ==
    /\ At(t, "end")
    /\ HasRoom
    /\ queue' = Append(queue, "nul")
    /\ Returns(t)
    /\ UNCHANGED <<flag, loaded>>

(* The first byte of a blocking read is waited for without limit. *)
WaitsForeverMutant(t) == ~ io[t].nonblocking /\ io[t].n # 0
WaitsForever(t)       == ~ io[t].nonblocking /\ io[t].n = 0

Receive(t) ==
    /\ At(t, "receive")
    /\ queue # <<>>
    /\ queue' = Tail(queue)
    /\ NextByte(t, "rlength")
    /\ UNCHANGED <<flag, loaded>>

ReceiveTimeout(t) ==
    /\ At(t, "receive")
    /\ queue = <<>>
    /\ ~ WaitsForever(t)
    /\ Returns(t)
    /\ UNCHANGED <<queue, flag, loaded>>

-----------------------------------------------------------------------------
(* _pipe_write. *)

Write(t)       == Transfers(t, "write", "wlength")
WriteLength(t) == AsksLength(t, "wlength", "wflag")

WriteFlag(t) ==
    /\ At(t, "wflag")
    /\ IF AtEnd(t)
       THEN Returns(t)
       ELSE Goes(t, "send") /\ io' = [io EXCEPT ![t].noitm = 0]
    /\ UNCHANGED <<queue, flag, loaded>>

Send(t) ==
    /\ At(t, "send")
    /\ HasRoom
    /\ queue' = Append(queue, "data")
    /\ NextByte(t, "wlength")
    /\ UNCHANGED <<flag, loaded>>

SendTimeout(t) ==
    /\ At(t, "send")
    /\ ~ HasRoom
    /\ io[t].nonblocking
    /\ Returns(t)
    /\ UNCHANGED <<queue, flag, loaded>>

-----------------------------------------------------------------------------
(* _pipe_close, _pipe_permanent and _pipe_clear. *)

(* A permanent pipe is left alone. *)
Close(t) ==
    /\ At(t, "idle")
    /\ "close" \in Calls[t]
    /\ "permanent" \notin flag
    /\ loaded' = [loaded EXCEPT ![t] = flag]
    /\ Goes(t, "cstore")
    /\ UNCHANGED <<queue, flag, io>>

StoresFlag(t, f, to) ==
    /\ flag' = loaded[t] \union {f}
    /\ loaded' = [loaded EXCEPT ![t] = {}]
    /\ Goes(t, to)
    /\ UNCHANGED <<queue, io>>

CloseStoreMutant(t) == At(t, "cstore") /\ StoresFlag(t, "closed", "idle")
CloseStore(t)       == At(t, "cstore") /\ StoresFlag(t, "closed", "cmark")

CloseMark(t) ==
    /\ At(t, "cmark")
    /\ HasRoom
    /\ queue' = Append(queue, "nul")
    /\ Goes(t, "idle")
    /\ UNCHANGED <<flag, io, loaded>>

(* After 10 ms without room. *)
CloseTimeout(t) ==
    /\ At(t, "cmark")
    /\ ~ HasRoom
    /\ Goes(t, "idle")
    /\ UNCHANGED <<queue, flag, io, loaded>>

Permanent(t) ==
    /\ At(t, "idle")
    /\ "permanent" \in Calls[t]
    /\ loaded' = [loaded EXCEPT ![t] = flag]
    /\ Goes(t, "pstore")
    /\ UNCHANGED <<queue, flag, io>>

PermanentStore(t) == At(t, "pstore") /\ StoresFlag(t, "permanent", "idle")

Clear(t) ==
    /\ At(t, "idle")
    /\ "clear" \in Calls[t]
    /\ queue' = <<>>
    /\ UNCHANGED <<flag, pc, io, loaded>>

-----------------------------------------------------------------------------

Inside(t) ==
    \/ ReadLength(t) \/ ReadFlag(t) \/ ReadEnd(t) \/ Receive(t) \/ ReceiveTimeout(t)
    \/ WriteLength(t) \/ WriteFlag(t) \/ Send(t) \/ SendTimeout(t)
    \/ CloseStore(t) \/ CloseMark(t) \/ CloseTimeout(t) \/ PermanentStore(t)

Enters(t) == Read(t) \/ Write(t) \/ Close(t) \/ Permanent(t) \/ Clear(t)

Next == \E t \in Task : Inside(t) \/ Enters(t)

Spec == Init /\ [][Next]_vars

(* A task inside an operation is scheduled when it can go on. *)
FairSpec == Spec /\ \A t \in Task : WF_vars(Inside(t))
-----------------------------------------------------------------------------
(* Properties. *)

(* The reading end belongs to one task: only it reads, clears the pipe and *)
(* makes it permanent.  (With two readers the NUL of a close awakens one   *)
(* of them, and the other sleeps on.)                                      *)
Owns(r)   == \A t \in Task \ {r} : Calls[t] \intersect {"read", "clear", "permanent"} = {}
OneReader == \E r \in Task : Owns(r)

(* A reader that waits for ever on an empty pipe that has been closed is   *)
(* going to be awakened: the task that closed it is still about to send    *)
(* the NUL.  Whatever the reader saw when it looked at the flag and at the *)
(* length, it does not sleep through the end.                              *)
WakeupPending ==
    \A t \in Task :
        At(t, "receive") /\ WaitsForever(t) /\ queue = <<>> /\ "closed" \in flag
            => \E c \in Task : At(c, "cmark")

(* A blocking read that gives no byte means that the pipe was closed: fread *)
(* then sets the end-of-file indicator.                                    *)
ZeroMeansClosed ==
    [][\A t \in Task :
          /\ pc[t] \in {"receive", "end"} /\ pc'[t] = "idle"
          /\ io[t].n = 0 /\ ~ io[t].nonblocking
          => Len(queue') < Len(queue) \/ "closed" \in flag]_vars

(* A task blocked in _queue_receive of a closed pipe goes on. *)
ReaderAwakened ==
    \A t \in Task : (At(t, "receive") /\ "closed" \in flag) ~> ~ At(t, "receive")

(* A read that has come to the end of the pipe has read everything that    *)
(* was written before the end (stdio.h: the count is short when the end of *)
(* the file is reached).                                                   *)
EndAfterData ==
    \A t \in Task : At(t, "end") => \A i \in 1 .. Len(queue) : queue[i] # "data"
=============================================================================
