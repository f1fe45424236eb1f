-------------------------------- MODULE Sipc --------------------------------
(***************************************************************************)
(* A SIPC connection (net/sipc/sipc.c, sipcbuf.c): two ends with one       *)
(* socket each, on one port, joined by a serial line.  At each end run the *)
(* input thread of the stack, a task that connects, binds, sends and       *)
(* disconnects, and a task that receives.                                  *)
(*                                                                         *)
(* The protocol is stop and wait: a send hands one chunk (at most MTU      *)
(* bytes) to the line and waits for the answer in ansq, a queue of one     *)
(* entry.  Nothing in an answer says which packet it answers.              *)
(*                                                                         *)
(* The line keeps the order of the packets, and may damage or swallow      *)
(* them.  A damaged packet is one whose checksum is wrong: what has a      *)
(* broken preamble or length is skipped by receive_packet, that is, lost.  *)
(* The interface stays up and memory does not run out.                     *)
(*                                                                         *)
(* The list of sockets compares ports (list_cmp_functor).  With one socket *)
(* in it that finds the socket itself, whatever its port is by then.       *)
(***************************************************************************)
EXTENDS Naturals, Sequences, FiniteSetsExt

CONSTANTS
    Does,           \* what the program of each end does with its socket
    Capacity,       \* soft_max_capacity of each end's buffer, in bytes
    MTU,            \* bytes a packet takes at most
    Size,           \* the bytes of each chunk an end sends
    MaxChunks,      \* bound: chunks each end sends
    MaxOpens,       \* bound: times an end binds or connects
    MaxFaults       \* bound: damaged and lost packets, timeouts, refused calls

End == {"host", "client"}
Peer(e) == IF e = "host" THEN "client" ELSE "host"

Operation == {"connect", "bind", "send", "recv", "freebuf", "disconnect"}

ASSUME DoesAssumption     == Does \in [End -> SUBSET Operation]
ASSUME CapacityAssumption == Capacity \in [End -> Nat \ {0}]
ASSUME SizeAssumption     == /\ MTU \in Nat \ {0}
                             /\ \A e \in End : Size[e] \in [1 .. MaxChunks[e] -> 1 .. MTU]
ASSUME BoundsAssumption   == MaxChunks \in [End -> Nat] /\ MaxOpens \in Nat /\ MaxFaults \in Nat

Type   == {"DATA", "HANDSHAKE", "ACK", "NACK", "BUSY", "REPEAT", "BIND"}
Ports  == {0, 1}        \* none, and the port of the connection
Packet == [type: Type, port: Ports, chunk: Nat, damaged: BOOLEAN]
None   == "none"        \* an empty ansq

PacketOf(type, to) == [type |-> type, port |-> to, chunk |-> 0, damaged |-> FALSE]

VARIABLES
    line,       \* packets on the way to an end
    registered, \* the socket is in socket_list
    port,       \* socket->port
    prog,       \* where the task that connects, binds and sends is
    input,      \* where the input thread is
    incoming,   \* the chunk it has found the socket for
    answerTo,   \* the port it has to answer that chunk on
    reader,     \* where the task that receives is
    ansq,       \* socket->ansq
    busy,       \* socket->busy
    rxbuf,      \* the chunks in socket->rxbuf
    seek,       \* bytes of the first of them that have been read
    total,      \* socket->rxbuf->total_size
    sent,       \* chunks whose send has been acknowledged
    got,        \* the last chunk of the other end that was read to its end
    intact,     \* nothing has gone wrong with the data of this end
    opens,
    faults

bufferVars == <<rxbuf, seek, total>>
socketVars == <<registered, port, ansq, busy, bufferVars>>
programVars == <<prog, reader>>
inputVars == <<input, incoming, answerTo>>
historyVars == <<sent, got, intact>>
vars == <<line, socketVars, programVars, inputVars, historyVars, opens, faults>>

ProgAt   == {"idle", "bind", "connect", "connecting", "again", "await", "closing"}
InputAt  == {"receive", "found", "stored", "full"}
ReaderAt == {"idle", "read", "room"}

TypeOK ==
    /\ line       \in [End -> Seq(Packet)]
    /\ registered \in [End -> BOOLEAN]
    /\ port       \in [End -> Ports]
    /\ prog       \in [End -> ProgAt]
    /\ input      \in [End -> InputAt]
    /\ incoming   \in [End -> Nat]
    /\ answerTo   \in [End -> Ports]
    /\ reader     \in [End -> ReaderAt]
    /\ ansq       \in [End -> (Type \ {"DATA", "BUSY"}) \union {None}]
    /\ busy       \in [End -> BOOLEAN]
    /\ rxbuf      \in [End -> Seq(Nat \ {0})]
    /\ seek       \in [End -> 0 .. MTU - 1]
    /\ total      \in [End -> Nat]
    /\ sent       \in [End -> Nat] /\ \A e \in End : sent[e] <= MaxChunks[e]
    /\ got        \in [End -> Nat] /\ \A e \in End : got[e] <= MaxChunks[Peer(e)]
    /\ intact     \in [End -> BOOLEAN]
    /\ opens      \in [End -> 0 .. MaxOpens]
    /\ faults     \in 0 .. MaxFaults

Init ==
    /\ line       = [e \in End |-> <<>>]
    /\ registered = [e \in End |-> FALSE]
    /\ port       = [e \in End |-> 0]
    /\ prog       = [e \in End |-> "idle"]
    /\ input      = [e \in End |-> "receive"]
    /\ incoming   = [e \in End |-> 0]
    /\ answerTo   = [e \in End |-> 0]
    /\ reader     = [e \in End |-> "idle"]
    /\ ansq       = [e \in End |-> None]
    /\ busy       = [e \in End |-> FALSE]
    /\ rxbuf      = [e \in End |-> <<>>]
    /\ seek       = [e \in End |-> 0]
    /\ total      = [e \in End |-> 0]
    /\ sent       = [e \in End |-> 0]
    /\ got        = [e \in End |-> 0]
    /\ intact     = [e \in End |-> TRUE]
    /\ opens      = [e \in End |-> 0]
    /\ faults     = 0

-----------------------------------------------------------------------------

(* send_packet: the two writes to the interface are under packet_send_mtx. *)
Sends(e, p) == line' = [line EXCEPT ![Peer(e)] = Append(@, p)]

(* sys_queue_send with no timeout: what does not fit is dropped. *)
Answered(e, type) ==
    ansq' = [ansq EXCEPT ![e] = IF @ = None THEN type ELSE @]

(* The bytes of the first k chunks in the buffer. *)
BytesOf(e, k) == MapThenSumSet(LAMBDA i : Size[Peer(e)][rxbuf[e][i]], 1 .. k)

FullMutant(e) == total[e] > Capacity[e]
Full(e)       == total[e] >= Capacity[e]

(* sipcbuf__clear. *)
Clears(e) ==
    /\ rxbuf' = [rxbuf EXCEPT ![e] = <<>>]
    /\ seek' = [seek EXCEPT ![e] = 0]
    /\ total' = [total EXCEPT ![e] = 0]

(* socket->waiting_for_data_ack. *)
WaitingForDataAck(e) == prog[e] \in {"again", "await"}

Goes(e, at) == prog' = [prog EXCEPT ![e] = at]

Broken(ends) == intact' = [e \in End |-> intact[e] /\ e \notin ends]

Fault == faults < MaxFaults /\ faults' = faults + 1

-----------------------------------------------------------------------------
(* SIPC_socket_connect and SIPC_socket_bind. *)

(* The port is set and the socket put in the list.  The bound is opens.    *)
Registers(e, operation) ==
    /\ prog[e] = "idle"
    /\ operation \in Does[e]
    /\ ~ registered[e]
    /\ opens[e] < MaxOpens
    /\ opens' = [opens EXCEPT ![e] = @ + 1]
    /\ port' = [port EXCEPT ![e] = 1]
    /\ registered' = [registered EXCEPT ![e] = TRUE]
    /\ Goes(e, operation)
    /\ UNCHANGED <<line, ansq, busy, bufferVars, inputVars, reader, historyVars, faults>>

Connect(e) == Registers(e, "connect")
Bind(e)    == Registers(e, "bind")

(* EADDRINUSE: the socket is in the list already, and stays there, with no *)
(* port in the end: the connection finds it no longer.                     *)
RegistersAgain(e) ==
    /\ prog[e] = "idle"
    /\ {"connect", "bind"} \intersect Does[e] # {}
    /\ registered[e]
    /\ Fault
    /\ port' = [port EXCEPT ![e] = 1]
    /\ Goes(e, "closing")
    /\ UNCHANGED <<line, registered, ansq, busy, bufferVars, inputVars, reader, historyVars,
                   opens>>

(* The last step of a failed call and of a disconnection. *)
ClosePort(e) ==
    /\ prog[e] = "closing"
    /\ port' = [port EXCEPT ![e] = 0]
    /\ Goes(e, "idle")
    /\ UNCHANGED <<line, registered, ansq, busy, bufferVars, inputVars, reader, historyVars>>
    /\ UNCHANGED <<opens, faults>>

(* Nothing between the reset of ansq and the packet shows to others.       *)
SendBind(e) ==
    /\ prog[e] = "bind"
    /\ ansq' = [ansq EXCEPT ![e] = None]
    /\ Sends(e, PacketOf("BIND", port[e]))
    /\ Goes(e, "idle")
    /\ UNCHANGED <<registered, port, busy, bufferVars, inputVars, reader, historyVars, opens,
                   faults>>

SendHandshake(e) ==
    /\ prog[e] = "connect"
    /\ ansq' = [ansq EXCEPT ![e] = None]
    /\ Sends(e, PacketOf("HANDSHAKE", port[e]))
    /\ Goes(e, "connecting")
    /\ UNCHANGED <<registered, port, busy, bufferVars, inputVars, reader, historyVars, opens,
                   faults>>

Connected(e) ==
    /\ prog[e] = "connecting"
    /\ ansq[e] = "ACK"
    /\ ansq' = [ansq EXCEPT ![e] = None]
    /\ Goes(e, "idle")
    /\ UNCHANGED <<line, registered, port, busy, bufferVars, inputVars, reader, historyVars,
                   opens, faults>>

(* The answer may be a stray one, with the right one still to come. *)
ConnectFails(e) ==
    /\ prog[e] = "connecting"
    /\ ansq[e] \notin {None, "ACK"}
    /\ ansq' = [ansq EXCEPT ![e] = None]
    /\ registered' = [registered EXCEPT ![e] = FALSE]
    /\ Goes(e, "closing")
    /\ Broken({e})
    /\ UNCHANGED <<line, port, busy, bufferVars, inputVars, reader, sent, got, opens, faults>>

(* CONNECTION_TIMEOUT. *)
ConnectTimeout(e) ==
    /\ prog[e] = "connecting"
    /\ ansq[e] = None
    /\ Fault
    /\ registered' = [registered EXCEPT ![e] = FALSE]
    /\ Goes(e, "closing")
    /\ Broken({e})
    /\ UNCHANGED <<line, port, ansq, busy, bufferVars, inputVars, reader, sent, got, opens>>

(* unregister_socket, sipcbuf__clear, sys_queue_reset; busy stays. *)
Disconnect(e) ==
    /\ prog[e] = "idle"
    /\ "disconnect" \in Does[e]
    /\ registered[e]
    /\ registered' = [registered EXCEPT ![e] = FALSE]
    /\ Clears(e)
    /\ ansq' = [ansq EXCEPT ![e] = None]
    /\ Goes(e, "closing")
    /\ Broken(End)
    /\ UNCHANGED <<line, port, busy, inputVars, reader, sent, got, opens, faults>>

-----------------------------------------------------------------------------
(* SIPC_socket_send. *)

SendsChunk(e) ==
    /\ Sends(e, [PacketOf("DATA", port[e]) EXCEPT !.chunk = sent[e] + 1])
    /\ Goes(e, "await")
    /\ UNCHANGED <<registered, port, busy, bufferVars, inputVars, reader, historyVars, opens,
                   faults>>

(* ansq is emptied once, before the first chunk. *)
Send(e) ==
    /\ prog[e] = "idle"
    /\ "send" \in Does[e]
    /\ registered[e]
    /\ sent[e] < MaxChunks[e]
    /\ ansq' = [ansq EXCEPT ![e] = None]
    /\ SendsChunk(e)

(* The next chunk of the same call, or the same one again. *)
SendAgain(e) ==
    /\ prog[e] = "again"
    /\ SendsChunk(e)
    /\ UNCHANGED ansq

(* There is more to send or there is not; a chunk that more follows is as  *)
(* large as it can be.                                                     *)
More(e) == sent[e] + 1 < MaxChunks[e] /\ Size[e][sent[e] + 1] = MTU

(* An ACK is for the chunk sent last, whatever it was sent for. *)
AcknowledgedMutant(e) ==
    /\ prog[e] = "await"
    /\ ansq[e] \in {"ACK", "REPEAT"}
    /\ ansq' = [ansq EXCEPT ![e] = None]
    /\ sent' = [sent EXCEPT ![e] = @ + 1]
    /\ \/ Goes(e, "idle")
       \/ More(e) /\ Goes(e, "again")
    /\ UNCHANGED <<line, registered, port, busy, bufferVars, inputVars, reader, got, intact,
                   opens, faults>>
Acknowledged(e) ==
    /\ prog[e] = "await"
    /\ ansq[e] = "ACK"
    /\ ansq' = [ansq EXCEPT ![e] = None]
    /\ sent' = [sent EXCEPT ![e] = @ + 1]
    /\ \/ Goes(e, "idle")
       \/ More(e) /\ Goes(e, "again")
    /\ UNCHANGED <<line, registered, port, busy, bufferVars, inputVars, reader, got, intact,
                   opens, faults>>

AskedAgain(e) ==
    /\ prog[e] = "await"
    /\ ansq[e] = "REPEAT"
    /\ ansq' = [ansq EXCEPT ![e] = None]
    /\ Goes(e, "again")
    /\ UNCHANGED <<line, registered, port, busy, bufferVars, inputVars, reader, historyVars,
                   opens, faults>>

(* NACK is ECONNREFUSED; BIND and HANDSHAKE are ECONNRESET. *)
SendFails(e) ==
    /\ prog[e] = "await"
    /\ ansq[e] \in {"NACK", "BIND", "HANDSHAKE"}
    /\ ansq' = [ansq EXCEPT ![e] = None]
    /\ Goes(e, "idle")
    /\ Broken({e})
    /\ UNCHANGED <<line, registered, port, busy, bufferVars, inputVars, reader, sent, got, opens,
                   faults>>

(* socket->send_timeout. *)
SendTimeout(e) ==
    /\ prog[e] = "await"
    /\ ansq[e] = None
    /\ Fault
    /\ Goes(e, "idle")
    /\ Broken({e})
    /\ UNCHANGED <<line, socketVars, inputVars, reader, sent, got, opens>>

-----------------------------------------------------------------------------
(* SIPC_socket_recv, with a buffer of any size.  A call that finds no data *)
(* looks again every 5 ms: it has not begun, or it times out.  Only a call *)
(* that begins asks whether the socket is registered; one that has begun   *)
(* goes on after a disconnection.                                          *)

Receiving(e) == reader[e] = "idle" /\ opens[e] > 0

(* sipcbuf__read takes n bytes, all there are or as many as the caller has *)
(* room for: the rest of the first chunk, more whole ones, and s bytes of  *)
(* the one after those k.                                                  *)
ReadBytes(e) ==
    /\ Receiving(e)
    /\ "recv" \in Does[e]
    /\ \E n \in 1 .. total[e], k \in 0 .. Len(rxbuf[e]), s \in 0 .. MTU - 1 :
          /\ seek[e] + n = BytesOf(e, k) + s
          /\ s > 0 => k < Len(rxbuf[e]) /\ s < Size[Peer(e)][rxbuf[e][k + 1]]
          /\ got' = IF k = 0 THEN got ELSE [got EXCEPT ![e] = rxbuf[e][k]]
          /\ rxbuf' = [rxbuf EXCEPT ![e] = SubSeq(@, k + 1, Len(@))]
          /\ seek' = [seek EXCEPT ![e] = s]
          /\ total' = [total EXCEPT ![e] = @ - n]
    /\ reader' = [reader EXCEPT ![e] = "read"]
    /\ UNCHANGED <<line, registered, port, ansq, busy, prog, inputVars, sent, intact, opens,
                   faults>>

(* NET_FLAGS__FREEBUF has the call throw away what it leaves. *)
RecvEnds(e) ==
    /\ reader' = [reader EXCEPT ![e] = "idle"]
    /\ \/ UNCHANGED <<bufferVars, intact>>
       \/ /\ "freebuf" \in Does[e]
          /\ Clears(e)
          /\ Broken({Peer(e)})

(* With FREEBUF, a chunk that has come since the last look is lost too. *)
RecvTimeout(e) ==
    /\ Receiving(e)
    /\ {"recv", "freebuf"} \subseteq Does[e]
    /\ RecvEnds(e)
    /\ UNCHANGED <<line, registered, port, ansq, busy, prog, inputVars, sent, got, opens, faults>>

CheckRoomMutant(e) ==
    /\ reader[e] = "read"
    /\ IF ~ Full(e)
       THEN reader' = [reader EXCEPT ![e] = "room"] /\ UNCHANGED <<bufferVars, intact>>
       ELSE RecvEnds(e)
    /\ UNCHANGED <<line, registered, port, ansq, busy, prog, inputVars, sent, got, opens, faults>>
CheckRoom(e) ==
    /\ reader[e] = "read"
    /\ IF busy[e] /\ ~ Full(e)
       THEN reader' = [reader EXCEPT ![e] = "room"] /\ UNCHANGED <<bufferVars, intact>>
       ELSE RecvEnds(e)
    /\ UNCHANGED <<line, registered, port, ansq, busy, prog, inputVars, sent, got, opens, faults>>

ResumeSender(e) ==
    /\ reader[e] = "room"
    /\ busy' = [busy EXCEPT ![e] = FALSE]
    /\ Sends(e, PacketOf("ACK", port[e]))
    /\ RecvEnds(e)
    /\ UNCHANGED <<registered, port, ansq, prog, inputVars, sent, got, opens, faults>>

-----------------------------------------------------------------------------
(* input_thread. *)

(* receive_packet; replies go out before the next packet is looked at. *)
Takes(e)         == line' = [line EXCEPT ![e] = Tail(@)]
Replies(e, type) ==
    line' = [line EXCEPT ![e] = Tail(@),
                         ![Peer(e)] = Append(@, PacketOf(type, Head(line[e]).port))]

(* get_socket_by_port, for the packet at hand. *)
Found(e) == registered[e] /\ port[e] = Head(line[e]).port

Unread == UNCHANGED <<registered, port, busy, bufferVars, programVars, historyVars, opens, faults>>

(* A damaged packet is answered by REPEAT and one for a port without a     *)
(* socket by NACK, whatever the packet is.                                 *)
ReceiveDamagedMutant(e) ==
    /\ input[e] = "receive"
    /\ line[e] # <<>> /\ Head(line[e]).damaged
    /\ Replies(e, "ACK")
    /\ UNCHANGED <<ansq, inputVars>> /\ Unread
ReceiveDamaged(e) ==
    /\ input[e] = "receive"
    /\ line[e] # <<>> /\ Head(line[e]).damaged
    /\ Replies(e, "REPEAT")
    /\ UNCHANGED <<ansq, inputVars>> /\ Unread

ReceiveUnregisteredMutant(e) ==
    /\ input[e] = "receive"
    /\ line[e] # <<>> /\ ~ Head(line[e]).damaged
    /\ ~ Found(e)
    /\ Takes(e)
    /\ UNCHANGED <<ansq, inputVars>> /\ Unread
ReceiveUnregistered(e) ==
    /\ input[e] = "receive"
    /\ line[e] # <<>> /\ ~ Head(line[e]).damaged
    /\ ~ Found(e)
    /\ Replies(e, "NACK")
    /\ UNCHANGED <<ansq, inputVars>> /\ Unread

Receives(e, types) ==
    /\ input[e] = "receive"
    /\ line[e] # <<>> /\ ~ Head(line[e]).damaged
    /\ Found(e)
    /\ Head(line[e]).type \in types

ReceiveAnswer(e) ==
    /\ Receives(e, {"ACK", "NACK", "REPEAT"})
    /\ Answered(e, Head(line[e]).type)
    /\ Takes(e)
    /\ UNCHANGED inputVars /\ Unread

ReceiveBusyMutant(e) ==
    /\ Receives(e, {"BUSY"})
    /\ Takes(e)
    /\ Answered(e, "BUSY")
    /\ UNCHANGED inputVars /\ Unread
ReceiveBusy(e) ==
    /\ Receives(e, {"BUSY"})
    /\ Takes(e)
    /\ UNCHANGED <<ansq, inputVars>> /\ Unread

ReceiveBind(e) ==
    /\ Receives(e, {"BIND"})
    /\ IF WaitingForDataAck(e) THEN Answered(e, "BIND") ELSE UNCHANGED ansq
    /\ Takes(e)
    /\ UNCHANGED inputVars /\ Unread

ReceiveHandshake(e) ==
    /\ Receives(e, {"HANDSHAKE"})
    /\ IF WaitingForDataAck(e) THEN Answered(e, "HANDSHAKE") ELSE UNCHANGED ansq
    /\ Replies(e, "ACK")
    /\ UNCHANGED inputVars /\ Unread

(* Between the look-up of the socket and the write, and between the steps  *)
(* that follow, the socket's owner goes on.                                *)
ReceiveData(e) ==
    /\ Receives(e, {"DATA"})
    /\ input' = [input EXCEPT ![e] = "found"]
    /\ incoming' = [incoming EXCEPT ![e] = Head(line[e]).chunk]
    /\ answerTo' = [answerTo EXCEPT ![e] = Head(line[e]).port]
    /\ Takes(e)
    /\ UNCHANGED ansq /\ Unread

(* sipcbuf__write refuses nothing: the capacity is a soft one. *)
StoreData(e) ==
    /\ input[e] = "found"
    /\ rxbuf' = [rxbuf EXCEPT ![e] = Append(@, incoming[e])]
    /\ total' = [total EXCEPT ![e] = @ + Size[Peer(e)][incoming[e]]]
    /\ incoming' = [incoming EXCEPT ![e] = 0]
    /\ input' = [input EXCEPT ![e] = "stored"]
    /\ UNCHANGED <<line, registered, port, ansq, busy, seek, answerTo, programVars, historyVars>>
    /\ UNCHANGED <<opens, faults>>

AnswerAck(e) ==
    /\ input[e] = "stored" /\ ~ Full(e)
    /\ Sends(e, PacketOf("ACK", answerTo[e]))
    /\ answerTo' = [answerTo EXCEPT ![e] = 0]
    /\ input' = [input EXCEPT ![e] = "receive"]
    /\ UNCHANGED <<socketVars, incoming, programVars, historyVars, opens, faults>>

FindFull(e) ==
    /\ input[e] = "stored" /\ Full(e)
    /\ input' = [input EXCEPT ![e] = "full"]
    /\ UNCHANGED <<line, socketVars, incoming, answerTo, programVars, historyVars, opens, faults>>

AnswerBusy(e) ==
    /\ input[e] = "full"
    /\ busy' = [busy EXCEPT ![e] = TRUE]
    /\ Sends(e, PacketOf("BUSY", answerTo[e]))
    /\ answerTo' = [answerTo EXCEPT ![e] = 0]
    /\ input' = [input EXCEPT ![e] = "receive"]
    /\ UNCHANGED <<registered, port, ansq, bufferVars, incoming, programVars, historyVars, opens,
                   faults>>

-----------------------------------------------------------------------------
(* The line to an end.  A sender whose packet is damaged is asked to       *)
(* repeat; unless it was data, it repeats data that was received.          *)

Damage(e) ==
    /\ Fault
    /\ \E i \in 1 .. Len(line[e]) :
          /\ ~ line[e][i].damaged
          /\ line' = [line EXCEPT ![e][i].damaged = TRUE]
          /\ Broken(IF line[e][i].type = "DATA" THEN {} ELSE {Peer(e)})
    /\ UNCHANGED <<socketVars, programVars, inputVars, sent, got, opens>>

Lose(e) ==
    /\ Fault
    /\ line[e] # <<>>
    /\ line' = [line EXCEPT ![e] = Tail(@)]
    /\ UNCHANGED <<socketVars, programVars, inputVars, historyVars, opens>>

-----------------------------------------------------------------------------

Program(e) ==
    \/ SendBind(e) \/ SendHandshake(e) \/ Connected(e) \/ ConnectFails(e) \/ ClosePort(e)
    \/ SendAgain(e) \/ Acknowledged(e) \/ AskedAgain(e) \/ SendFails(e)
Reader(e) == CheckRoom(e) \/ ResumeSender(e)
InputThread(e) ==
    \/ ReceiveDamaged(e) \/ ReceiveUnregistered(e) \/ ReceiveAnswer(e) \/ ReceiveBusy(e)
    \/ ReceiveBind(e) \/ ReceiveHandshake(e) \/ ReceiveData(e)
    \/ StoreData(e) \/ AnswerAck(e) \/ FindFull(e) \/ AnswerBusy(e)
Chooses(e) ==
    \/ Connect(e) \/ Bind(e) \/ RegistersAgain(e) \/ Send(e) \/ Disconnect(e)
    \/ ReadBytes(e) \/ RecvTimeout(e) \/ ConnectTimeout(e) \/ SendTimeout(e)
Line(e) == Damage(e) \/ Lose(e)

Next == \E e \in End : Program(e) \/ Reader(e) \/ InputThread(e) \/ Chooses(e) \/ Line(e)

Spec == Init /\ [][Next]_vars

(* Tasks that can go on are scheduled; nobody has to time out. *)
FairSpec ==
    Spec /\ \A e \in End : WF_vars(Program(e)) /\ WF_vars(InputThread(e))
-----------------------------------------------------------------------------
(* Properties. *)

(* Each direction is a stream that loses, repeats and reorders nothing as  *)
(* long as nothing has gone wrong, and never reorders.                     *)
FromHost   == INSTANCE Stream WITH sent <- sent["host"], buf <- rxbuf["client"],
                                   got <- got["client"], intact <- intact["host"]
FromClient == INSTANCE Stream WITH sent <- sent["client"], buf <- rxbuf["host"],
                                   got <- got["host"], intact <- intact["client"]

HostStream   == FromHost!Spec
ClientStream == FromClient!Spec

(* What stands between the sender e and its answer: its packet on the line *)
(* or with the input thread of the other end, the answer on the line or in *)
(* ansq, or the other end's promise (busy) to answer when it has room.     *)
Asking    == {"DATA", "HANDSHAKE"}
Answering == {"ACK", "REPEAT"}

OnLine(e, types) == {i \in 1 .. Len(line[e]) : line[e][i].type \in types}

Outstanding(e) ==
    LET p == Peer(e)
    IN  {<<"asked", i>> : i \in OnLine(p, Asking)}
          \union {x \in {<<"input", 0>>} : input[p] # "receive"}
          \union {x \in {<<"busy", 0>>} : busy[p]}
          \union {<<"answered", i>> : i \in OnLine(e, Answering)}
          \union {x \in {<<"ansq", 0>>} : ansq[e] \in Answering}

(* An answer carries nothing that says what it answers, so there must      *)
(* never be a second one about: an ACK left over from an earlier packet    *)
(* would be taken for the next chunk's.  And nothing is about when the     *)
(* sender waits for nothing.                                               *)
StopAndWait ==
    \A e \in End : intact[e] =>
        /\ \A x, y \in Outstanding(e) : x = y
        /\ Outstanding(e) # {} => prog[e] \in {"connecting", "await"}

(* sipcbuf__write refuses nothing: only the sender, who waits while the    *)
(* receiver is busy, bounds the buffer.  A sender is told to go on when    *)
(* there is a byte left, and then sends a whole packet, so that the buffer *)
(* "can exceeds up to MTU" (sipcbuf.c:85): by less than one packet.        *)
WithinCapacity ==
    \A e \in End : intact[e] => total[Peer(e)] < Capacity[Peer(e)] + MTU

(* With a line that damages and loses nothing, and no connect refused, a   *)
(* sender, who has no time limit by default, gets an answer, or the other  *)
(* end owes it one for when it has room.                                   *)
SenderAnswered ==
    \A e \in End :
        prog[e] = "await" ~> prog[e] # "await" \/ busy[Peer(e)] \/ faults > 0

(* An end that has answered BUSY sends the ACK when it has room (the head  *)
(* of sipc.c: "(wait) BUSY (buffer exceeds capacity), (ok) ACK (buffer     *)
(* ready for data receive)"): it does not stay busy with an empty buffer   *)
(* and nobody at work who would send it.                                   *)
BusyEnds ==
    \A e \in End :
        busy[e] /\ input[e] = "receive" /\ reader[e] = "idle" => rxbuf[e] # <<>>
=============================================================================
