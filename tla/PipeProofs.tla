----------------------------- MODULE PipeProofs -----------------------------
(***************************************************************************)
(* Theorems about Pipe, for any number of tasks, any length of the queue   *)
(* and any sizes of reads and writes.                                      *)
(***************************************************************************)
EXTENDS Pipe, TLAPS

USE DEF At

(* Type correctness: one lemma per shape of action. *)

LEMMA TypeInit == Init => TypeOK
  BY LengthAssumption DEF Init, TypeOK, PC, Transfer, NoTransfer, Byte

LEMMA TransfersType ==
    ASSUME TypeOK, NEW t \in Task, NEW op, NEW loop \in PC, Transfers(t, op, loop)
    PROVE  TypeOK'
<1>1. PICK k \in Counts, nb \in BOOLEAN :
          io' = [io EXCEPT ![t] = [NoTransfer EXCEPT !.count = k, !.nonblocking = nb]]
  BY DEF Transfers
<1>2. [NoTransfer EXCEPT !.count = k, !.nonblocking = nb] \in Transfer
  BY CountsAssumption DEF NoTransfer, Transfer
<1>3. io' \in [Task -> Transfer]
  BY <1>1, <1>2 DEF TypeOK
<1>4. QED
  BY <1>3 DEF Transfers, TypeOK, Goes

LEMMA TransferUpdate ==
    ASSUME NEW x \in Transfer, NEW k \in Nat
    PROVE  [x EXCEPT !.n = k] \in Transfer /\ [x EXCEPT !.noitm = k] \in Transfer
  BY DEF Transfer

LEMMA AsksLengthType ==
    ASSUME TypeOK, NEW t \in Task, NEW at, NEW to \in PC, AsksLength(t, at, to)
    PROVE  TypeOK'
<1>0. io[t] \in Transfer /\ Len(queue) \in Nat
  BY DEF TypeOK
<1>1. [io[t] EXCEPT !.noitm = Len(queue)] \in Transfer
  BY <1>0, TransferUpdate
<1>2. io' \in [Task -> Transfer]
  BY <1>1 DEF AsksLength, TypeOK
<1>3. QED
  BY <1>2 DEF AsksLength, TypeOK, Goes

LEMMA ReturnsType ==
    ASSUME TypeOK, NEW t \in Task, Returns(t)
    PROVE  pc' \in [Task -> PC] /\ io' \in [Task -> Transfer]
  BY DEF TypeOK, Returns, Goes, PC, NoTransfer, Transfer

LEMMA NextByteType ==
    ASSUME TypeOK, NEW t \in Task, NEW loop \in PC, NextByte(t, loop)
    PROVE  pc' \in [Task -> PC] /\ io' \in [Task -> Transfer]
<1>1. CASE io[t].n + 1 = io[t].count
  BY <1>1, ReturnsType DEF NextByte
<1>2. CASE io[t].n + 1 # io[t].count
  <2>0. io[t] \in Transfer /\ io[t].n + 1 \in Nat
    BY DEF TypeOK, Transfer
  <2>1. [io[t] EXCEPT !.n = @ + 1] \in Transfer
    BY <2>0, TransferUpdate
  <2>2. io' = [io EXCEPT ![t] = [io[t] EXCEPT !.n = @ + 1]]
    BY <1>2 DEF NextByte
  <2>3. QED
    BY <1>2, <2>1, <2>2 DEF NextByte, TypeOK, Goes
<1>3. QED
  BY <1>1, <1>2

LEMMA AppendType ==
    ASSUME TypeOK, NEW b \in Byte, HasRoom, queue' = Append(queue, b)
    PROVE  queue' \in Seq(Byte) /\ Len(queue') <= PipeLength
  BY LengthAssumption DEF TypeOK, HasRoom

LEMMA ForgetItems ==
    ASSUME TypeOK, NEW t \in Task, io' = [io EXCEPT ![t].noitm = 0]
    PROVE  io' \in [Task -> Transfer]
<1>1. [io[t] EXCEPT !.noitm = 0] \in Transfer
  BY TransferUpdate DEF TypeOK
<1>2. QED
  BY <1>1 DEF TypeOK

LEMMA StoresFlagType ==
    ASSUME TypeOK, NEW t \in Task, NEW f \in Flag, NEW to \in PC, StoresFlag(t, f, to)
    PROVE  TypeOK'
  BY DEF TypeOK, StoresFlag, Goes, Flag

LEMMA TypeStep == TypeOK /\ [Next]_vars => TypeOK'
<1> SUFFICES ASSUME TypeOK, [Next]_vars PROVE TypeOK'
  OBVIOUS
<1>1. CASE UNCHANGED vars
  BY <1>1 DEF vars, TypeOK
<1>2. ASSUME NEW t \in Task, Inside(t) \/ Enters(t) PROVE TypeOK'
  <2>1. CASE Read(t) \/ Write(t)
    BY <2>1, TransfersType DEF Read, Write, PC
  <2>2. CASE ReadLength(t) \/ WriteLength(t)
    BY <2>2, AsksLengthType DEF ReadLength, WriteLength, PC
  <2>3. CASE ReadFlag(t)
    <3>1. io' \in [Task -> Transfer]
      BY <2>3, ForgetItems DEF ReadFlag
    <3>2. QED
      BY <2>3, <3>1 DEF ReadFlag, Goes, TypeOK, PC
  <2>4. CASE WriteFlag(t)
    <3>1. pc' \in [Task -> PC] /\ io' \in [Task -> Transfer]
      <4>1. CASE AtEnd(t)
        BY <2>4, <4>1, ReturnsType DEF WriteFlag
      <4>2. CASE ~ AtEnd(t)
        BY <2>4, <4>2, ForgetItems DEF WriteFlag, Goes, TypeOK, PC
      <4>3. QED
        BY <4>1, <4>2
    <3>2. QED
      BY <2>4, <3>1 DEF WriteFlag, TypeOK
  <2>5. CASE ReadEnd(t)
    BY <2>5, AppendType, ReturnsType DEF ReadEnd, TypeOK, Byte
  <2>6. CASE Receive(t)
    <3>1. pc' \in [Task -> PC] /\ io' \in [Task -> Transfer]
      BY <2>6, NextByteType DEF Receive, PC
    <3>2. queue' \in Seq(Byte) /\ Len(queue') <= PipeLength
      BY <2>6, LengthAssumption DEF Receive, TypeOK
    <3>3. QED
      BY <2>6, <3>1, <3>2 DEF Receive, TypeOK
  <2>7. CASE Send(t)
    <3>1. pc' \in [Task -> PC] /\ io' \in [Task -> Transfer]
      BY <2>7, NextByteType DEF Send, PC
    <3>2. queue' \in Seq(Byte) /\ Len(queue') <= PipeLength
      BY <2>7, AppendType DEF Send, Byte
    <3>3. QED
      BY <2>7, <3>1, <3>2 DEF Send, TypeOK
  <2>8. CASE ReceiveTimeout(t) \/ SendTimeout(t)
    BY <2>8, ReturnsType DEF ReceiveTimeout, SendTimeout, TypeOK
  <2>9. CASE CloseStore(t) \/ PermanentStore(t)
    BY <2>9, StoresFlagType DEF CloseStore, PermanentStore, Flag, PC
  <2>10. CASE CloseMark(t)
    BY <2>10, AppendType DEF CloseMark, TypeOK, Byte, Goes, PC
  <2>11. CASE CloseTimeout(t) \/ Close(t) \/ Permanent(t)
    BY <2>11 DEF CloseTimeout, Close, Permanent, TypeOK, Goes, PC
  <2>12. CASE Clear(t)
    BY <2>12, LengthAssumption DEF Clear, TypeOK
  <2>13. QED
    BY <1>2, <2>1, <2>2, <2>3, <2>4, <2>5, <2>6, <2>7, <2>8, <2>9, <2>10, <2>11, <2>12
       DEF Inside, Enters
<1>3. QED
  BY <1>1, <1>2 DEF Next

(* The queue never holds more than PipeLength bytes, whatever the tasks    *)
(* that send to it at the same time, and no transfer leaves its types.     *)
THEOREM PipeTypeCorrect == Spec => []TypeOK
<1>1. QED
  BY TypeInit, TypeStep, PTL DEF Spec

-----------------------------------------------------------------------------
(* The reading end has one owner.                                          *)

Others == {"idle", "wlength", "wflag", "send", "cstore", "cmark"}

(* What holds of the owner r of the reading end: nobody else is in a read; *)
(* the length it saw is still there; it believes in the end only of a      *)
(* closed pipe; and if it sleeps on an empty closed pipe, a closer is      *)
(* about to send the NUL.                                                  *)
OnlyReader(r)  == \A t \in Task \ {r} : pc[t] \in Others
LengthSeen(r)  == pc[r] = "rflag" => io[r].noitm <= Len(queue)
EndSeen(r)     == pc[r] = "end" => "closed" \in flag
Sleeps(r)      == /\ pc[r] = "receive" /\ WaitsForever(r)
                  /\ queue = <<>> /\ "closed" \in flag
SleepsSafe(r)  == Sleeps(r) => \E c \in Task : pc[c] = "cmark"
ReaderInv(r)   == OnlyReader(r) /\ LengthSeen(r) /\ EndSeen(r) /\ SleepsSafe(r)

USE DEF ReaderInv, Goes

(* A step of another task, or one of r outside a read, that only adds to   *)
(* the queue and keeps the pipe closed if it was.                          *)
LEMMA QuietStep ==
    ASSUME TypeOK, TypeOK', NEW r \in Task, ReaderInv(r),
           NEW t \in Task, NEW to, pc' = [pc EXCEPT ![t] = to],
           t = r => to \notin {"rflag", "end", "receive"},
           t # r => to \in Others /\ io'[r] = io[r],
           pc[t] = "cmark" => queue' # <<>>,
           \/ queue' = queue
           \/ Len(queue') >= Len(queue) /\ queue' # <<>>,
           \/ flag' = flag
           \/ "closed" \in flag' /\ to = "cmark"
           \/ t = r
    PROVE  ReaderInv(r)'
<1>1. OnlyReader(r)'
  BY DEF OnlyReader, TypeOK
<1>2. CASE t = r
  BY <1>1, <1>2 DEF LengthSeen, EndSeen, SleepsSafe, Sleeps, TypeOK
<1>3. CASE t # r
  <2>1. pc'[r] = pc[r] /\ pc'[t] = to
    BY <1>3 DEF TypeOK
  <2>2. Len(queue) \in Nat /\ Len(queue') \in Nat /\ io[r].noitm \in Nat
    BY DEF TypeOK, Transfer
  <2>3. Len(queue') >= Len(queue)
    BY <2>2
  <2>4. LengthSeen(r)'
    BY <1>3, <2>1, <2>2, <2>3 DEF LengthSeen
  <2>5. EndSeen(r)'
    BY <1>3, <2>1 DEF EndSeen
  <2>6. SleepsSafe(r)'
    <3>1. SUFFICES ASSUME Sleeps(r)' PROVE \E c \in Task : pc'[c] = "cmark"
      BY DEF SleepsSafe
    <3>2. CASE to = "cmark"
      BY <2>1, <3>2
    <3>3. CASE to # "cmark"
      <4>1. queue' = queue /\ flag' = flag
        BY <1>3, <3>1, <3>3 DEF Sleeps
      <4>2. Sleeps(r)
        BY <1>3, <2>1, <3>1, <4>1 DEF Sleeps, WaitsForever
      <4>3. PICK c \in Task : pc[c] = "cmark"
        BY <4>2 DEF SleepsSafe
      <4>4. c # t
        BY <3>1, <4>3 DEF Sleeps
      <4>5. QED
        BY <4>3, <4>4 DEF TypeOK
    <3>4. QED
      BY <3>2, <3>3
  <2>7. QED
    BY <1>1, <2>4, <2>5, <2>6
<1>4. QED
  BY <1>2, <1>3

LEMMA ReaderInit == ASSUME NEW r \in Task, Init PROVE ReaderInv(r)
  BY DEF Init, OnlyReader, LengthSeen, EndSeen, SleepsSafe, Sleeps, Others

LEMMA ReaderStep ==
    ASSUME TypeOK, TypeOK', NEW r \in Task, Owns(r), ReaderInv(r), [Next]_vars
    PROVE  ReaderInv(r)'
<1>1. CASE UNCHANGED vars
  BY <1>1 DEF vars, OnlyReader, LengthSeen, EndSeen, SleepsSafe, Sleeps, WaitsForever
<1>2. ASSUME NEW t \in Task, Inside(t) \/ Enters(t) PROVE ReaderInv(r)'
  <2>0. /\ pc[t] \notin Others => t = r
        /\ queue \in Seq(Byte) /\ pc \in [Task -> PC] /\ io \in [Task -> Transfer]
    BY DEF OnlyReader, TypeOK
  <2>1. CASE Read(t)
    <3>1. t = r
      BY <2>1, CallsAssumption DEF Read, Transfers, Owns
    <3>2. QED
      BY <2>1, <3>1, QuietStep DEF Read, Transfers
  <2>2. CASE Write(t) \/ WriteLength(t)
    BY <2>0, <2>2, QuietStep DEF Write, WriteLength, Transfers, AsksLength, Others
  <2>3. CASE ReadLength(t)
    <3>1. t = r /\ io'[r].noitm = Len(queue) /\ queue' = queue /\ flag' = flag
      BY <2>0, <2>3 DEF ReadLength, AsksLength, Others
    <3>2. pc' = [pc EXCEPT ![r] = "rflag"]
      BY <2>3, <3>1 DEF ReadLength, AsksLength
    <3>3. QED
      BY <2>0, <3>1, <3>2 DEF OnlyReader, LengthSeen, EndSeen, SleepsSafe, Sleeps
  <2>4. CASE ReadFlag(t)
    <3>1. /\ t = r /\ queue' = queue /\ flag' = flag
          /\ pc' = [pc EXCEPT ![r] = IF AtEnd(r) THEN "end" ELSE "receive"]
      BY <2>0, <2>4 DEF ReadFlag, Others
    <3>2. pc[r] = "rflag" /\ io[r].noitm \in Nat /\ io[r].noitm <= Len(queue)
      BY <2>0, <2>4, <3>1 DEF ReadFlag, LengthSeen, Transfer
    <3>3. ~ Sleeps(r)'
      BY <2>0, <3>1, <3>2 DEF Sleeps, AtEnd
    <3>4. QED
      BY <2>0, <3>1, <3>3 DEF OnlyReader, LengthSeen, EndSeen, SleepsSafe, AtEnd
  <2>5. CASE WriteFlag(t)
    BY <2>0, <2>5, QuietStep DEF WriteFlag, Returns, Others
  <2>6. CASE ReadEnd(t) \/ ReceiveTimeout(t)
    <3>1. t = r
      BY <2>0, <2>6 DEF ReadEnd, ReceiveTimeout, Others
    <3>2. pc' = [pc EXCEPT ![r] = "idle"]
      BY <2>6, <3>1 DEF ReadEnd, ReceiveTimeout, Returns
    <3>3. QED
      BY <2>0, <3>2 DEF OnlyReader, LengthSeen, EndSeen, SleepsSafe, Sleeps
  <2>7. CASE Receive(t)
    <3>1. t = r
      BY <2>0, <2>7 DEF Receive, Others
    <3>2. \E to \in {"idle", "rlength"} : pc' = [pc EXCEPT ![r] = to]
      BY <2>7, <3>1 DEF Receive, NextByte, Returns
    <3>3. QED
      BY <2>0, <3>2 DEF OnlyReader, LengthSeen, EndSeen, SleepsSafe, Sleeps
  <2>8. CASE Send(t)
    <3>1. \E to \in {"idle", "wlength"} : pc' = [pc EXCEPT ![t] = to]
      BY <2>8 DEF Send, NextByte, Returns
    <3>2. t # r => io'[r] = io[r]
      BY <2>0, <2>8 DEF Send, NextByte, Returns
    <3>3. Len(queue') >= Len(queue) /\ queue' # <<>> /\ flag' = flag /\ pc[t] # "cmark"
      BY <2>0, <2>8 DEF Send, Byte
    <3>4. QED
      BY <3>1, <3>2, <3>3, QuietStep DEF Others
  <2>9. CASE SendTimeout(t)
    BY <2>0, <2>9, QuietStep DEF SendTimeout, Returns, Others
  <2>10. CASE CloseStore(t)
    BY <2>0, <2>10, QuietStep DEF CloseStore, StoresFlag, Others
  <2>11. CASE CloseMark(t)
    <3>1. Len(queue') >= Len(queue) /\ queue' # <<>>
      BY <2>0, <2>11 DEF CloseMark, Byte
    <3>2. QED
      BY <2>11, <3>1, QuietStep DEF CloseMark, Others
  <2>12. CASE CloseTimeout(t)
    <3>1. queue # <<>>
      BY <2>0, <2>12, LengthAssumption DEF CloseTimeout, HasRoom
    <3>2. QED
      BY <2>12, <3>1, QuietStep DEF CloseTimeout, Others
  <2>13. CASE PermanentStore(t)
    <3>1. t = r
      BY <2>0, <2>13 DEF PermanentStore, Others
    <3>2. QED
      BY <2>13, <3>1, QuietStep DEF PermanentStore, StoresFlag
  <2>14. CASE Close(t)
    BY <2>14, QuietStep DEF Close, Others
  <2>15. CASE Permanent(t) \/ Clear(t)
    <3>1. t = r /\ pc[r] = "idle"
      BY <2>15, CallsAssumption DEF Permanent, Clear, Owns
    <3>2. pc' = [pc EXCEPT ![r] = "pstore"] \/ pc' = pc
      BY <2>15, <3>1 DEF Permanent, Clear
    <3>3. QED
      BY <2>0, <3>1, <3>2 DEF OnlyReader, LengthSeen, EndSeen, SleepsSafe, Sleeps
  <2>16. QED
    BY <1>2, <2>1, <2>2, <2>3, <2>4, <2>5, <2>6, <2>7, <2>8, <2>9, <2>10, <2>11, <2>12,
       <2>13, <2>14, <2>15 DEF Inside, Enters
<1>3. QED
  BY <1>1, <1>2 DEF Next

LEMMA ReaderInvariance ==
    ASSUME NEW r \in Task, Owns(r)
    PROVE  Spec => [](TypeOK /\ ReaderInv(r))
<1>1. Init => TypeOK /\ ReaderInv(r)
  BY TypeInit, ReaderInit
<1>2. TypeOK /\ ReaderInv(r) /\ [Next]_vars => (TypeOK /\ ReaderInv(r))'
  BY TypeStep, ReaderStep
<1>3. QED
  BY <1>1, <1>2, PTL DEF Spec

(* The owner of the reading end never sleeps through the end of the pipe:  *)
(* whenever it waits without limit on an empty closed pipe, the task that  *)
(* closed it is still going to send the NUL.                               *)
THEOREM WakeupPendingHolds == ASSUME OneReader PROVE Spec => []WakeupPending
<1>1. PICK r \in Task : Owns(r)
  BY DEF OneReader
<1>2. ReaderInv(r) => WakeupPending
  BY DEF WakeupPending, OnlyReader, SleepsSafe, Sleeps, Others
<1>3. Spec => [](TypeOK /\ ReaderInv(r))
  BY <1>1, ReaderInvariance
<1>4. QED
  BY <1>2, <1>3, PTL

(* A blocking read returns no byte only when the pipe has been closed.     *)
THEOREM ZeroMeansClosedHolds == ASSUME OneReader PROVE Spec => ZeroMeansClosed
<1>1. PICK r \in Task : Owns(r)
  BY DEF OneReader
<1> DEFINE Ends(t) == /\ pc[t] \in {"receive", "end"} /\ pc'[t] = "idle"
                      /\ io[t].n = 0 /\ ~ io[t].nonblocking
<1>2. ASSUME TypeOK, ReaderInv(r), [Next]_vars, NEW t \in Task, Ends(t)
      PROVE  Len(queue') < Len(queue) \/ "closed" \in flag
  <2>1. t = r
    BY <1>2 DEF OnlyReader, Others
  <2>2. CASE pc[t] = "end"
    BY <2>1, <2>2, <1>2 DEF EndSeen
  <2>3. CASE pc[t] = "receive"
    <3>1. PICK u \in Task : Inside(u) \/ Enters(u)
      BY <1>2, <2>3 DEF Next, vars
    <3>2. u = t
      BY <1>2, <2>3, <3>1 DEF TypeOK, Inside, Enters, Read, Write, ReadLength,
         WriteLength, Transfers, AsksLength, ReadFlag, ReadEnd, Receive, ReceiveTimeout,
         WriteFlag, Send, SendTimeout, Close, CloseStore, CloseMark, CloseTimeout,
         Permanent, PermanentStore, Clear, StoresFlag, NextByte, Returns
    <3>3. Receive(t) \/ ReceiveTimeout(t)
      BY <2>3, <3>1, <3>2 DEF Inside, Enters, Read, Write, ReadLength,
         WriteLength, Transfers, AsksLength, ReadFlag, ReadEnd,
         WriteFlag, Send, SendTimeout, Close, CloseStore, CloseMark, CloseTimeout,
         Permanent, PermanentStore, Clear
    <3>4. Receive(t)
      BY <1>2, <3>3 DEF ReceiveTimeout, WaitsForever
    <3>5. QED
      BY <1>2, <3>4 DEF Receive, TypeOK
  <2>4. QED
    BY <1>2, <2>2, <2>3
<1>3. TypeOK /\ ReaderInv(r) /\ [Next]_vars =>
        [\A t \in Task : Ends(t) => Len(queue') < Len(queue) \/ "closed" \in flag]_vars
  BY <1>2
<1>4. Spec => [](TypeOK /\ ReaderInv(r))
  BY <1>1, ReaderInvariance
<1>5. QED
  BY <1>3, <1>4, PTL DEF Spec, ZeroMeansClosed
=============================================================================
