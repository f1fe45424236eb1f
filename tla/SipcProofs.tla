----------------------------- MODULE SipcProofs -----------------------------
(***************************************************************************)
(* Theorems about Sipc, for any programs, capacities and bounds.  Each     *)
(* direction of the connection is treated by itself: e is the end that     *)
(* sends, Peer(e) the one that receives.                                   *)
(*                                                                         *)
(* The argument is about the one thing that stands between a sender and    *)
(* its answer (Outstanding): its packet, the peer's input thread, the      *)
(* peer's promise, or the answer.  The invariant says of each of them that *)
(* it is alone, and what it means for the chunk that was sent last.  A     *)
(* step moves it on or takes it away.                                      *)
(***************************************************************************)
EXTENDS Sipc, TLAPS, SequenceTheorems

(* The variables of a buffer change together or not at all. *)
USE DEF bufferVars

-----------------------------------------------------------------------------
(* Ends, and what a step does to a line. *)

LEMMA Ends ==
    ASSUME NEW e \in End
    PROVE  /\ Peer(e) \in End /\ Peer(e) # e /\ Peer(Peer(e)) = e
           /\ \A a \in End : a = e \/ a = Peer(e)
BY DEF End, Peer

LEMMA PacketOfType ==
    ASSUME NEW type \in Type, NEW to \in Ports
    PROVE  /\ PacketOf(type, to) \in Packet /\ PacketOf(type, to).type = type
           /\ ~ PacketOf(type, to).damaged
BY DEF PacketOf, Packet

LEMMA ChunkPacket ==
    ASSUME NEW c \in Nat, NEW to \in Ports
    PROVE  LET q == [PacketOf("DATA", to) EXCEPT !.chunk = c]
           IN  q \in Packet /\ q.type = "DATA" /\ q.chunk = c /\ ~ q.damaged
BY DEF PacketOf, Packet, Type

LEMMA LineOf ==
    ASSUME TypeOK, NEW e \in End
    PROVE  /\ line[e] \in Seq(Packet) /\ Len(line[e]) \in Nat
           /\ \A i \in 1 .. Len(line[e]) : line[e][i] \in Packet
           /\ line[e] # <<>> => 1 \in 1 .. Len(line[e]) /\ Head(line[e]) = line[e][1]
<1>1. line[e] \in Seq(Packet)
  BY DEF TypeOK
<1>2. Len(line[e]) \in Nat /\ \A i \in 1 .. Len(line[e]) : line[e][i] \in Packet
  BY <1>1, LenProperties
<1>3. line[e] # <<>> => 1 \in 1 .. Len(line[e])
  BY <1>1, EmptySeq
<1>4. QED
  BY <1>1, <1>2, <1>3

LEMMA SendsLine ==
    ASSUME TypeOK, NEW a \in End, NEW q \in Packet, Sends(a, q)
    PROVE  LET p == Peer(a)
           IN  /\ line' \in [End -> Seq(Packet)]
               /\ line'[a] = line[a]
               /\ Len(line'[p]) = Len(line[p]) + 1
               /\ \A i \in 1 .. Len(line[p]) : line'[p][i] = line[p][i]
               /\ line'[p][Len(line[p]) + 1] = q
<1> DEFINE p == Peer(a)
<1>1. p \in End /\ p # a
  BY Ends
<1>2. line \in [End -> Seq(Packet)] /\ line' = [line EXCEPT ![p] = Append(line[p], q)]
  BY DEF TypeOK, Sends
<1> HIDE DEF p
<1>3. line[p] \in Seq(Packet)
  BY <1>1, <1>2
<1>4. /\ Append(line[p], q) \in Seq(Packet)
      /\ Len(Append(line[p], q)) = Len(line[p]) + 1
      /\ \A i \in 1 .. Len(line[p]) : Append(line[p], q)[i] = line[p][i]
      /\ Append(line[p], q)[Len(line[p]) + 1] = q
  BY <1>3, AppendProperties
<1>5. line'[p] = Append(line[p], q) /\ line'[a] = line[a] /\ line' \in [End -> Seq(Packet)]
  BY <1>1, <1>2, <1>4
<1>6. QED
  BY <1>4, <1>5 DEF p

LEMMA TakesLine ==
    ASSUME TypeOK, NEW a \in End, line[a] # <<>>, Takes(a)
    PROVE  /\ line' \in [End -> Seq(Packet)]
           /\ line'[Peer(a)] = line[Peer(a)]
           /\ Len(line'[a]) = Len(line[a]) - 1
           /\ \A i \in 1 .. Len(line'[a]) : line'[a][i] = line[a][i + 1]
<1>1. line \in [End -> Seq(Packet)] /\ line' = [line EXCEPT ![a] = Tail(line[a])]
  BY DEF TypeOK, Takes
<1>2. line[a] \in Seq(Packet)
  BY <1>1
<1>3. /\ Tail(line[a]) \in Seq(Packet)
      /\ Len(Tail(line[a])) = Len(line[a]) - 1
      /\ \A i \in 1 .. Len(Tail(line[a])) : Tail(line[a])[i] = line[a][i + 1]
  BY <1>2, HeadTailProperties
<1>4. line'[a] = Tail(line[a]) /\ line' \in [End -> Seq(Packet)] /\ line'[Peer(a)] = line[Peer(a)]
  BY <1>1, <1>3, Ends
<1>5. QED
  BY <1>3, <1>4

LEMMA RepliesLine ==
    ASSUME TypeOK, NEW a \in End, line[a] # <<>>, NEW type \in Type, Replies(a, type)
    PROVE  LET p == Peer(a)
           IN  /\ line' \in [End -> Seq(Packet)]
               /\ Len(line'[a]) = Len(line[a]) - 1
               /\ \A i \in 1 .. Len(line'[a]) : line'[a][i] = line[a][i + 1]
               /\ Len(line'[p]) = Len(line[p]) + 1
               /\ \A i \in 1 .. Len(line[p]) : line'[p][i] = line[p][i]
               /\ line'[p][Len(line[p]) + 1].type = type
               /\ ~ line'[p][Len(line[p]) + 1].damaged
<1> DEFINE p == Peer(a)
           q == PacketOf(type, Head(line[a]).port)
<1>1. p \in End /\ p # a /\ q \in Packet /\ q.type = type /\ ~ q.damaged
  <2>1. Head(line[a]).port \in Ports
    BY LineOf DEF Packet
  <2>2. QED
    BY <2>1, Ends, PacketOfType
<1>2. /\ line \in [End -> Seq(Packet)]
      /\ line' = [line EXCEPT ![a] = Tail(line[a]), ![p] = Append(line[p], q)]
  BY <1>1 DEF TypeOK, Replies
<1> HIDE DEF p, q
<1>3. line[p] \in Seq(Packet) /\ line[a] \in Seq(Packet)
  BY <1>1, <1>2
<1>4. /\ Append(line[p], q) \in Seq(Packet)
      /\ Len(Append(line[p], q)) = Len(line[p]) + 1
      /\ \A i \in 1 .. Len(line[p]) : Append(line[p], q)[i] = line[p][i]
      /\ Append(line[p], q)[Len(line[p]) + 1] = q
  BY <1>1, <1>3, AppendProperties
<1>5. /\ Tail(line[a]) \in Seq(Packet)
      /\ Len(Tail(line[a])) = Len(line[a]) - 1
      /\ \A i \in 1 .. Len(Tail(line[a])) : Tail(line[a])[i] = line[a][i + 1]
  BY <1>3, HeadTailProperties
<1>6. line'[p] = Append(line[p], q) /\ line'[a] = Tail(line[a]) /\ line' \in [End -> Seq(Packet)]
  BY <1>1, <1>2, <1>4, <1>5
<1>7. QED
  BY <1>1, <1>4, <1>5, <1>6 DEF p

(* The list y has no packets of the types T, and no damaged ones, but      *)
(* those of x; it may have lost the first of them. *)
Kept(x, y, T) ==
    \E n \in {0, 1} : \A i \in 1 .. Len(y) :
        y[i].type \in T \/ y[i].damaged => i + n \in 1 .. Len(x) /\ y[i] = x[i + n]

LEMMA SameKept ==
    ASSUME NEW T, NEW x \in Seq(Packet) PROVE Kept(x, x, T)
<1>1. \A i \in 1 .. Len(x) : i + 0 \in 1 .. Len(x) /\ x[i] = x[i + 0]
  BY LenProperties
<1>2. QED
  BY <1>1 DEF Kept

LEMMA SendsKept ==
    ASSUME TypeOK, NEW a \in End, NEW q \in Packet, Sends(a, q), NEW T,
           NEW b \in End, b = a \/ (q.type \notin T /\ ~ q.damaged)
    PROVE  Kept(line[b], line'[b], T)
<1>1. CASE b = a
  BY <1>1, LineOf, SameKept, SendsLine
<1>2. CASE b = Peer(a) /\ q.type \notin T /\ ~ q.damaged
  <2>1. /\ Len(line[b]) \in Nat /\ Len(line'[b]) = Len(line[b]) + 1
        /\ \A i \in 1 .. Len(line[b]) : line'[b][i] = line[b][i]
        /\ line'[b][Len(line[b]) + 1] = q
    <3> DEFINE p == Peer(a)
    <3>1. /\ Len(line[p]) \in Nat /\ Len(line'[p]) = Len(line[p]) + 1
          /\ \A i \in 1 .. Len(line[p]) : line'[p][i] = line[p][i]
          /\ line'[p][Len(line[p]) + 1] = q
      BY LineOf, SendsLine, Ends
    <3>2. p = b
      BY <1>2
    <3> HIDE DEF p
    <3>3. QED
      BY <3>1, <3>2
  <2>2. \A i \in 1 .. Len(line'[b]) :
           line'[b][i].type \in T \/ line'[b][i].damaged =>
              i + 0 \in 1 .. Len(line[b]) /\ line'[b][i] = line[b][i + 0]
    BY <1>2, <2>1
  <2>3. QED
    BY <2>2 DEF Kept
<1>3. QED
  BY <1>1, <1>2, Ends

LEMMA TakesKept ==
    ASSUME TypeOK, NEW a \in End, line[a] # <<>>, Takes(a), NEW T, NEW b \in End
    PROVE  Kept(line[b], line'[b], T)
<1>1. CASE b = Peer(a)
  BY <1>1, LineOf, SameKept, TakesLine
<1>2. CASE b = a
  <2>1. /\ Len(line[b]) \in Nat /\ Len(line'[b]) = Len(line[b]) - 1
        /\ \A i \in 1 .. Len(line'[b]) : line'[b][i] = line[b][i + 1]
    BY <1>2, LineOf, TakesLine
  <2>2. \A i \in 1 .. Len(line'[b]) : i + 1 \in 1 .. Len(line[b]) /\ line'[b][i] = line[b][i + 1]
    BY <2>1
  <2>3. QED
    BY <2>2 DEF Kept
<1>3. QED
  BY <1>1, <1>2, Ends

LEMMA RepliesKept ==
    ASSUME TypeOK, NEW a \in End, line[a] # <<>>, NEW type \in Type, Replies(a, type),
           NEW T, NEW b \in End, b = a \/ type \notin T
    PROVE  Kept(line[b], line'[b], T)
<1>1. CASE b = a
  <2>1. /\ Len(line[b]) \in Nat /\ Len(line'[b]) = Len(line[b]) - 1
        /\ \A i \in 1 .. Len(line'[b]) : line'[b][i] = line[b][i + 1]
    BY <1>1, LineOf, RepliesLine
  <2>2. \A i \in 1 .. Len(line'[b]) : i + 1 \in 1 .. Len(line[b]) /\ line'[b][i] = line[b][i + 1]
    BY <2>1
  <2>3. QED
    BY <2>2 DEF Kept
<1>2. CASE b = Peer(a) /\ type \notin T
  <2>1. /\ Len(line[b]) \in Nat /\ Len(line'[b]) = Len(line[b]) + 1
        /\ \A i \in 1 .. Len(line[b]) : line'[b][i] = line[b][i]
        /\ line'[b][Len(line[b]) + 1].type \notin T
        /\ ~ line'[b][Len(line[b]) + 1].damaged
    BY <1>2, LineOf, RepliesLine
  <2>2. \A i \in 1 .. Len(line'[b]) :
           line'[b][i].type \in T \/ line'[b][i].damaged =>
              i + 0 \in 1 .. Len(line[b]) /\ line'[b][i] = line[b][i + 0]
    BY <2>1
  <2>3. QED
    BY <2>2 DEF Kept
<1>3. QED
  BY <1>1, <1>2, Ends

-----------------------------------------------------------------------------
(* The order of the chunks, which nothing disturbs. *)

(* A chunk that e has sent, when it has been told of s. *)
Fits(e, s, c) == c \in 1 .. MaxChunks[e] /\ c <= s + 1

Buffered(e) == {rxbuf[Peer(e)][i] : i \in 1 .. Len(rxbuf[Peer(e)])}
Held(e)     == {got[Peer(e)]} \union Buffered(e)

(* What the receiver holds was sent before what its input thread has       *)
(* found, and that before what is on the line. *)
Ordered(e) ==
    LET p == Peer(e)
    IN  /\ \A x \in Held(e) : x = 0 \/ Fits(e, sent[e], x)
        /\ input[p] = "found" =>
              /\ Fits(e, sent[e], incoming[p])
              /\ \A x \in Held(e) : x <= incoming[p]
        /\ \A i \in 1 .. Len(line[p]) : line[p][i].type = "DATA" =>
              /\ Fits(e, sent[e], line[p][i].chunk)
              /\ \A x \in Held(e) : x <= line[p][i].chunk
              /\ input[p] = "found" => incoming[p] <= line[p][i].chunk
              /\ \A j \in 1 .. i :
                    line[p][j].type = "DATA" => line[p][j].chunk <= line[p][i].chunk

(* A chunk is sent only when there is one, and only a busy end has found   *)
(* room for its sender. *)
Sending ==
    \A e \in End :
        /\ prog[e] \in {"again", "await"} => sent[e] < MaxChunks[e]
        /\ reader[e] = "room" => busy[e]

OrderInv == TypeOK /\ Sending /\ \A e \in End : Ordered(e)

LEMMA OrderInit == Init => OrderInv
<1> SUFFICES ASSUME Init PROVE OrderInv
  OBVIOUS
<1>1. TypeOK
  <2>1. <<>> \in Seq(Packet) /\ <<>> \in Seq(Nat \ {0})
    OBVIOUS
  <2>2. \A e \in End : MaxChunks[e] \in Nat /\ MaxChunks[Peer(e)] \in Nat
    BY Ends, BoundsAssumption
  <2>3. MaxOpens \in Nat /\ MaxFaults \in Nat
    BY BoundsAssumption
  <2>4. /\ line \in [End -> Seq(Packet)] /\ rxbuf \in [End -> Seq(Nat \ {0})]
        /\ sent \in [End -> Nat] /\ got \in [End -> Nat]
        /\ \A e \in End : sent[e] <= MaxChunks[e] /\ got[e] <= MaxChunks[Peer(e)]
    BY <2>1, <2>2 DEF Init
  <2>5. /\ opens \in [End -> 0 .. MaxOpens] /\ faults \in 0 .. MaxFaults
    BY <2>3 DEF Init
  <2>6. seek \in [End -> 0 .. MTU - 1]
    BY SizeAssumption DEF Init
  <2>7. QED
    BY <2>4, <2>5, <2>6 DEF Init, TypeOK, ProgAt, InputAt, ReaderAt, Ports, None
<1>2. Sending
  BY DEF Init, Sending
<1>3. ASSUME NEW e \in End PROVE Ordered(e)
  <2>1. /\ Peer(e) \in End /\ Len(rxbuf[Peer(e)]) = 0 /\ Len(line[Peer(e)]) = 0
        /\ got[Peer(e)] = 0 /\ input[Peer(e)] = "receive"
    BY Ends DEF Init
  <2>2. Held(e) = {0}
    BY <2>1 DEF Held, Buffered
  <2>3. QED
    BY <2>1, <2>2 DEF Ordered
<1>4. QED
  BY <1>1, <1>2, <1>3 DEF OrderInv

LEMMA HeldOf ==
    ASSUME TypeOK, NEW e \in End
    PROVE  /\ rxbuf[Peer(e)] \in Seq(Nat \ {0}) /\ Len(rxbuf[Peer(e)]) \in Nat
           /\ got[Peer(e)] \in Nat /\ \A x \in Held(e) : x \in Nat
           /\ \A x \in Buffered(e) : x # 0
<1>1. Peer(e) \in End
  BY Ends
<1>2. rxbuf[Peer(e)] \in Seq(Nat \ {0}) /\ got[Peer(e)] \in Nat
  BY <1>1 DEF TypeOK
<1>3. /\ Len(rxbuf[Peer(e)]) \in Nat
      /\ \A i \in 1 .. Len(rxbuf[Peer(e)]) : rxbuf[Peer(e)][i] \in Nat \ {0}
  BY <1>2, LenProperties
<1>4. QED
  BY <1>2, <1>3 DEF Held, Buffered

(* What a read leaves of the chunks: all but the first k, of which the     *)
(* last is the one it has come to.                                         *)
LEMMA ReadLeaves ==
    ASSUME TypeOK, NEW a \in End, ReadBytes(a)
    PROVE  /\ \E k \in 0 .. Len(rxbuf[a]) :
                 /\ rxbuf' = [rxbuf EXCEPT ![a] = SubSeq(rxbuf[a], k + 1, Len(rxbuf[a]))]
                 /\ rxbuf'[a] \in Seq(Nat \ {0}) /\ Len(rxbuf'[a]) = Len(rxbuf[a]) - k
                 /\ \A i \in 1 .. Len(rxbuf'[a]) : rxbuf'[a][i] = rxbuf[a][i + k]
                 /\ got' = IF k = 0 THEN got ELSE [got EXCEPT ![a] = rxbuf[a][k]]
           /\ seek' \in [End -> 0 .. MTU - 1]
           /\ total' \in [End -> Nat] /\ total'[a] <= total[a]
           /\ \A b \in End : b # a => total'[b] = total[b]
<1>1. /\ rxbuf \in [End -> Seq(Nat \ {0})] /\ seek \in [End -> 0 .. MTU - 1]
      /\ total \in [End -> Nat]
  BY DEF TypeOK
<1>2. PICK n \in 1 .. total[a], k \in 0 .. Len(rxbuf[a]), s \in 0 .. MTU - 1 :
         /\ rxbuf' = [rxbuf EXCEPT ![a] = SubSeq(rxbuf[a], k + 1, Len(rxbuf[a]))]
         /\ seek' = [seek EXCEPT ![a] = s]
         /\ total' = [total EXCEPT ![a] = total[a] - n]
         /\ got' = IF k = 0 THEN got ELSE [got EXCEPT ![a] = rxbuf[a][k]]
  BY DEF ReadBytes
<1> DEFINE b == rxbuf[a]
           t == SubSeq(b, k + 1, Len(b))
<1>3. Len(b) \in Nat /\ k \in Nat /\ \A i \in 1 .. Len(b) : b[i] \in Nat \ {0}
  BY <1>1, LenProperties
<1> HIDE DEF b
<1>4. k + 1 \in Int /\ Len(b) \in Int /\ \A i \in k + 1 .. Len(b) : b[i] \in Nat \ {0}
  BY <1>3
<1>5. /\ t \in Seq(Nat \ {0})
      /\ Len(t) = IF k + 1 <= Len(b) THEN Len(b) - (k + 1) + 1 ELSE 0
      /\ \A i \in 1 .. Len(b) - (k + 1) + 1 : t[i] = b[(k + 1) + i - 1]
  BY <1>4, SubSeqProperties
<1> HIDE DEF t
<1>6. k <= Len(b)
  BY <1>2 DEF b
<1>7. Len(t) = Len(b) - k /\ \A i \in 1 .. Len(t) : t[i] = b[i + k]
  <2>1. Len(t) = Len(b) - k /\ Len(b) - (k + 1) + 1 = Len(t)
    BY <1>3, <1>5, <1>6
  <2>2. \A i \in 1 .. Len(t) : t[i] = b[(k + 1) + i - 1] /\ (k + 1) + i - 1 = i + k
    BY <1>3, <1>5, <2>1
  <2>3. QED
    BY <2>1, <2>2
<1>8. rxbuf' = [rxbuf EXCEPT ![a] = t] /\ rxbuf'[a] = t
  BY <1>1, <1>2 DEF t, b
<1>9. /\ seek' \in [End -> 0 .. MTU - 1]
      /\ total' \in [End -> Nat] /\ total'[a] <= total[a]
      /\ \A c \in End : c # a => total'[c] = total[c]
  BY <1>1, <1>2
<1>10. QED
  BY <1>2, <1>5, <1>7, <1>8, <1>9 DEF b, t

(* Nothing is added to what is held, found or on the line. *)
LEMMA OrderKept ==
    ASSUME TypeOK, TypeOK', NEW e \in End, Ordered(e),
           Kept(line[Peer(e)], line'[Peer(e)], {"DATA"}),
           Held(e)' \subseteq Held(e),
           input'[Peer(e)] = "found" =>
              input[Peer(e)] = "found" /\ incoming'[Peer(e)] = incoming[Peer(e)],
           sent[e] <= sent'[e]
    PROVE  Ordered(e)'
<1> DEFINE p == Peer(e)
<1>1. p \in End /\ Peer(e)' = p
  BY Ends DEF Peer
<1>2. sent[e] \in Nat /\ sent'[e] \in Nat /\ MaxChunks[e] \in Nat
  BY BoundsAssumption DEF TypeOK
<1>3. \A c : Fits(e, sent[e], c) => Fits(e, sent'[e], c)
  BY <1>2 DEF Fits
<1>4. PICK n \in {0, 1} : \A i \in 1 .. Len(line'[p]) :
         line'[p][i].type = "DATA" => i + n \in 1 .. Len(line[p]) /\ line'[p][i] = line[p][i + n]
  BY DEF Kept
<1>5. Len(line[p]) \in Nat /\ Len(line'[p]) \in Nat
  <2>1. line[p] \in Seq(Packet)
    BY <1>1 DEF TypeOK
  <2>2. line'[p] \in Seq(Packet)
    BY <1>1 DEF TypeOK
  <2>3. QED
    BY <2>1, <2>2, LenProperties
<1> HIDE DEF p
<1>6. \A x \in Held(e)' : x = 0 \/ Fits(e, sent'[e], x)
  BY <1>3 DEF Ordered
<1>7. ASSUME input'[p] = "found"
      PROVE  Fits(e, sent'[e], incoming'[p]) /\ \A x \in Held(e)' : x <= incoming'[p]
  <2>1. input[p] = "found" /\ incoming'[p] = incoming[p]
    BY <1>7 DEF p
  <2>2. Fits(e, sent[e], incoming[p]) /\ \A x \in Held(e) : x <= incoming[p]
    BY <2>1 DEF Ordered, p
  <2>3. QED
    BY <1>3, <2>1, <2>2
<1>8. ASSUME NEW i \in 1 .. Len(line'[p]), line'[p][i].type = "DATA"
      PROVE  /\ Fits(e, sent'[e], line'[p][i].chunk)
             /\ \A x \in Held(e)' : x <= line'[p][i].chunk
             /\ input'[p] = "found" => incoming'[p] <= line'[p][i].chunk
             /\ \A j \in 1 .. i :
                   line'[p][j].type = "DATA" => line'[p][j].chunk <= line'[p][i].chunk
  <2>1. i + n \in 1 .. Len(line[p]) /\ line'[p][i] = line[p][i + n]
    BY <1>4, <1>8
  <2>2. /\ Fits(e, sent[e], line[p][i + n].chunk)
        /\ \A x \in Held(e) : x <= line[p][i + n].chunk
        /\ input[p] = "found" => incoming[p] <= line[p][i + n].chunk
        /\ \A j \in 1 .. i + n :
              line[p][j].type = "DATA" => line[p][j].chunk <= line[p][i + n].chunk
    BY <1>8, <2>1 DEF Ordered, p
  <2>3. ASSUME NEW j \in 1 .. i, line'[p][j].type = "DATA"
        PROVE  line'[p][j].chunk <= line'[p][i].chunk
    <3>1. j \in 1 .. Len(line'[p]) /\ j + n \in 1 .. i + n
      BY <1>5
    <3>2. line'[p][j] = line[p][j + n]
      BY <1>4, <2>3, <3>1
    <3>3. QED
      BY <2>1, <2>2, <2>3, <3>1, <3>2
  <2>4. input'[p] = "found" => input[p] = "found" /\ incoming'[p] = incoming[p]
    BY DEF p
  <2>5. QED
    BY <1>3, <2>1, <2>2, <2>3, <2>4
<1>9. QED
  BY <1>1, <1>6, <1>7, <1>8 DEF Ordered, p

-----------------------------------------------------------------------------
(* Every step keeps the types, and what is in order. *)

LEMMA ClearsType ==
    ASSUME TypeOK, NEW a \in End, Clears(a)
    PROVE  /\ rxbuf' \in [End -> Seq(Nat \ {0})] /\ rxbuf'[a] = <<>>
           /\ seek' \in [End -> 0 .. MTU - 1]
           /\ total' \in [End -> Nat]
BY SizeAssumption DEF TypeOK, Clears

LEMMA TypeProgram ==
    ASSUME OrderInv, NEW a \in End,
           \/ Connect(a) \/ Bind(a) \/ SendBind(a) \/ SendHandshake(a) \/ Connected(a)
           \/ RegistersAgain(a) \/ ClosePort(a)
           \/ ConnectFails(a) \/ ConnectTimeout(a) \/ Disconnect(a)
           \/ Send(a) \/ SendAgain(a) \/ Acknowledged(a) \/ AskedAgain(a)
           \/ SendFails(a) \/ SendTimeout(a)
    PROVE  TypeOK' /\ Sending'
<1> USE DEF ProgAt, None, Ports
<1>0. /\ TypeOK /\ Sending /\ MaxOpens \in Nat /\ MaxFaults \in Nat /\ port[a] \in Ports
      /\ \A e \in End : MaxChunks[e] \in Nat
  BY BoundsAssumption DEF OrderInv, TypeOK
<1>1. ASSUME NEW operation \in {"connect", "bind"}, Registers(a, operation)
      PROVE  TypeOK' /\ Sending'
  BY <1>0, <1>1, SMTT(30) DEF TypeOK, Sending, Registers, Goes, inputVars, historyVars
<1>2. CASE SendBind(a) \/ SendHandshake(a)
  <2>1. PICK type \in {"BIND", "HANDSHAKE"} : Sends(a, PacketOf(type, port[a]))
    BY <1>2 DEF SendBind, SendHandshake
  <2>2. line' \in [End -> Seq(Packet)]
    BY <1>0, <2>1, PacketOfType, SendsLine DEF Type
  <2>3. QED
    BY <1>0, <1>2, <2>2
    DEF TypeOK, Sending, SendBind, SendHandshake, Goes, inputVars, historyVars
<1>3. CASE Connected(a)
  BY <1>0, <1>3 DEF TypeOK, Sending, Connected, Goes, inputVars, historyVars
<1>4. CASE ConnectFails(a)
  BY <1>0, <1>4 DEF TypeOK, Sending, ConnectFails, Goes, Broken, inputVars
<1>5. CASE ConnectTimeout(a)
  BY <1>0, <1>5 DEF TypeOK, Sending, ConnectTimeout, Goes, Broken, Fault, inputVars
<1>6. CASE Disconnect(a)
  <2>1. /\ rxbuf' \in [End -> Seq(Nat \ {0})] /\ seek' \in [End -> 0 .. MTU - 1]
        /\ total' \in [End -> Nat]
    BY <1>0, <1>6, ClearsType DEF Disconnect
  <2>2. QED
    BY <1>0, <1>6, <2>1 DEF TypeOK, Sending, Disconnect, Goes, Broken, inputVars
<1>7. CASE Send(a) \/ SendAgain(a)
  <2>1. sent[a] < MaxChunks[a] /\ SendsChunk(a)
    BY <1>0, <1>7 DEF Send, SendAgain, Sending
  <2>2. [PacketOf("DATA", port[a]) EXCEPT !.chunk = sent[a] + 1] \in Packet
    <3>1. sent[a] + 1 \in Nat
      <4>1. sent \in [End -> Nat]
        BY <1>0 DEF TypeOK
      <4>2. sent[a] \in Nat
        BY <4>1
      <4>3. QED
        BY <4>2
    <3>2. QED
      BY <1>0, <3>1, ChunkPacket
  <2>3. line' \in [End -> Seq(Packet)]
    BY <1>0, <2>1, <2>2, SendsLine DEF SendsChunk
  <2>4. ansq' \in [End -> (Type \ {"DATA", "BUSY"}) \union {None}]
    BY <1>0, <1>7 DEF TypeOK, Send, SendAgain
  <2>5. QED
    BY <1>0, <2>1, <2>3, <2>4
    DEF TypeOK, Sending, SendsChunk, Goes, inputVars, historyVars
<1>8. CASE Acknowledged(a)
  <2>1. sent[a] < MaxChunks[a]
    BY <1>0, <1>8 DEF Acknowledged, Sending
  <2>2. sent' \in [End -> Nat] /\ \A e \in End : sent'[e] <= MaxChunks[e]
    BY <1>0, <1>8, <2>1, SMTT(30) DEF TypeOK, Acknowledged
  <2>3. QED
    <3>1. PICK at \in {"idle", "again"} :
             /\ prog' = [prog EXCEPT ![a] = at]
             /\ at = "again" => sent[a] + 1 < MaxChunks[a]
      BY <1>8 DEF Acknowledged, Goes, More
    <3>2. /\ prog' \in [End -> ProgAt] /\ prog'[a] = at
          /\ \A e \in End : e # a => prog'[e] = prog[e]
      BY <1>0, <3>1 DEF TypeOK
    <3>3. sent'[a] = sent[a] + 1 /\ \A e \in End : e # a => sent'[e] = sent[e]
      BY <1>0, <1>8 DEF TypeOK, Acknowledged
    <3>4. Sending'
      BY <1>0, <1>8, <3>1, <3>2, <3>3 DEF Sending, Acknowledged
    <3>5. QED
      BY <1>0, <1>8, <2>2, <3>2, <3>4 DEF TypeOK, Acknowledged, inputVars
<1>9. CASE AskedAgain(a)
  BY <1>0, <1>9 DEF TypeOK, Sending, AskedAgain, Goes, inputVars, historyVars
<1>10. CASE SendFails(a)
  BY <1>0, <1>10 DEF TypeOK, Sending, SendFails, Goes, Broken, inputVars
<1>11. CASE SendTimeout(a)
  BY <1>0, <1>11 DEF TypeOK, Sending, SendTimeout, Goes, Broken, Fault, inputVars, socketVars
<1>12. CASE RegistersAgain(a)
  BY <1>0, <1>12, SMTT(30) DEF TypeOK, Sending, RegistersAgain, Goes, Fault, inputVars, historyVars
<1>13. CASE ClosePort(a)
  BY <1>0, <1>13 DEF TypeOK, Sending, ClosePort, Goes, inputVars, historyVars
<1>14. QED
  BY <1>1, <1>2, <1>3, <1>4, <1>5, <1>6, <1>7, <1>8, <1>9, <1>10, <1>11, <1>12, <1>13
  DEF Connect, Bind

LEMMA TypeReader ==
    ASSUME OrderInv, NEW a \in End,
           ReadBytes(a) \/ RecvTimeout(a) \/ CheckRoom(a) \/ ResumeSender(a)
    PROVE  TypeOK' /\ Sending'
<1> USE DEF ReaderAt
<1>0. TypeOK /\ Sending /\ port[a] \in Ports
  BY DEF OrderInv, TypeOK
<1>1. ASSUME RecvEnds(a)
      PROVE  /\ rxbuf' \in [End -> Seq(Nat \ {0})] /\ reader' \in [End -> ReaderAt]
             /\ seek' \in [End -> 0 .. MTU - 1] /\ total' \in [End -> Nat]
             /\ intact' \in [End -> BOOLEAN]
             /\ reader' = [reader EXCEPT ![a] = "idle"]
  <2>1. reader' \in [End -> ReaderAt] /\ reader' = [reader EXCEPT ![a] = "idle"]
    BY <1>0, <1>1 DEF TypeOK, RecvEnds
  <2>2. CASE UNCHANGED <<bufferVars, intact>>
    BY <1>0, <2>1, <2>2 DEF TypeOK
  <2>3. CASE Clears(a) /\ Broken({Peer(a)})
    <3>1. intact' \in [End -> BOOLEAN]
      BY <1>0, <2>3 DEF TypeOK, Broken
    <3>2. QED
      BY <1>0, <2>1, <2>3, <3>1, ClearsType
  <2>4. QED
    BY <1>1, <2>2, <2>3 DEF RecvEnds
<1>2. CASE ReadBytes(a)
  <2>1. Peer(a) \in End /\ Peer(Peer(a)) = a
    BY Ends
  <2>2. PICK k \in 0 .. Len(rxbuf[a]) :
           /\ rxbuf' = [rxbuf EXCEPT ![a] = SubSeq(rxbuf[a], k + 1, Len(rxbuf[a]))]
           /\ rxbuf'[a] \in Seq(Nat \ {0})
           /\ got' = IF k = 0 THEN got ELSE [got EXCEPT ![a] = rxbuf[a][k]]
    BY <1>0, <1>2, ReadLeaves
  <2>3. got' \in [End -> Nat] /\ \A e \in End : got'[e] <= MaxChunks[Peer(e)]
    <3>1. got \in [End -> Nat] /\ \A e \in End : got[e] <= MaxChunks[Peer(e)]
      BY <1>0 DEF TypeOK
    <3>2. CASE k = 0
      BY <2>2, <3>1, <3>2
    <3>3. CASE k # 0
      <4>1. k \in 1 .. Len(rxbuf[a])
        BY <3>3
      <4>2. rxbuf[a][k] \in Held(Peer(a)) /\ rxbuf[a][k] # 0
        BY <1>0, <2>1, <4>1, HeldOf DEF Held, Buffered
      <4>3. rxbuf[a][k] \in 1 .. MaxChunks[Peer(a)]
        BY <2>1, <4>2 DEF OrderInv, Ordered, Fits
      <4>4. rxbuf[a][k] \in Nat /\ rxbuf[a][k] <= MaxChunks[Peer(a)]
        BY <2>1, <4>3, BoundsAssumption
      <4>5. got' = [got EXCEPT ![a] = rxbuf[a][k]]
        BY <2>2, <3>3
      <4>6. QED
        BY <3>1, <4>4, <4>5
    <3>4. QED
      BY <3>2, <3>3
  <2>4. rxbuf' \in [End -> Seq(Nat \ {0})]
    <3>1. rxbuf \in [End -> Seq(Nat \ {0})]
      BY <1>0 DEF TypeOK
    <3>2. QED
      BY <2>2, <3>1
  <2>5. seek' \in [End -> 0 .. MTU - 1] /\ total' \in [End -> Nat]
    BY <1>0, <1>2, ReadLeaves
  <2>6. QED
    BY <1>0, <1>2, <2>3, <2>4, <2>5 DEF TypeOK, Sending, ReadBytes, inputVars
<1>3. CASE RecvTimeout(a)
  BY <1>0, <1>1, <1>3 DEF TypeOK, Sending, RecvTimeout, inputVars
<1>4. CASE CheckRoom(a)
  <2>1. CASE busy[a] /\ ~ Full(a)
    <3>1. reader' = [reader EXCEPT ![a] = "room"] /\ reader' \in [End -> ReaderAt]
      BY <1>0, <1>4, <2>1 DEF TypeOK, CheckRoom
    <3>2. QED
      BY <1>0, <1>4, <2>1, <3>1 DEF TypeOK, Sending, CheckRoom, inputVars
  <2>2. CASE ~ (busy[a] /\ ~ Full(a))
    BY <1>0, <1>1, <1>4, <2>2 DEF TypeOK, Sending, CheckRoom, inputVars
  <2>3. QED
    BY <2>1, <2>2
<1>5. CASE ResumeSender(a)
  <2>1. line' \in [End -> Seq(Packet)]
    BY <1>0, <1>5, PacketOfType, SendsLine DEF ResumeSender, Type
  <2>2. QED
    BY <1>0, <1>1, <1>5, <2>1 DEF TypeOK, Sending, ResumeSender, inputVars
<1>6. QED
  BY <1>2, <1>3, <1>4, <1>5

LEMMA TypeInput ==
    ASSUME OrderInv, NEW a \in End, InputThread(a)
    PROVE  TypeOK' /\ Sending'
<1> USE DEF InputAt, Type, None
<1>0. TypeOK /\ Sending /\ answerTo[a] \in Ports
  BY DEF OrderInv, TypeOK
<1>1. ASSUME line[a] # <<>>, Takes(a) \/ \E type \in Type : Replies(a, type)
      PROVE  line' \in [End -> Seq(Packet)]
  BY <1>0, <1>1, TakesLine, RepliesLine
<1>2. ASSUME UNCHANGED ansq \/ \E type \in Type \ {"DATA", "BUSY"} : Answered(a, type)
      PROVE  ansq' \in [End -> (Type \ {"DATA", "BUSY"}) \union {None}]
  BY <1>0, <1>2 DEF TypeOK, Answered
<1>3. ASSUME line[a] # <<>>
      PROVE  Head(line[a]).chunk \in Nat /\ Head(line[a]).port \in Ports
  BY <1>0, <1>3, LineOf DEF Packet
<1>4. ASSUME Unread, UNCHANGED inputVars, line' \in [End -> Seq(Packet)],
             ansq' \in [End -> (Type \ {"DATA", "BUSY"}) \union {None}]
      PROVE  TypeOK' /\ Sending'
  BY <1>0, <1>4 DEF TypeOK, Sending, Unread, inputVars, programVars, historyVars
<1>5. CASE ReceiveDamaged(a)
  <2>1. /\ line[a] # <<>> /\ \E type \in Type : Replies(a, type)
        /\ UNCHANGED ansq /\ UNCHANGED inputVars /\ Unread
    BY <1>5 DEF ReceiveDamaged
  <2>2. QED
    BY <1>1, <1>2, <1>4, <2>1
<1>6. CASE ReceiveUnregistered(a)
  <2>1. /\ line[a] # <<>> /\ \E type \in Type : Replies(a, type)
        /\ UNCHANGED ansq /\ UNCHANGED inputVars /\ Unread
    BY <1>6 DEF ReceiveUnregistered
  <2>2. QED
    BY <1>1, <1>2, <1>4, <2>1
<1>7. CASE ReceiveAnswer(a)
  <2>1. /\ line[a] # <<>> /\ Takes(a) /\ UNCHANGED inputVars /\ Unread
        /\ \E type \in Type \ {"DATA", "BUSY"} : Answered(a, type)
    BY <1>7 DEF ReceiveAnswer, Receives
  <2>2. QED
    BY <1>1, <1>2, <1>4, <2>1
<1>8. CASE ReceiveBusy(a)
  BY <1>1, <1>2, <1>4, <1>8 DEF ReceiveBusy, Receives
<1>9. CASE ReceiveBind(a)
  BY <1>1, <1>2, <1>4, <1>9 DEF ReceiveBind, Receives
<1>10. CASE ReceiveHandshake(a)
  BY <1>1, <1>2, <1>4, <1>10 DEF ReceiveHandshake, Receives
<1>11. CASE ReceiveData(a)
  <2>1. /\ line' \in [End -> Seq(Packet)]
        /\ Head(line[a]).chunk \in Nat /\ Head(line[a]).port \in Ports
    BY <1>1, <1>3, <1>11 DEF ReceiveData, Receives
  <2>2. /\ incoming' \in [End -> Nat] /\ input' \in [End -> InputAt]
        /\ answerTo' \in [End -> Ports]
    BY <1>0, <1>11, <2>1 DEF TypeOK, ReceiveData
  <2>3. QED
    BY <1>0, <1>11, <2>1, <2>2
    DEF TypeOK, Sending, ReceiveData, Unread, programVars, historyVars
<1>12. CASE StoreData(a)
  <2>1. Peer(a) \in End /\ Peer(Peer(a)) = a
    BY Ends
  <2>2. incoming[a] \in Nat \ {0} /\ Size[Peer(a)][incoming[a]] \in Nat
    <3>1. Fits(Peer(a), sent[Peer(a)], incoming[a])
      BY <1>12, <2>1 DEF StoreData, OrderInv, Ordered
    <3>2. incoming[a] \in 1 .. MaxChunks[Peer(a)] /\ MaxChunks[Peer(a)] \in Nat
      BY <2>1, <3>1, BoundsAssumption DEF Fits
    <3>3. Size[Peer(a)] \in [1 .. MaxChunks[Peer(a)] -> 1 .. MTU] /\ MTU \in Nat
      BY <2>1, SizeAssumption
    <3>4. QED
      BY <3>2, <3>3
  <2>3. rxbuf[a] \in Seq(Nat \ {0})
    BY <1>0 DEF TypeOK
  <2>4. Append(rxbuf[a], incoming[a]) \in Seq(Nat \ {0})
    BY <2>2, <2>3, AppendProperties
  <2>5. rxbuf' \in [End -> Seq(Nat \ {0})]
    BY <1>0, <1>12, <2>4 DEF TypeOK, StoreData
  <2>6. total' \in [End -> Nat]
    BY <1>0, <1>12, <2>2 DEF TypeOK, StoreData
  <2>7. incoming' \in [End -> Nat]
    BY <1>0, <1>12 DEF TypeOK, StoreData
  <2>8. QED
    BY <1>0, <1>12, <2>5, <2>6, <2>7 DEF TypeOK, Sending, StoreData, programVars, historyVars
<1>13. CASE AnswerAck(a)
  <2>1. line' \in [End -> Seq(Packet)]
    BY <1>0, <1>13, PacketOfType, SendsLine DEF AnswerAck
  <2>2. QED
    BY <1>0, <1>13, <2>1
    DEF TypeOK, Sending, AnswerAck, Ports, socketVars, programVars, historyVars
<1>14. CASE FindFull(a)
  BY <1>0, <1>14 DEF TypeOK, Sending, FindFull, socketVars, programVars, historyVars
<1>15. CASE AnswerBusy(a)
  <2>1. line' \in [End -> Seq(Packet)]
    BY <1>0, <1>15, PacketOfType, SendsLine DEF AnswerBusy
  <2>2. QED
    BY <1>0, <1>15, <2>1 DEF TypeOK, Sending, AnswerBusy, Ports, programVars, historyVars
<1>16. QED
  BY <1>5, <1>6, <1>7, <1>8, <1>9, <1>10, <1>11, <1>12, <1>13, <1>14, <1>15 DEF InputThread

(* What damage does to a packet. *)
LEMMA DamagedLine ==
    ASSUME TypeOK, NEW a \in End, NEW i \in 1 .. Len(line[a]),
           line' = [line EXCEPT ![a][i].damaged = TRUE]
    PROVE  /\ line' \in [End -> Seq(Packet)]
           /\ line'[Peer(a)] = line[Peer(a)]
           /\ Len(line'[a]) = Len(line[a])
           /\ \A j \in 1 .. Len(line[a]) :
                 /\ line'[a][j].type = line[a][j].type
                 /\ line'[a][j].chunk = line[a][j].chunk
                 /\ line'[a][j].damaged => j = i \/ line[a][j].damaged
<1> DEFINE q == [line[a][i] EXCEPT !.damaged = TRUE]
           x == [line[a] EXCEPT ![i] = q]
<1>1. line[a] \in Seq(Packet) /\ line[a][i] \in Packet
  BY LineOf
<1>2. q \in Packet /\ q.type = line[a][i].type /\ q.chunk = line[a][i].chunk
  BY <1>1 DEF Packet
<1>3. line' = [line EXCEPT ![a] = x]
  OBVIOUS
<1> HIDE DEF q
<1>4. /\ x \in Seq(Packet) /\ Len(x) = Len(line[a])
      /\ \A j \in 1 .. Len(line[a]) : x[j] = IF j = i THEN q ELSE line[a][j]
  BY <1>1, <1>2, ExceptSeq
<1> HIDE DEF x
<1>5. line'[a] = x /\ line'[Peer(a)] = line[Peer(a)] /\ line' \in [End -> Seq(Packet)]
  <2>1. line \in [End -> Seq(Packet)] /\ Peer(a) \in End /\ Peer(a) # a
    BY Ends DEF TypeOK
  <2>2. QED
    BY <1>3, <1>4, <2>1
<1>6. QED
  BY <1>2, <1>4, <1>5

LEMMA TypeLine ==
    ASSUME OrderInv, NEW a \in End, Line(a) PROVE TypeOK' /\ Sending'
<1>0. TypeOK /\ Sending /\ MaxFaults \in Nat
  BY BoundsAssumption DEF OrderInv
<1>1. CASE Lose(a)
  <2>1. line' \in [End -> Seq(Packet)]
    BY <1>0, <1>1, TakesLine DEF Lose, Takes
  <2>2. QED
    BY <1>0, <1>1, <2>1
    DEF TypeOK, Sending, Lose, Fault, socketVars, programVars, inputVars, historyVars
<1>2. CASE Damage(a)
  <2>1. PICK i \in 1 .. Len(line[a]) :
           /\ line' = [line EXCEPT ![a][i].damaged = TRUE]
           /\ Broken(IF line[a][i].type = "DATA" THEN {} ELSE {Peer(a)})
    BY <1>2 DEF Damage
  <2>2. line' \in [End -> Seq(Packet)]
    BY <1>0, <2>1, DamagedLine
  <2>3. intact' \in [End -> BOOLEAN]
    BY <1>0, <2>1 DEF Broken, TypeOK
  <2>4. QED
    BY <1>0, <1>2, <2>2, <2>3, SMTT(30)
    DEF TypeOK, Sending, Damage, Fault, socketVars, programVars, inputVars
<1>3. QED
  BY <1>1, <1>2 DEF Line

LEMMA SameHeld ==
    ASSUME NEW e \in End, rxbuf'[Peer(e)] = rxbuf[Peer(e)], got'[Peer(e)] = got[Peer(e)]
    PROVE  Held(e)' = Held(e) /\ Buffered(e)' = Buffered(e)
BY DEF Held, Buffered, Peer

LEMMA ClearedHeld ==
    ASSUME NEW e \in End, rxbuf'[Peer(e)] \in {rxbuf[Peer(e)], <<>>}, got'[Peer(e)] = got[Peer(e)]
    PROVE  Held(e)' \subseteq Held(e)
<1>1. Peer(e)' = Peer(e)
  BY DEF Peer
<1>2. CASE rxbuf'[Peer(e)] = rxbuf[Peer(e)]
  BY <1>2, SameHeld
<1>3. CASE rxbuf'[Peer(e)] = <<>>
  BY <1>1, <1>3 DEF Held, Buffered
<1>4. QED
  BY <1>2, <1>3

(* Steps of a program other than those that send data. *)
LEMMA OrderProgram ==
    ASSUME OrderInv, TypeOK', NEW e \in End, NEW a \in End,
           \/ Connect(a) \/ Bind(a) \/ SendBind(a) \/ SendHandshake(a) \/ Connected(a)
           \/ RegistersAgain(a) \/ ClosePort(a)
           \/ ConnectFails(a) \/ ConnectTimeout(a) \/ Disconnect(a)
           \/ Acknowledged(a) \/ AskedAgain(a) \/ SendFails(a) \/ SendTimeout(a)
    PROVE  Ordered(e)'
<1> DEFINE p == Peer(e)
<1>0. TypeOK /\ Ordered(e) /\ p \in End /\ port[a] \in Ports
  BY Ends DEF OrderInv, TypeOK
<1>1. UNCHANGED <<input, incoming, got>>
  BY DEF Connect, Bind, Registers, RegistersAgain, ClosePort, SendBind, SendHandshake, Connected, ConnectFails,
         ConnectTimeout, Disconnect, Acknowledged, AskedAgain, SendFails, SendTimeout,
         inputVars, historyVars
<1>2. sent[e] <= sent'[e]
  <2>1. sent' = sent \/ Acknowledged(a)
    BY DEF Connect, Bind, Registers, RegistersAgain, ClosePort, SendBind, SendHandshake, Connected, ConnectFails,
           ConnectTimeout, Disconnect, AskedAgain, SendFails, SendTimeout, historyVars
  <2>2. sent \in [End -> Nat]
    BY <1>0 DEF TypeOK
  <2>3. sent' = sent \/ sent' = [sent EXCEPT ![a] = sent[a] + 1]
    BY <2>1 DEF Acknowledged
  <2>4. QED
    BY <2>2, <2>3
<1>3. rxbuf'[p] \in {rxbuf[p], <<>>}
  <2>1. rxbuf' = rxbuf \/ Disconnect(a)
    BY DEF Connect, Bind, Registers, RegistersAgain, ClosePort, SendBind, SendHandshake, Connected, ConnectFails,
           ConnectTimeout, Acknowledged, AskedAgain, SendFails, SendTimeout, socketVars
  <2>2. QED
    BY <1>0, <2>1 DEF TypeOK, Disconnect, Clears
<1>4. Kept(line[p], line'[p], {"DATA"})
  <2>1. UNCHANGED line \/ \E type \in {"BIND", "HANDSHAKE"} : Sends(a, PacketOf(type, port[a]))
    BY DEF Connect, Bind, Registers, RegistersAgain, ClosePort, SendBind, SendHandshake, Connected, ConnectFails,
           ConnectTimeout, Disconnect, Acknowledged, AskedAgain, SendFails, SendTimeout
  <2>2. CASE UNCHANGED line
    BY <1>0, <2>2, LineOf, SameKept
  <2>3. ASSUME NEW type \in {"BIND", "HANDSHAKE"}, Sends(a, PacketOf(type, port[a]))
        PROVE  Kept(line[p], line'[p], {"DATA"})
    <3>1. type \in Type
      BY DEF Type
    <3>2. QED
      BY <1>0, <2>3, <3>1, PacketOfType, SendsKept
  <2>4. QED
    BY <2>1, <2>2, <2>3
<1>5. QED
  BY <1>0, <1>1, <1>2, <1>3, <1>4, ClearedHeld, OrderKept

LEMMA OrderSend ==
    ASSUME OrderInv, TypeOK', NEW e \in End, NEW a \in End, Send(a) \/ SendAgain(a)
    PROVE  Ordered(e)'
<1> DEFINE p == Peer(e)
           c == sent[a] + 1
           q == [PacketOf("DATA", port[a]) EXCEPT !.chunk = c]
<1>0. TypeOK /\ Ordered(e) /\ p \in End /\ p # e /\ Peer(p) = e
  BY Ends DEF OrderInv
<1>1. /\ sent[a] \in Nat /\ sent[a] < MaxChunks[a] /\ MaxChunks[a] \in Nat
      /\ Sends(a, q) /\ UNCHANGED <<rxbuf, got, input, incoming, sent>>
  BY BoundsAssumption
  DEF Send, SendAgain, SendsChunk, OrderInv, Sending, TypeOK, inputVars, historyVars
<1>2. q \in Packet /\ q.type = "DATA" /\ q.chunk = c
  <2>1. port[a] \in Ports
    BY <1>0 DEF TypeOK
  <2>2. QED
    BY <1>1, <2>1, ChunkPacket
<1> HIDE DEF q
<1>3. CASE a = p
  <2>1. Kept(line[p], line'[p], {"DATA"})
    BY <1>0, <1>1, <1>2, <1>3, SendsKept
  <2>2. sent[e] <= sent'[e]
    BY <1>0, <1>1 DEF TypeOK
  <2>3. QED
    BY <1>0, <1>1, <2>1, <2>2, SameHeld, OrderKept
<1>4. CASE a = e
  <2>1. /\ Len(line'[p]) = Len(line[p]) + 1 /\ Len(line[p]) \in Nat
        /\ \A i \in 1 .. Len(line[p]) : line'[p][i] = line[p][i]
        /\ line'[p][Len(line[p]) + 1] = q
    BY <1>0, <1>1, <1>2, <1>4, SendsLine, LineOf
  <2>2. Held(e)' = Held(e) /\ Peer(e)' = p
    BY <1>1, SameHeld DEF Peer
  <2>3. Fits(e, sent[e], c)
    BY <1>1, <1>4 DEF Fits
  <2>4. \A x : x = 0 \/ Fits(e, sent[e], x) => x <= c
    BY <1>1, <1>4 DEF Fits
  <2>5. ASSUME NEW i \in 1 .. Len(line'[p]), line'[p][i].type = "DATA"
        PROVE  /\ Fits(e, sent[e], line'[p][i].chunk)
               /\ \A x \in Held(e) : x <= line'[p][i].chunk
               /\ input[p] = "found" => incoming[p] <= line'[p][i].chunk
               /\ \A j \in 1 .. i :
                     line'[p][j].type = "DATA" => line'[p][j].chunk <= line'[p][i].chunk
    <3>1. CASE i \in 1 .. Len(line[p])
      <4>1. line'[p][i] = line[p][i] /\ \A j \in 1 .. i : j \in 1 .. Len(line[p]) /\ line'[p][j] = line[p][j]
        BY <2>1, <3>1
      <4>2. QED
        BY <1>0, <2>5, <3>1, <4>1 DEF Ordered
    <3>2. CASE i = Len(line[p]) + 1
      <4>1. line'[p][i].chunk = c
        BY <1>2, <2>1, <3>2
      <4>2. \A j \in 1 .. Len(line[p]) : line'[p][j] = line[p][j]
        BY <2>1
      <4>3. \A j \in 1 .. Len(line[p]) : line[p][j].type = "DATA" => line[p][j].chunk <= c
        BY <1>0, <2>4 DEF Ordered
      <4>4. \A x \in Held(e) : x <= c
        BY <1>0, <2>4 DEF Ordered
      <4>5. input[p] = "found" => incoming[p] <= c
        BY <1>0, <2>4 DEF Ordered
      <4>6. ASSUME NEW j \in 1 .. i, line'[p][j].type = "DATA" PROVE line'[p][j].chunk <= c
        <5>1. CASE j \in 1 .. Len(line[p])
          BY <4>2, <4>3, <4>6, <5>1
        <5>2. CASE j = i
          BY <1>1, <4>1, <5>2
        <5>3. QED
          BY <2>1, <3>2, <5>1, <5>2
      <4>7. QED
        BY <2>3, <4>1, <4>4, <4>5, <4>6
    <3>3. QED
      BY <2>1, <3>1, <3>2
  <2>6. QED
    BY <1>0, <1>1, <2>2, <2>5 DEF Ordered
<1>5. QED
  BY <1>3, <1>4, Ends

(* What the steps of the receiving task do to what is held. *)
LEMMA ReaderHeld ==
    ASSUME OrderInv, NEW e \in End, NEW a \in End,
           ReadBytes(a) \/ RecvTimeout(a) \/ CheckRoom(a) \/ ResumeSender(a)
    PROVE  Held(e)' \subseteq Held(e)
<1> DEFINE p == Peer(e)
<1>0. TypeOK /\ p \in End
  BY Ends DEF OrderInv
<1>1. CASE ReadBytes(a) /\ a = p
  <2>1. PICK k \in 0 .. Len(rxbuf[p]) :
           /\ rxbuf'[p] \in Seq(Nat \ {0}) /\ Len(rxbuf'[p]) = Len(rxbuf[p]) - k
           /\ \A i \in 1 .. Len(rxbuf'[p]) : rxbuf'[p][i] = rxbuf[p][i + k]
           /\ got' = IF k = 0 THEN got ELSE [got EXCEPT ![p] = rxbuf[p][k]]
    BY <1>0, <1>1, ReadLeaves
  <2>2. got \in [End -> Nat] /\ Len(rxbuf[p]) \in Nat
    BY <1>0, HeldOf DEF TypeOK
  <2>3. got'[p] \in Held(e)
    <3>1. CASE k = 0
      BY <2>1, <3>1 DEF Held
    <3>2. CASE k # 0
      <4>1. k \in 1 .. Len(rxbuf[p]) /\ got'[p] = rxbuf[p][k]
        BY <1>0, <2>1, <2>2, <3>2
      <4>2. QED
        BY <4>1 DEF Held, Buffered
    <3>3. QED
      BY <3>1, <3>2
  <2>4. \A i \in 1 .. Len(rxbuf'[p]) : i + k \in 1 .. Len(rxbuf[p]) /\ rxbuf'[p][i] = rxbuf[p][i + k]
    BY <2>1, <2>2
  <2>5. Buffered(e)' \subseteq Buffered(e)
    BY <2>4 DEF Buffered, Peer
  <2>6. Held(e)' = {got'[p]} \union Buffered(e)'
    BY DEF Held, Peer
  <2>7. QED
    BY <2>3, <2>5, <2>6 DEF Held
<1>2. CASE ReadBytes(a) /\ a # p
  <2>1. rxbuf'[p] = rxbuf[p] /\ got'[p] = got[p]
    <3>1. rxbuf \in [End -> Seq(Nat \ {0})] /\ got \in [End -> Nat]
      BY <1>0 DEF TypeOK
    <3>2. QED
      BY <1>0, <1>2, <3>1 DEF ReadBytes
  <2>2. QED
    BY <2>1, SameHeld
<1>3. CASE ~ ReadBytes(a)
  <2>1. got' = got
    BY <1>3 DEF RecvTimeout, CheckRoom, ResumeSender
  <2>2. rxbuf' = rxbuf \/ RecvEnds(a)
    BY <1>3 DEF RecvTimeout, CheckRoom, ResumeSender
  <2>3. rxbuf'[p] \in {rxbuf[p], <<>>}
    BY <1>0, <2>2 DEF TypeOK, RecvEnds, Clears
  <2>4. QED
    BY <1>0, <2>1, <2>3, ClearedHeld
<1>4. QED
  BY <1>1, <1>2, <1>3

LEMMA OrderReader ==
    ASSUME OrderInv, TypeOK', NEW e \in End, NEW a \in End,
           ReadBytes(a) \/ RecvTimeout(a) \/ CheckRoom(a) \/ ResumeSender(a)
    PROVE  Ordered(e)'
<1>0. TypeOK /\ Ordered(e) /\ Peer(e) \in End /\ port[a] \in Ports
  BY Ends DEF OrderInv, TypeOK
<1>1. UNCHANGED <<input, incoming, sent>>
  BY DEF ReadBytes, RecvTimeout, CheckRoom, ResumeSender, inputVars
<1>2. Kept(line[Peer(e)], line'[Peer(e)], {"DATA"})
  <2>1. UNCHANGED line \/ Sends(a, PacketOf("ACK", port[a]))
    BY DEF ReadBytes, RecvTimeout, CheckRoom, ResumeSender
  <2>2. CASE UNCHANGED line
    BY <1>0, <2>2, LineOf, SameKept
  <2>3. CASE Sends(a, PacketOf("ACK", port[a]))
    BY <1>0, <2>3, PacketOfType, SendsKept DEF Type
  <2>4. QED
    BY <2>1, <2>2, <2>3
<1>3. sent[e] <= sent'[e]
  BY <1>0, <1>1 DEF TypeOK
<1>4. QED
  BY <1>0, <1>1, <1>2, <1>3, ReaderHeld, OrderKept

(* Steps of the input thread other than those that handle data: they take  *)
(* a packet, and answer it. *)
LEMMA OrderInput ==
    ASSUME OrderInv, TypeOK', NEW e \in End, NEW a \in End,
           \/ ReceiveDamaged(a) \/ ReceiveUnregistered(a) \/ ReceiveAnswer(a) \/ ReceiveBusy(a)
           \/ ReceiveBind(a) \/ ReceiveHandshake(a) \/ AnswerAck(a) \/ FindFull(a) \/ AnswerBusy(a)
    PROVE  Ordered(e)'
<1> DEFINE p == Peer(e)
<1>0. TypeOK /\ Ordered(e) /\ p \in End /\ answerTo[a] \in Ports
  BY Ends DEF OrderInv, TypeOK
<1>1. UNCHANGED <<rxbuf, got, sent, incoming>>
  BY DEF ReceiveDamaged, ReceiveUnregistered, ReceiveAnswer, ReceiveBusy, ReceiveBind,
         ReceiveHandshake, AnswerAck, FindFull, AnswerBusy, Unread, inputVars, socketVars, historyVars
<1>2. input'[p] = "found" => input[p] = "found"
  <2>1. \/ input' = input
        \/ input' = [input EXCEPT ![a] = "receive"]
        \/ input' = [input EXCEPT ![a] = "full"]
    BY DEF ReceiveDamaged, ReceiveUnregistered, ReceiveAnswer, ReceiveBusy, ReceiveBind,
           ReceiveHandshake, AnswerAck, FindFull, AnswerBusy, inputVars
  <2>2. input \in [End -> InputAt]
    BY <1>0 DEF TypeOK
  <2>3. QED
    BY <1>0, <2>1, <2>2
<1>3. Kept(line[p], line'[p], {"DATA"})
  <2>1. \/ line[a] # <<>> /\ Takes(a)
        \/ line[a] # <<>> /\ \E type \in {"ACK", "NACK", "REPEAT"} : Replies(a, type)
        \/ \E type \in {"ACK", "BUSY"} : Sends(a, PacketOf(type, answerTo[a]))
        \/ UNCHANGED line
    BY DEF ReceiveDamaged, ReceiveUnregistered, ReceiveAnswer, ReceiveBusy, ReceiveBind,
           ReceiveHandshake, AnswerAck, FindFull, AnswerBusy, Receives
  <2>2. CASE line[a] # <<>> /\ Takes(a)
    BY <1>0, <2>2, TakesKept
  <2>3. ASSUME line[a] # <<>>, NEW type \in {"ACK", "NACK", "REPEAT"}, Replies(a, type)
        PROVE  Kept(line[p], line'[p], {"DATA"})
    <3>1. type \in Type
      BY DEF Type
    <3>2. QED
      BY <1>0, <2>3, <3>1, RepliesKept
  <2>4. ASSUME NEW type \in {"ACK", "BUSY"}, Sends(a, PacketOf(type, answerTo[a]))
        PROVE  Kept(line[p], line'[p], {"DATA"})
    <3>1. type \in Type
      BY DEF Type
    <3>2. QED
      BY <1>0, <2>4, <3>1, PacketOfType, SendsKept
  <2>5. CASE UNCHANGED line
    BY <1>0, <2>5, LineOf, SameKept
  <2>6. QED
    BY <2>1, <2>2, <2>3, <2>4, <2>5
<1>4. sent[e] <= sent'[e]
  BY <1>0, <1>1 DEF TypeOK
<1>5. QED
  BY <1>0, <1>1, <1>2, <1>3, <1>4, SameHeld, OrderKept

(* The input thread looks at the first packet, and no chunk overtakes it.  *)
LEMMA OrderReceive ==
    ASSUME OrderInv, TypeOK', NEW e \in End, NEW a \in End, ReceiveData(a)
    PROVE  Ordered(e)'
<1> DEFINE p == Peer(e)
<1>0. TypeOK /\ Ordered(e) /\ p \in End /\ p # e
  BY Ends DEF OrderInv
<1>1. /\ line[a] # <<>> /\ Takes(a) /\ Head(line[a]).type = "DATA"
      /\ input' = [input EXCEPT ![a] = "found"]
      /\ incoming' = [incoming EXCEPT ![a] = Head(line[a]).chunk]
      /\ UNCHANGED <<rxbuf, got, sent>>
  BY DEF ReceiveData, Receives, Unread, historyVars
<1>2. Kept(line[p], line'[p], {"DATA"})
  BY <1>0, <1>1, TakesKept
<1>3. Held(e)' = Held(e) /\ Peer(e)' = p
  BY <1>1, SameHeld DEF Peer
<1>4. input \in [End -> InputAt] /\ incoming \in [End -> Nat] /\ sent \in [End -> Nat]
  BY <1>0 DEF TypeOK
<1>5. CASE a = e
  <2>1. input'[p] = input[p] /\ incoming'[p] = incoming[p] /\ sent[e] <= sent'[e]
    BY <1>0, <1>1, <1>4, <1>5
  <2>2. QED
    BY <1>0, <1>2, <1>3, <2>1, OrderKept
<1>6. CASE a = p
  <2> DEFINE c == line[p][1].chunk
  <2>1. 1 \in 1 .. Len(line[p]) /\ Head(line[p]) = line[p][1] /\ line[p][1].type = "DATA"
    BY <1>0, <1>1, <1>6, LineOf
  <2>2. input'[p] = "found" /\ incoming'[p] = c
    BY <1>0, <1>1, <1>4, <1>6, <2>1
  <2>3. Fits(e, sent[e], c) /\ \A x \in Held(e) : x <= c
    BY <1>0, <2>1 DEF Ordered
  <2>4. /\ Len(line[p]) \in Nat /\ Len(line'[p]) = Len(line[p]) - 1
        /\ \A i \in 1 .. Len(line'[p]) : line'[p][i] = line[p][i + 1]
    BY <1>0, <1>1, <1>6, LineOf, TakesLine
  <2>5. ASSUME NEW i \in 1 .. Len(line'[p]), line'[p][i].type = "DATA"
        PROVE  /\ Fits(e, sent[e], line'[p][i].chunk)
               /\ \A x \in Held(e) : x <= line'[p][i].chunk
               /\ c <= line'[p][i].chunk
               /\ \A j \in 1 .. i :
                     line'[p][j].type = "DATA" => line'[p][j].chunk <= line'[p][i].chunk
    <3>1. i + 1 \in 1 .. Len(line[p]) /\ line'[p][i] = line[p][i + 1] /\ 1 \in 1 .. i + 1
      BY <2>4
    <3>2. /\ Fits(e, sent[e], line[p][i + 1].chunk)
          /\ \A x \in Held(e) : x <= line[p][i + 1].chunk
          /\ \A j \in 1 .. i + 1 :
                line[p][j].type = "DATA" => line[p][j].chunk <= line[p][i + 1].chunk
      BY <1>0, <2>5, <3>1 DEF Ordered
    <3>3. c <= line'[p][i].chunk
      BY <2>1, <3>1, <3>2
    <3>4. \A j \in 1 .. i : j + 1 \in 1 .. i + 1 /\ line'[p][j] = line[p][j + 1]
      BY <2>4
    <3>5. QED
      BY <3>1, <3>2, <3>3, <3>4
  <2>6. \A x \in Held(e) : x = 0 \/ Fits(e, sent[e], x)
    BY <1>0 DEF Ordered
  <2> HIDE DEF c
  <2>7. QED
    BY <1>1, <1>3, <2>2, <2>3, <2>5, <2>6 DEF Ordered
<1>7. QED
  BY <1>5, <1>6, Ends

LEMMA StoredHeld ==
    ASSUME OrderInv, NEW e \in End, StoreData(Peer(e))
    PROVE  LET p == Peer(e)
           IN  /\ rxbuf'[p] = Append(rxbuf[p], incoming[p]) /\ input'[p] = "stored"
               /\ Held(e)' \subseteq Held(e) \union {incoming[p]}
<1> DEFINE p == Peer(e)
<1>0. TypeOK /\ p \in End /\ Peer(e)' = p
  BY Ends DEF OrderInv, Peer
<1>1. rxbuf'[p] = Append(rxbuf[p], incoming[p]) /\ input'[p] = "stored" /\ got'[p] = got[p]
  BY <1>0 DEF TypeOK, StoreData, historyVars
<1>2. rxbuf[p] \in Seq(Nat) /\ Len(rxbuf[p]) \in Nat /\ incoming[p] \in Nat
  <2>1. rxbuf[p] \in Seq(Nat \ {0}) /\ incoming[p] \in Nat
    BY <1>0 DEF TypeOK
  <2>2. rxbuf[p] \in Seq(Nat)
    BY <2>1, SeqDef
  <2>3. QED
    BY <2>1, <2>2, LenProperties
<1>3. /\ Len(rxbuf'[p]) = Len(rxbuf[p]) + 1
      /\ \A i \in 1 .. Len(rxbuf[p]) : rxbuf'[p][i] = rxbuf[p][i]
      /\ rxbuf'[p][Len(rxbuf[p]) + 1] = incoming[p]
  BY <1>1, <1>2, AppendProperties
<1> HIDE DEF p
<1>4. ASSUME NEW i \in 1 .. Len(rxbuf'[p])
      PROVE  rxbuf'[p][i] \in {rxbuf[p][j] : j \in 1 .. Len(rxbuf[p])} \union {incoming[p]}
  <2>1. i \in 1 .. Len(rxbuf[p]) \/ i = Len(rxbuf[p]) + 1
    BY <1>2, <1>3
  <2>2. QED
    BY <1>3, <2>1
<1>5. Buffered(e)' \subseteq Buffered(e) \union {incoming[p]}
  BY <1>0, <1>4 DEF Buffered, p
<1>6. Held(e)' = {got'[p]} \union Buffered(e)' /\ Held(e) = {got[p]} \union Buffered(e)
  BY <1>0 DEF Held, p
<1>7. QED
  BY <1>1, <1>5, <1>6 DEF p

LEMMA OrderStore ==
    ASSUME OrderInv, TypeOK', NEW e \in End, NEW a \in End, StoreData(a)
    PROVE  Ordered(e)'
<1> DEFINE p == Peer(e)
<1>0. TypeOK /\ Ordered(e) /\ p \in End /\ p # e /\ Peer(e)' = p
  BY Ends DEF OrderInv, Peer
<1>1. UNCHANGED <<line, got, sent>>
  BY DEF StoreData, historyVars
<1>2. CASE a = e
  <2>1. input'[p] = input[p] /\ incoming'[p] = incoming[p] /\ rxbuf'[p] = rxbuf[p]
    BY <1>0, <1>2 DEF TypeOK, StoreData
  <2>2. Kept(line[p], line'[p], {"DATA"}) /\ sent[e] <= sent'[e]
    <3>1. line[p] \in Seq(Packet) /\ sent[e] \in Nat
      BY <1>0 DEF TypeOK
    <3>2. QED
      BY <1>1, <3>1, SameKept
  <2>3. QED
    BY <1>0, <1>1, <2>1, <2>2, SameHeld, OrderKept
<1>3. CASE a = p
  <2>1. input[p] = "found" /\ input'[p] = "stored"
        /\ Held(e)' \subseteq Held(e) \union {incoming[p]}
    BY <1>3, StoredHeld DEF StoreData
  <2>2. Fits(e, sent[e], incoming[p])
    BY <1>0, <2>1 DEF Ordered
  <2>3. \A x \in Held(e)' : x = 0 \/ Fits(e, sent[e], x)
    BY <1>0, <2>1, <2>2 DEF Ordered
  <2>4. ASSUME NEW i \in 1 .. Len(line[p]), line[p][i].type = "DATA"
        PROVE  /\ Fits(e, sent[e], line[p][i].chunk)
               /\ \A x \in Held(e)' : x <= line[p][i].chunk
               /\ \A j \in 1 .. i :
                     line[p][j].type = "DATA" => line[p][j].chunk <= line[p][i].chunk
    BY <1>0, <2>1, <2>4 DEF Ordered
  <2>5. QED
    BY <1>0, <1>1, <2>1, <2>3, <2>4 DEF Ordered
<1>4. QED
  BY <1>2, <1>3, Ends

LEMMA OrderLine ==
    ASSUME OrderInv, TypeOK', NEW e \in End, NEW a \in End, Line(a)
    PROVE  Ordered(e)'
<1> DEFINE p == Peer(e)
<1>0. TypeOK /\ Ordered(e) /\ p \in End /\ Peer(e)' = p
  BY Ends DEF OrderInv, Peer
<1>1. UNCHANGED <<input, incoming, rxbuf, got, sent>>
  BY DEF Line, Damage, Lose, socketVars, inputVars, historyVars
<1>2. CASE Lose(a)
  <2>1. Kept(line[p], line'[p], {"DATA"})
    BY <1>0, <1>2, TakesKept DEF Lose, Takes
  <2>2. sent[e] <= sent'[e]
    BY <1>0, <1>1 DEF TypeOK
  <2>3. QED
    BY <1>0, <1>1, <2>1, <2>2, SameHeld, OrderKept
<1>3. CASE Damage(a)
  <2>1. PICK i \in 1 .. Len(line[a]) : line' = [line EXCEPT ![a][i].damaged = TRUE]
    BY <1>3 DEF Damage
  <2>2. Len(line'[p]) = Len(line[p])
        /\ \A j \in 1 .. Len(line[p]) :
              line'[p][j].type = line[p][j].type /\ line'[p][j].chunk = line[p][j].chunk
    BY <1>0, <2>1, DamagedLine, Ends
  <2>3. Held(e)' = Held(e)
    BY <1>1, SameHeld
  <2>4. Len(line[p]) \in Nat
    BY <1>0, LineOf
  <2>5. \A j \in 1 .. Len(line[p]) : \A i_1 \in 1 .. j : i_1 \in 1 .. Len(line[p])
    BY <2>4
  <2>6. QED
    BY <1>0, <1>1, <2>2, <2>3, <2>5 DEF Ordered
<1>4. QED
  BY <1>2, <1>3 DEF Line

(* The steps of one end. *)
Step(e) == Program(e) \/ Reader(e) \/ InputThread(e) \/ Chooses(e) \/ Line(e)

LEMMA OrderStep ==
    ASSUME OrderInv, NEW a \in End, Step(a)
    PROVE  OrderInv'
<1>1. TypeOK' /\ Sending'
  BY TypeProgram, TypeReader, TypeInput, TypeLine DEF Step, Program, Reader, Chooses
<1>2. ASSUME NEW e \in End PROVE Ordered(e)'
  BY <1>1, OrderProgram, OrderSend, OrderReader, OrderInput, OrderReceive, OrderStore, OrderLine
  DEF Step, Program, Reader, InputThread, Chooses
<1>3. QED
  BY <1>1, <1>2 DEF OrderInv

LEMMA OrderStutter ==
    ASSUME OrderInv, UNCHANGED vars PROVE OrderInv'
<1>1. /\ UNCHANGED <<line, registered, port, ansq, busy, rxbuf, seek, total, prog, reader>>
      /\ UNCHANGED <<input, incoming, answerTo, sent, got, intact, opens, faults>>
  BY DEF vars, socketVars, programVars, inputVars, historyVars
<1>2. TypeOK' /\ Sending'
  BY <1>1 DEF OrderInv, TypeOK, Sending
<1>3. ASSUME NEW e \in End PROVE Ordered(e)'
  <2>1. Held(e)' = Held(e) /\ Peer(e)' = Peer(e)
    BY <1>1, SameHeld DEF Peer
  <2>2. Ordered(e)
    BY DEF OrderInv
  <2>3. QED
    BY <1>1, <2>1, <2>2 DEF Ordered
<1>4. QED
  BY <1>2, <1>3 DEF OrderInv

LEMMA OrderInvariant == Spec => []OrderInv
<1>1. Init => OrderInv
  BY OrderInit
<1>2. OrderInv /\ [Next]_vars => OrderInv'
  BY OrderStep, OrderStutter DEF Next, Step
<1>3. QED
  BY <1>1, <1>2, PTL DEF Spec

(* Whatever the two ends and the line do, the types hold, the counts stay  *)
(* within what there is to send, and ansq never holds BUSY. *)
THEOREM SipcTypeCorrect == Spec => []TypeOK
<1>1. OrderInv => TypeOK
  BY DEF OrderInv
<1>2. QED
  BY <1>1, OrderInvariant, PTL

-----------------------------------------------------------------------------
(* What stands between e and its answer, as long as e is intact: nothing,  *)
(* or one thing, and what that says of the chunk that was sent last. *)

At(x, types)  == {i \in 1 .. Len(x) : x[i].type \in types}
Clean(x)      == \A i \in 1 .. Len(x) : x[i].damaged => x[i].type = "DATA"

Last(b, g)    == IF b = <<>> THEN g ELSE b[Len(b)]
Arrived(e)    == Last(rxbuf[Peer(e)], got[Peer(e)])
Room(e)       == total[Peer(e)] < Capacity[Peer(e)]
Delivers(e)   == prog[e] = "await" /\ Arrived(e) = sent[e]
Delivered(e)  == prog[e] = "await" /\ Arrived(e) = sent[e] + 1

MeansAsked(e, m) ==
    /\ Room(e)
    /\ m.type = "DATA" => Delivers(e) /\ m.chunk = sent[e] + 1
    /\ m.type = "HANDSHAKE" => prog[e] = "connecting"
MeansAnswer(e, type) ==
    /\ Room(e)
    /\ type = "ACK" => Delivered(e) \/ prog[e] = "connecting"
    /\ type = "REPEAT" => Delivers(e)

NotAsked(e)    == At(line[Peer(e)], Asking) = {}
NotAnswered(e) == At(line[e], Answering) = {} /\ ansq[e] \notin Answering
NotAtPeer(e)   == input[Peer(e)] = "receive" /\ ~ busy[Peer(e)]

Nothing(e) == NotAsked(e) /\ NotAnswered(e) /\ NotAtPeer(e)
AskedOnly(e) ==
    /\ \E i \in 1 .. Len(line[Peer(e)]) :
          At(line[Peer(e)], Asking) = {i} /\ MeansAsked(e, line[Peer(e)][i])
    /\ NotAnswered(e) /\ NotAtPeer(e)
InputOnly(e) ==
    /\ input[Peer(e)] # "receive" /\ ~ busy[Peer(e)]
    /\ input[Peer(e)] = "found" => Room(e) /\ Delivers(e) /\ incoming[Peer(e)] = sent[e] + 1
    /\ input[Peer(e)] # "found" => Delivered(e)
    /\ NotAsked(e) /\ NotAnswered(e)
BusyOnly(e) ==
    /\ input[Peer(e)] = "receive" /\ busy[Peer(e)]
    /\ Delivered(e) /\ (reader[Peer(e)] = "room" => Room(e))
    /\ NotAsked(e) /\ NotAnswered(e)
AnswerOnly(e) ==
    /\ \E i \in 1 .. Len(line[e]) :
          At(line[e], Answering) = {i} /\ MeansAnswer(e, line[e][i].type)
    /\ ansq[e] \notin Answering
    /\ NotAsked(e) /\ NotAtPeer(e)
AnsqOnly(e) ==
    /\ ansq[e] \in Answering /\ MeansAnswer(e, ansq[e])
    /\ At(line[e], Answering) = {}
    /\ NotAsked(e) /\ NotAtPeer(e)

Phase(e) == \/ Nothing(e) \/ AskedOnly(e) \/ InputOnly(e)
            \/ BusyOnly(e) \/ AnswerOnly(e) \/ AnsqOnly(e)

Rest(e) ==
    /\ prog[e] # "await" => Arrived(e) = sent[e] /\ Room(e)
    /\ Arrived(e) \in {sent[e], sent[e] + 1}
    /\ total[Peer(e)] < Capacity[Peer(e)] + MTU
    /\ Clean(line[Peer(e)])

Direction(e) == intact[e] => Rest(e) /\ Phase(e)

Inv == OrderInv /\ \A e \in End : Direction(e)

(* The list y has no more of the types than x has, if x has one at most.   *)
Fewer(x, y, types) ==
    /\ At(x, types) = {} => At(y, types) = {}
    /\ \A i \in 1 .. Len(x) : At(x, types) = {i} =>
          \/ At(y, types) = {}
          \/ \E j \in 1 .. Len(y) :
                At(y, types) = {j} /\ y[j].type = x[i].type /\ y[j].chunk = x[i].chunk

LEMMA KeptFewer ==
    ASSUME NEW types, NEW x \in Seq(Packet), NEW y \in Seq(Packet), Kept(x, y, types)
    PROVE  Fewer(x, y, types) /\ (Clean(x) => Clean(y))
<1>1. Len(x) \in Nat /\ Len(y) \in Nat
  BY LenProperties
<1>2. PICK n \in {0, 1} : \A i \in 1 .. Len(y) :
         y[i].type \in types \/ y[i].damaged => i + n \in 1 .. Len(x) /\ y[i] = x[i + n]
  BY DEF Kept
<1>3. \A j \in At(y, types) : j \in 1 .. Len(y) /\ j + n \in At(x, types) /\ y[j] = x[j + n]
  BY <1>2 DEF At
<1>4. ASSUME NEW i \in 1 .. Len(x), At(x, types) = {i}, At(y, types) # {}
      PROVE  \E j \in 1 .. Len(y) :
                At(y, types) = {j} /\ y[j].type = x[i].type /\ y[j].chunk = x[i].chunk
  <2>1. PICK j \in At(y, types) : TRUE
    BY <1>4
  <2>2. j \in 1 .. Len(y) /\ j + n = i /\ y[j] = x[i]
    BY <1>3, <1>4
  <2>3. \A k \in At(y, types) : k = j
    <3>1. TAKE k \in At(y, types)
    <3>2. k \in 1 .. Len(y) /\ k + n = i
      BY <1>3, <1>4
    <3>3. QED
      BY <1>1, <2>2, <3>2
  <2>4. QED
    BY <2>1, <2>2, <2>3
<1>5. At(x, types) = {} => At(y, types) = {}
  BY <1>3
<1>6. Clean(x) => Clean(y)
  BY <1>2 DEF Clean
<1>7. QED
  BY <1>4, <1>5, <1>6 DEF Fewer

LineLess(e) ==
    LET p == Peer(e)
    IN  /\ Fewer(line[p], line'[p], Asking) /\ Fewer(line[e], line'[e], Answering)
        /\ Clean(line[p]) => Clean(line'[p])

(* The steps of a direction that move nothing on: what is there stays or   *)
(* goes away. *)
Less(e) ==
    LET p == Peer(e)
    IN  /\ LineLess(e)
        /\ input'[p] = input[p] /\ incoming'[p] = incoming[p] /\ busy'[p] = busy[p]
        /\ ansq'[e] = ansq[e] \/ ansq'[e] \notin Answering
        /\ sent'[e] = sent[e]
        /\ Arrived(e)' = Arrived(e) /\ total'[p] <= total[p]
        /\ prog'[e] = prog[e] \/ {prog[e], prog'[e]} \intersect {"await", "connecting"} = {}
        /\ reader'[p] = "room" => reader[p] = "room" \/ Room(e)'
        /\ intact'[e] => intact[e]

LEMMA LessDirection ==
    ASSUME TypeOK, TypeOK', NEW e \in End, Direction(e), Less(e)
    PROVE  Direction(e)'
<1> SUFFICES ASSUME intact'[e] PROVE Rest(e)' /\ Phase(e)'
  BY DEF Direction
<1> DEFINE p == Peer(e)
<1>0. intact[e] /\ Rest(e) /\ Phase(e)
  BY DEF Direction, Less
<1>1. p \in End /\ Peer(e)' = p
  BY Ends DEF Peer
<1>2. /\ Capacity[p] \in Nat /\ MTU \in Nat
      /\ total[p] \in Nat /\ total'[p] \in Nat /\ total'[p] <= total[p]
      /\ Room(e) => Room(e)'
  <2>1. Capacity[p] \in Nat /\ MTU \in Nat /\ total[p] \in Nat /\ total'[p] \in Nat
    BY <1>1, CapacityAssumption, SizeAssumption DEF TypeOK
  <2>2. QED
    BY <1>1, <2>1 DEF Room, Less
<1>3. Rest(e)'
  <2>1. total'[p] < Capacity[p] + MTU
    BY <1>0, <1>2 DEF Rest
  <2>2. prog'[e] # "await" => prog[e] # "await"
    BY DEF Less
  <2>3. QED
    BY <1>0, <1>1, <1>2, <2>1, <2>2 DEF Rest, Less, LineLess
<1>4. /\ NotAsked(e) => NotAsked(e)'
      /\ NotAnswered(e) => NotAnswered(e)'
      /\ NotAtPeer(e) => NotAtPeer(e)'
  BY <1>1 DEF NotAsked, NotAnswered, NotAtPeer, Less, LineLess, Fewer
<1>5. ASSUME prog[e] \in {"await", "connecting"}
      PROVE  /\ prog'[e] = prog[e]
             /\ Delivers(e) => Delivers(e)'
             /\ Delivered(e) => Delivered(e)'
  BY <1>5 DEF Less, Delivers, Delivered
<1>6. CASE Nothing(e)
  BY <1>3, <1>4, <1>6 DEF Phase, Nothing
<1>7. CASE AskedOnly(e)
  <2>1. PICK i \in 1 .. Len(line[p]) : At(line[p], Asking) = {i} /\ MeansAsked(e, line[p][i])
    BY <1>7 DEF AskedOnly
  <2>2. NotAnswered(e)' /\ NotAtPeer(e)'
    BY <1>4, <1>7 DEF AskedOnly
  <2>3. CASE At(line'[p], Asking) = {}
    BY <1>1, <1>3, <2>2, <2>3 DEF Phase, Nothing, NotAsked
  <2>4. CASE At(line'[p], Asking) # {}
    <3>1. PICK j \in 1 .. Len(line'[p]) :
             /\ At(line'[p], Asking) = {j}
             /\ line'[p][j].type = line[p][i].type /\ line'[p][j].chunk = line[p][i].chunk
      BY <2>1, <2>4 DEF Less, LineLess, Fewer
    <3>2. Room(e)' /\ sent'[e] = sent[e]
      BY <1>2, <2>1 DEF MeansAsked, Less
    <3>3. ASSUME line'[p][j].type = "DATA"
          PROVE  Delivers(e)' /\ line'[p][j].chunk = sent'[e] + 1
      <4>1. line[p][i].type = "DATA" /\ line'[p][j].chunk = line[p][i].chunk
        BY <3>1, <3>3
      <4>2. Delivers(e) /\ line[p][i].chunk = sent[e] + 1
        BY <2>1, <4>1 DEF MeansAsked
      <4>3. Delivers(e)'
        BY <1>5, <4>2 DEF Delivers
      <4>4. QED
        BY <3>2, <4>1, <4>2, <4>3
    <3>4. ASSUME line'[p][j].type = "HANDSHAKE" PROVE prog'[e] = "connecting"
      <4>1. prog[e] = "connecting"
        BY <2>1, <3>1, <3>4 DEF MeansAsked
      <4>2. QED
        BY <1>5, <4>1
    <3>5. AskedOnly(e)'
      BY <1>1, <2>2, <3>1, <3>2, <3>3, <3>4 DEF AskedOnly, MeansAsked
    <3>6. QED
      BY <1>3, <3>5 DEF Phase
  <2>5. QED
    BY <2>3, <2>4
<1>8. CASE InputOnly(e)
  <2>1. prog[e] = "await" /\ NotAsked(e)' /\ NotAnswered(e)'
    BY <1>4, <1>8 DEF InputOnly, Delivers, Delivered
  <2>2. InputOnly(e)'
    BY <1>1, <1>2, <1>5, <1>8, <2>1 DEF InputOnly, Less
  <2>3. QED
    BY <1>3, <2>2 DEF Phase
<1>9. CASE BusyOnly(e)
  <2>1. prog[e] = "await" /\ NotAsked(e)' /\ NotAnswered(e)'
    BY <1>4, <1>9 DEF BusyOnly, Delivered
  <2>2. BusyOnly(e)'
    BY <1>1, <1>2, <1>5, <1>9, <2>1 DEF BusyOnly, Less
  <2>3. QED
    BY <1>3, <2>2 DEF Phase
<1>10. CASE AnswerOnly(e)
  <2>1. PICK i \in 1 .. Len(line[e]) :
           At(line[e], Answering) = {i} /\ MeansAnswer(e, line[e][i].type)
    BY <1>10 DEF AnswerOnly
  <2>2. NotAsked(e)' /\ NotAtPeer(e)' /\ ansq'[e] \notin Answering
    BY <1>4, <1>10 DEF AnswerOnly, Less
  <2>3. CASE At(line'[e], Answering) = {}
    BY <1>3, <2>2, <2>3 DEF Phase, Nothing, NotAnswered
  <2>4. CASE At(line'[e], Answering) # {}
    <3>1. PICK j \in 1 .. Len(line'[e]) :
             At(line'[e], Answering) = {j} /\ line'[e][j].type = line[e][i].type
      BY <2>1, <2>4 DEF Less, LineLess, Fewer
    <3>2. /\ Room(e)'
          /\ line'[e][j].type = "ACK" => Delivered(e)' \/ prog'[e] = "connecting"
          /\ line'[e][j].type = "REPEAT" => Delivers(e)'
      <4>1. MeansAnswer(e, line'[e][j].type)
        BY <2>1, <3>1
      <4>2. Delivered(e) => prog[e] = "await" /\ Delivered(e)'
        BY <1>5 DEF Delivered
      <4>3. Delivers(e) => Delivers(e)'
        BY <1>5 DEF Delivers
      <4>4. QED
        BY <1>2, <1>5, <4>1, <4>2, <4>3 DEF MeansAnswer
    <3>3. AnswerOnly(e)'
      BY <2>2, <3>1, <3>2 DEF AnswerOnly, MeansAnswer
    <3>4. QED
      BY <1>3, <3>3 DEF Phase
  <2>5. QED
    BY <2>3, <2>4
<1>11. CASE AnsqOnly(e)
  <2>1. NotAsked(e)' /\ NotAtPeer(e)' /\ At(line'[e], Answering) = {}
    BY <1>4, <1>11 DEF AnsqOnly, Less, LineLess, Fewer
  <2>2. CASE ansq'[e] \notin Answering
    BY <1>3, <2>1, <2>2 DEF Phase, Nothing, NotAnswered
  <2>3. CASE ansq'[e] = ansq[e]
    <3>1. Room(e)' /\ (ansq[e] = "ACK" => Delivered(e)' \/ prog'[e] = "connecting")
          /\ (ansq[e] = "REPEAT" => Delivers(e)')
      BY <1>2, <1>5, <1>11 DEF AnsqOnly, MeansAnswer, Delivers, Delivered
    <3>2. AnsqOnly(e)'
      BY <1>11, <2>1, <2>3, <3>1 DEF AnsqOnly, MeansAnswer
    <3>3. QED
      BY <1>3, <3>2 DEF Phase
  <2>4. QED
    BY <2>2, <2>3 DEF Less
<1>12. QED
  BY <1>0, <1>6, <1>7, <1>8, <1>9, <1>10, <1>11 DEF Phase

(* What is sent, taken, answered and damaged.  A direction has less on its *)
(* lines, or the packet moves it on. *)
LEMMA SameLine ==
    ASSUME TypeOK, NEW e \in End, UNCHANGED line PROVE LineLess(e)
<1>1. Peer(e) \in End /\ line[e] \in Seq(Packet) /\ line[Peer(e)] \in Seq(Packet)
  BY Ends DEF TypeOK
<1>2. QED
  BY <1>1, SameKept, KeptFewer DEF LineLess

LEMMA SendsLess ==
    ASSUME TypeOK, NEW e \in End, NEW a \in End, NEW q \in Packet, Sends(a, q), ~ q.damaged,
           a = e => q.type \notin Asking, a = Peer(e) => q.type \notin Answering
    PROVE  LineLess(e)
<1>1. /\ Peer(e) \in End /\ Peer(e) # e
      /\ line[e] \in Seq(Packet) /\ line[Peer(e)] \in Seq(Packet)
      /\ line'[e] \in Seq(Packet) /\ line'[Peer(e)] \in Seq(Packet)
  BY Ends, SendsLine DEF TypeOK
<1>2. Kept(line[Peer(e)], line'[Peer(e)], Asking)
  BY <1>1, SendsKept, Ends
<1>3. Kept(line[e], line'[e], Answering)
  BY <1>1, SendsKept, Ends
<1>4. QED
  BY <1>1, <1>2, <1>3, KeptFewer DEF LineLess

LEMMA TakesLess ==
    ASSUME TypeOK, NEW e \in End, NEW a \in End, line[a] # <<>>, Takes(a)
    PROVE  LineLess(e)
<1>1. /\ Peer(e) \in End
      /\ line[e] \in Seq(Packet) /\ line[Peer(e)] \in Seq(Packet)
      /\ line'[e] \in Seq(Packet) /\ line'[Peer(e)] \in Seq(Packet)
  BY Ends, TakesLine DEF TypeOK
<1>2. Kept(line[Peer(e)], line'[Peer(e)], Asking)
  BY <1>1, TakesKept
<1>3. Kept(line[e], line'[e], Answering)
  BY TakesKept
<1>4. QED
  BY <1>1, <1>2, <1>3, KeptFewer DEF LineLess

LEMMA RepliesLess ==
    ASSUME TypeOK, NEW e \in End, NEW a \in End, line[a] # <<>>, NEW type \in Type,
           Replies(a, type),
           a = e => type \notin Asking, a = Peer(e) => type \notin Answering
    PROVE  LineLess(e)
<1>1. /\ Peer(e) \in End /\ Peer(e) # e
      /\ line[e] \in Seq(Packet) /\ line[Peer(e)] \in Seq(Packet)
      /\ line'[e] \in Seq(Packet) /\ line'[Peer(e)] \in Seq(Packet)
  BY Ends, RepliesLine DEF TypeOK
<1>2. Kept(line[Peer(e)], line'[Peer(e)], Asking)
  BY <1>1, RepliesKept, Ends
<1>3. Kept(line[e], line'[e], Answering)
  BY <1>1, RepliesKept, Ends
<1>4. QED
  BY <1>1, <1>2, <1>3, KeptFewer DEF LineLess

LEMMA DamageLess ==
    ASSUME TypeOK, NEW e \in End, NEW a \in End, NEW i \in 1 .. Len(line[a]),
           line' = [line EXCEPT ![a][i].damaged = TRUE],
           a = Peer(e) => line[a][i].type = "DATA"
    PROVE  LineLess(e)
<1>1. Peer(e) \in End /\ Peer(e) # e
  BY Ends
<1>2. ASSUME NEW b \in End, NEW types PROVE Fewer(line[b], line'[b], types)
  <2>1. line[b] \in Seq(Packet)
    BY DEF TypeOK
  <2>2. /\ Len(line'[b]) = Len(line[b])
        /\ \A j \in 1 .. Len(line[b]) :
              line'[b][j].type = line[b][j].type /\ line'[b][j].chunk = line[b][j].chunk
    BY DamagedLine, Ends
  <2>3. At(line'[b], types) = At(line[b], types)
    BY <2>2 DEF At
  <2>4. QED
    BY <2>2, <2>3 DEF Fewer
<1>3. ASSUME Clean(line[Peer(e)]) PROVE Clean(line'[Peer(e)])
  BY <1>1, <1>3, DamagedLine, Ends DEF Clean
<1>4. QED
  BY <1>1, <1>2, <1>3 DEF LineLess

LEMMA AddedOne ==
    ASSUME NEW types, NEW x \in Seq(Packet), NEW y, NEW q, q.type \in types,
           Len(y) = Len(x) + 1, \A i \in 1 .. Len(x) : y[i] = x[i], y[Len(x) + 1] = q,
           At(x, types) = {}
    PROVE  \E i \in 1 .. Len(y) : At(y, types) = {i} /\ y[i] = q
<1>1. Len(x) \in Nat
  BY LenProperties
<1>2. \A i \in 1 .. Len(y) : i \in 1 .. Len(x) \/ i = Len(x) + 1
  BY <1>1
<1>3. \A i \in 1 .. Len(x) : y[i].type \notin types
  BY DEF At
<1>4. Len(x) + 1 \in 1 .. Len(y)
  BY <1>1
<1>5. At(y, types) = {Len(x) + 1}
  BY <1>2, <1>3, <1>4 DEF At
<1>6. QED
  BY <1>4, <1>5

LEMMA TakenNone ==
    ASSUME NEW types, NEW x \in Seq(Packet), x # <<>>, NEW y, Len(y) = Len(x) - 1,
           \A i \in 1 .. Len(y) : y[i] = x[i + 1],
           NEW k, At(x, types) = {k}, x[1].type \in types
    PROVE  k = 1 /\ At(y, types) = {}
<1>1. Len(x) \in Nat /\ 1 \in 1 .. Len(x)
  BY LenProperties, EmptySeq
<1>2. k = 1
  BY <1>1 DEF At
<1>3. \A i \in 1 .. Len(y) : i + 1 \in 1 .. Len(x) /\ i + 1 # 1
  BY <1>1
<1>4. At(y, types) = {}
  <2>1. SUFFICES ASSUME NEW i \in 1 .. Len(y), y[i].type \in types PROVE FALSE
    BY DEF At
  <2>2. i + 1 \in At(x, types)
    BY <1>3, <2>1 DEF At
  <2>3. QED
    BY <1>2, <1>3, <2>2
<1>5. QED
  BY <1>2, <1>4

(* What has come and what is told stay what they are. *)
LEMMA SameRest ==
    ASSUME NEW e \in End, Rest(e), Clean(line'[Peer(e)]),
           rxbuf'[Peer(e)] = rxbuf[Peer(e)], total'[Peer(e)] = total[Peer(e)],
           got'[Peer(e)] = got[Peer(e)], prog'[e] = prog[e], sent'[e] = sent[e]
    PROVE  /\ Rest(e)' /\ Room(e)' = Room(e)
           /\ Delivers(e)' = Delivers(e) /\ Delivered(e)' = Delivered(e)
<1>1. Peer(e)' = Peer(e)
  BY DEF Peer
<1>2. Arrived(e)' = Arrived(e)
  BY <1>1 DEF Arrived, Last
<1>3. Room(e)' = Room(e)
  BY <1>1 DEF Room
<1>4. Delivers(e)' = Delivers(e) /\ Delivered(e)' = Delivered(e)
  BY <1>2 DEF Delivers, Delivered
<1>5. QED
  BY <1>1, <1>2, <1>3, <1>4 DEF Rest

LEMMA SameArrived ==
    ASSUME TypeOK, NEW e \in End, rxbuf'[Peer(e)] = rxbuf[Peer(e)],
           total'[Peer(e)] = total[Peer(e)], got'[Peer(e)] = got[Peer(e)]
    PROVE  /\ Arrived(e)' = Arrived(e) /\ total'[Peer(e)] <= total[Peer(e)]
           /\ Room(e)' = Room(e)
<1>1. Peer(e)' = Peer(e) /\ Peer(e) \in End
  BY Ends DEF Peer
<1>2. total[Peer(e)] \in Nat
  BY <1>1 DEF TypeOK
<1>3. QED
  BY <1>1, <1>2 DEF Arrived, Last, Room

(* A packet that is sent, and is not for this direction. *)
LEMMA OtherProgram ==
    ASSUME OrderInv, TypeOK', NEW e \in End, Direction(e), NEW a \in End,
           \/ Connect(a) \/ Bind(a) \/ RegistersAgain(a) \/ ClosePort(a) \/ SendBind(a)
           \/ /\ a = Peer(e)
              /\ \/ SendHandshake(a) \/ Connected(a) \/ ConnectFails(a) \/ ConnectTimeout(a)
                 \/ Send(a) \/ SendAgain(a) \/ Acknowledged(a) \/ AskedAgain(a)
                 \/ SendFails(a) \/ SendTimeout(a)
    PROVE  Direction(e)'
<1> DEFINE p == Peer(e)
<1>0. TypeOK /\ p \in End /\ p # e /\ port[a] \in Ports
  BY Ends DEF OrderInv, TypeOK
<1>1. UNCHANGED <<bufferVars, got, input, incoming, reader, busy>>
  BY DEF Connect, Bind, Registers, RegistersAgain, ClosePort, SendBind, SendHandshake, Connected, ConnectFails, ConnectTimeout,
         Send, SendAgain, SendsChunk, Acknowledged, AskedAgain, SendFails, SendTimeout,
         inputVars, socketVars, historyVars
<1>2. /\ ansq'[e] = ansq[e] \/ ansq'[e] = None
      /\ prog'[e] = prog[e] \/ {prog[e], prog'[e]} \intersect {"await", "connecting"} = {}
      /\ sent'[e] = sent[e]
      /\ intact'[e] => intact[e]
  <2> DEFINE Quiet == \/ Connect(a) \/ Bind(a) \/ RegistersAgain(a) \/ ClosePort(a)
                      \/ SendBind(a)
  <2>1. CASE Quiet
    <3>1. /\ \E at \in {"connect", "bind", "closing", "idle"} : prog' = [prog EXCEPT ![a] = at]
          /\ prog[a] \in {"idle", "closing", "bind"}
          /\ UNCHANGED <<sent, intact>>
      BY <2>1 DEF Connect, Bind, Registers, RegistersAgain, ClosePort, SendBind, Goes, historyVars
    <3>2. ansq' = ansq \/ ansq' = [ansq EXCEPT ![a] = None]
      BY <2>1 DEF Connect, Bind, Registers, RegistersAgain, ClosePort, SendBind
    <3>3. prog \in [End -> ProgAt] /\ ansq \in [End -> (Type \ {"DATA", "BUSY"}) \union {None}]
      BY <1>0 DEF TypeOK
    <3>4. QED
      BY <1>0, <3>1, <3>2, <3>3
  <2>2. CASE ~ Quiet
    BY <1>0, <2>2
    DEF SendHandshake, Connected, ConnectFails, ConnectTimeout, Send, SendAgain, SendsChunk,
        Acknowledged, AskedAgain, SendFails, SendTimeout, Goes, Broken, TypeOK,
        socketVars, historyVars
  <2>3. QED
    BY <2>1, <2>2
<1>3. LineLess(e)
  <2>1. \/ UNCHANGED line
        \/ Sends(a, PacketOf("BIND", port[a]))
        \/ a = p /\ Sends(a, PacketOf("HANDSHAKE", port[a]))
        \/ a = p /\ Sends(a, [PacketOf("DATA", port[a]) EXCEPT !.chunk = sent[a] + 1])
    BY DEF Connect, Bind, Registers, RegistersAgain, ClosePort, SendBind, SendHandshake, Connected, ConnectFails,
           ConnectTimeout, Send, SendAgain, SendsChunk, Acknowledged, AskedAgain,
           SendFails, SendTimeout
  <2>2. CASE UNCHANGED line
    BY <1>0, <2>2, SameLine
  <2>3. ASSUME NEW q \in Packet, Sends(a, q), ~ q.damaged,
               q.type = "BIND" \/ (a = p /\ q.type \in {"HANDSHAKE", "DATA"})
        PROVE  LineLess(e)
    BY <1>0, <2>3, SendsLess DEF Asking, Answering
  <2>4. CASE Sends(a, PacketOf("BIND", port[a]))
    BY <1>0, <2>3, <2>4, PacketOfType DEF Type
  <2>5. CASE a = p /\ Sends(a, PacketOf("HANDSHAKE", port[a]))
    BY <1>0, <2>3, <2>5, PacketOfType DEF Type
  <2>6. CASE a = p /\ Sends(a, [PacketOf("DATA", port[a]) EXCEPT !.chunk = sent[a] + 1])
    <3>1. sent[a] + 1 \in Nat
      <4>1. sent \in [End -> Nat]
        BY <1>0 DEF TypeOK
      <4>2. sent[a] \in Nat
        BY <4>1
      <4>3. QED
        BY <4>2
    <3>2. QED
      BY <1>0, <2>3, <2>6, <3>1, ChunkPacket
  <2>7. QED
    BY <2>1, <2>2, <2>4, <2>5, <2>6
<1>4. None \notin Answering
  BY DEF None, Answering
<1>5. Less(e)
  BY <1>0, <1>1, <1>2, <1>3, <1>4, SameArrived DEF Less
<1>6. QED
  BY <1>0, <1>5, LessDirection

(* e sends; before that there is nothing. *)
LEMMA DirectionSend ==
    ASSUME OrderInv, TypeOK', NEW e \in End, Direction(e),
           Send(e) \/ SendAgain(e) \/ SendHandshake(e)
    PROVE  Direction(e)'
<1> SUFFICES ASSUME intact'[e] PROVE Rest(e)' /\ Phase(e)'
  BY DEF Direction
<1> DEFINE p == Peer(e)
<1>0. TypeOK /\ p \in End /\ p # e /\ Peer(e)' = p /\ Peer(p) = e
      /\ port[e] \in Ports
  BY Ends DEF OrderInv, Peer, TypeOK
<1>1. /\ UNCHANGED <<bufferVars, got, input, incoming, reader, busy, sent, intact>>
      /\ prog[e] \in {"idle", "again", "connect"}
      /\ ansq'[e] = ansq[e] \/ ansq'[e] = None
      /\ prog'[e] \in {"await", "connecting"}
  BY <1>0 DEF Send, SendAgain, SendsChunk, SendHandshake, Goes, TypeOK, inputVars, historyVars
<1>2. Rest(e) /\ Phase(e) /\ prog[e] # "await"
  BY <1>1 DEF Direction
<1>3. Nothing(e)
  <2>1. ~ AskedOnly(e)
    <3>1. SUFFICES ASSUME AskedOnly(e) PROVE FALSE
      OBVIOUS
    <3>2. PICK i \in 1 .. Len(line[p]) : At(line[p], Asking) = {i} /\ MeansAsked(e, line[p][i])
      BY <3>1 DEF AskedOnly
    <3>3. line[p][i].type \in Asking
      BY <3>2 DEF At
    <3>4. QED
      BY <1>1, <3>2, <3>3 DEF MeansAsked, Delivers, Asking
  <2>2. ~ AnswerOnly(e)
    <3>1. SUFFICES ASSUME AnswerOnly(e) PROVE FALSE
      OBVIOUS
    <3>2. PICK i \in 1 .. Len(line[e]) :
             At(line[e], Answering) = {i} /\ MeansAnswer(e, line[e][i].type)
      BY <3>1 DEF AnswerOnly
    <3>3. line[e][i].type \in Answering
      BY <3>2 DEF At
    <3>4. QED
      BY <1>1, <3>2, <3>3 DEF MeansAnswer, Delivers, Delivered, Answering
  <2>3. ~ InputOnly(e) /\ ~ BusyOnly(e) /\ ~ AnsqOnly(e)
    BY <1>1 DEF InputOnly, BusyOnly, AnsqOnly, MeansAnswer, Delivers, Delivered, Answering
  <2>4. QED
    BY <1>2, <2>1, <2>2, <2>3 DEF Phase
<1>4. PICK q \in Packet :
         /\ Sends(e, q) /\ ~ q.damaged
         /\ \/ q.type = "DATA" /\ q.chunk = sent[e] + 1 /\ prog'[e] = "await"
            \/ q.type = "HANDSHAKE" /\ prog'[e] = "connecting"
  <2>1. CASE Send(e) \/ SendAgain(e)
    <3>1. sent \in [End -> Nat] /\ prog \in [End -> ProgAt]
      BY <1>0 DEF TypeOK
    <3>2. sent[e] + 1 \in Nat
      BY <3>1
    <3>3. /\ prog'[e] = "await"
          /\ Sends(e, [PacketOf("DATA", port[e]) EXCEPT !.chunk = sent[e] + 1])
      BY <2>1, <3>1 DEF Send, SendAgain, SendsChunk, Goes
    <3>4. QED
      BY <1>0, <3>2, <3>3, ChunkPacket
  <2>2. CASE SendHandshake(e)
    <3>1. prog'[e] = "connecting" /\ Sends(e, PacketOf("HANDSHAKE", port[e])) /\ "HANDSHAKE" \in Type
      BY <1>0, <2>2 DEF SendHandshake, Goes, TypeOK, Type
    <3>2. QED
      BY <1>0, <3>1, PacketOfType
  <2>3. QED
    BY <2>1, <2>2
<1>5. /\ line'[e] = line[e] /\ line[p] \in Seq(Packet) /\ line'[p] \in Seq(Packet)
      /\ Len(line'[p]) = Len(line[p]) + 1
      /\ \A i \in 1 .. Len(line[p]) : line'[p][i] = line[p][i]
      /\ line'[p][Len(line[p]) + 1] = q
  BY <1>0, <1>4, SendsLine DEF TypeOK
<1>6. PICK i \in 1 .. Len(line'[p]) : At(line'[p], Asking) = {i} /\ line'[p][i] = q
  <2>1. q.type \in Asking /\ At(line[p], Asking) = {}
    BY <1>3, <1>4 DEF Asking, Nothing, NotAsked
  <2> DEFINE x == line[p]
             y == line'[p]
  <2>2. /\ x \in Seq(Packet) /\ Len(y) = Len(x) + 1 /\ \A i \in 1 .. Len(x) : y[i] = x[i]
        /\ y[Len(x) + 1] = q /\ At(x, Asking) = {}
    BY <1>5, <2>1
  <2> HIDE DEF x, y
  <2>3. \E i \in 1 .. Len(y) : At(y, Asking) = {i} /\ y[i] = q
    BY <2>1, <2>2, AddedOne
  <2>4. QED
    BY <2>3 DEF y
<1>7. Clean(line'[p])
  <2>1. Kept(line[p], line'[p], {})
    BY <1>0, <1>4, SendsKept
  <2>2. Clean(line[p]) => Clean(line'[p])
    BY <1>5, <2>1, KeptFewer
  <2>3. QED
    BY <1>2, <2>2 DEF Rest
<1>8. Arrived(e)' = Arrived(e) /\ Room(e)' = Room(e)
  BY <1>0, <1>1, SameArrived
<1>9. Rest(e)'
  BY <1>0, <1>1, <1>2, <1>7, <1>8 DEF Rest
<1>10. AskedOnly(e)'
  <2>1. Arrived(e)' = sent'[e] /\ Room(e)'
    BY <1>1, <1>2, <1>8 DEF Rest
  <2>2. /\ Room(e)'
        /\ line'[p][i].type = "DATA" => Delivers(e)' /\ line'[p][i].chunk = sent'[e] + 1
        /\ line'[p][i].type = "HANDSHAKE" => prog'[e] = "connecting"
    BY <1>1, <1>4, <1>6, <2>1 DEF Delivers
  <2>3. NotAnswered(e)' /\ NotAtPeer(e)'
    BY <1>0, <1>1, <1>3, <1>5 DEF Nothing, NotAnswered, NotAtPeer, None, Answering
  <2>4. QED
    BY <1>0, <1>6, <2>2, <2>3 DEF AskedOnly, MeansAsked
<1>11. QED
  BY <1>9, <1>10 DEF Phase

(* e takes its answer from ansq. *)
LEMMA DirectionTold ==
    ASSUME OrderInv, TypeOK', NEW e \in End, Direction(e),
           Connected(e) \/ Acknowledged(e) \/ AskedAgain(e)
    PROVE  Direction(e)'
<1> SUFFICES ASSUME intact'[e] PROVE Rest(e)' /\ Phase(e)'
  BY DEF Direction
<1> DEFINE p == Peer(e)
<1>0. TypeOK /\ p \in End /\ Peer(e)' = p /\ sent[e] \in Nat
  BY Ends DEF OrderInv, Peer, TypeOK
<1>1. /\ UNCHANGED <<line, bufferVars, got, input, incoming, reader, busy, intact>>
      /\ ansq[e] \in Answering /\ ansq'[e] = None /\ prog'[e] \in {"idle", "again"}
  BY <1>0 DEF Connected, Acknowledged, AskedAgain, Goes, TypeOK, inputVars, historyVars, Answering
<1>2. Rest(e) /\ Phase(e)
  BY <1>1 DEF Direction
<1>3. AnsqOnly(e)
  BY <1>1, <1>2 DEF Phase, Nothing, AskedOnly, InputOnly, BusyOnly, AnswerOnly, NotAnswered
<1>4. Nothing(e)'
  BY <1>0, <1>1, <1>3 DEF AnsqOnly, Nothing, NotAsked, NotAnswered, NotAtPeer, None, Answering
<1>5. Arrived(e)' = Arrived(e) /\ Room(e)' = Room(e)
  BY <1>0, <1>1, SameArrived
<1>6. Arrived(e) = sent'[e]
  <2>1. CASE Connected(e)
    BY <1>2, <2>1 DEF Rest, Connected, historyVars
  <2>2. CASE Acknowledged(e)
    BY <1>0, <1>3, <2>2 DEF AnsqOnly, MeansAnswer, Delivered, Acknowledged, TypeOK
  <2>3. CASE AskedAgain(e)
    BY <1>3, <2>3 DEF AnsqOnly, MeansAnswer, Delivers, AskedAgain, historyVars
  <2>4. QED
    BY <2>1, <2>2, <2>3
<1>7. Rest(e)'
  BY <1>0, <1>1, <1>2, <1>3, <1>5, <1>6 DEF Rest, AnsqOnly, MeansAnswer
<1>8. QED
  BY <1>4, <1>7 DEF Phase

(* The steps after which e is not intact. *)
LEMMA DirectionBroken ==
    ASSUME OrderInv, NEW e \in End, NEW a \in End,
           \/ Disconnect(a)
           \/ a = e /\ (ConnectFails(a) \/ ConnectTimeout(a) \/ SendFails(a) \/ SendTimeout(a))
    PROVE  Direction(e)'
<1>1. ~ intact'[e]
  BY DEF Disconnect, ConnectFails, ConnectTimeout, SendFails, SendTimeout, Broken
<1>2. QED
  BY <1>1 DEF Direction

(* The tasks that receive. *)
LEMMA ReadArrived ==
    ASSUME TypeOK, NEW e \in End, ReadBytes(Peer(e))
    PROVE  Arrived(e)' = Arrived(e) /\ total'[Peer(e)] <= total[Peer(e)]
<1> DEFINE p == Peer(e)
           b == rxbuf[p]
           t == rxbuf'[p]
<1>1. p \in End /\ Peer(e)' = p
  BY Ends DEF Peer
<1>2. PICK k \in 0 .. Len(b) :
         /\ t \in Seq(Nat \ {0}) /\ Len(t) = Len(b) - k
         /\ \A i \in 1 .. Len(t) : t[i] = b[i + k]
         /\ got' = IF k = 0 THEN got ELSE [got EXCEPT ![p] = b[k]]
  BY <1>1, ReadLeaves
<1>3. Arrived(e) = Last(b, got[p]) /\ Arrived(e)' = Last(t, got'[p])
  BY <1>1 DEF Arrived, Last
<1>4. got \in [End -> Nat] /\ b \in Seq(Nat \ {0}) /\ total'[p] <= total[p]
  BY <1>1, ReadLeaves DEF TypeOK
<1> HIDE DEF b, t
<1>5. /\ Len(b) \in Nat /\ Len(t) \in Nat
      /\ (b = <<>> <=> Len(b) = 0) /\ (t = <<>> <=> Len(t) = 0)
  BY <1>2, <1>4, LenProperties, EmptySeq
<1>6. CASE t # <<>>
  <2>1. Len(t) \in 1 .. Len(t) /\ Len(t) + k = Len(b) /\ b # <<>>
    BY <1>2, <1>5, <1>6
  <2>2. t[Len(t)] = b[Len(b)]
    BY <1>2, <2>1
  <2>3. QED
    BY <1>3, <1>4, <1>6, <2>1, <2>2 DEF Last
<1>7. CASE t = <<>> /\ b # <<>>
  <2>1. k = Len(b) /\ k # 0
    BY <1>2, <1>5, <1>7
  <2>2. got'[p] = b[Len(b)]
    BY <1>1, <1>2, <1>4, <2>1
  <2>3. QED
    BY <1>3, <1>4, <1>7, <2>2 DEF Last
<1>8. CASE t = <<>> /\ b = <<>>
  <2>1. k = 0
    BY <1>2, <1>5, <1>8
  <2>2. got'[p] = got[p]
    BY <1>2, <2>1
  <2>3. QED
    BY <1>3, <1>4, <1>8, <2>2 DEF Last
<1>9. QED
  BY <1>6, <1>7, <1>8

LEMMA DirectionReader ==
    ASSUME OrderInv, TypeOK', NEW e \in End, Direction(e), NEW a \in End,
           \/ ReadBytes(a) \/ RecvTimeout(a) \/ CheckRoom(a)
           \/ a = e /\ ResumeSender(a)
    PROVE  Direction(e)'
<1> SUFFICES ASSUME intact'[e] PROVE Direction(e)'
  BY DEF Direction
<1> DEFINE p == Peer(e)
<1>0. TypeOK /\ p \in End /\ p # e /\ Peer(e)' = p /\ port[e] \in Ports
  BY Ends DEF OrderInv, Peer, TypeOK
<1>1. UNCHANGED <<ansq, prog, sent, input, incoming>>
  BY DEF ReadBytes, RecvTimeout, CheckRoom, ResumeSender, inputVars
<1>2. LineLess(e)
  <2>1. CASE ReadBytes(a) \/ RecvTimeout(a) \/ CheckRoom(a)
    <3>1. UNCHANGED line
      BY <2>1 DEF ReadBytes, RecvTimeout, CheckRoom
    <3>2. QED
      BY <1>0, <3>1, SameLine
  <2>2. CASE a = e /\ ResumeSender(a)
    <3>1. Sends(e, PacketOf("ACK", port[e])) /\ "ACK" \in Type
      BY <2>2 DEF ResumeSender, Type
    <3>2. QED
      BY <1>0, <3>1, PacketOfType, SendsLess DEF Asking
  <2>3. QED
    BY <2>1, <2>2
<1>3. busy'[p] = busy[p] /\ intact[e]
  BY <1>0 DEF ReadBytes, RecvTimeout, CheckRoom, ResumeSender, RecvEnds, Broken, TypeOK
<1>4. /\ Arrived(e)' = Arrived(e) /\ total'[p] <= total[p]
      /\ reader'[p] = "room" => reader[p] = "room" \/ Room(e)'
  <2>1. CASE ReadBytes(a) /\ a = p
    <3>1. reader'[p] # "room"
      BY <1>0, <2>1 DEF TypeOK, ReadBytes
    <3>2. QED
      BY <1>0, <2>1, <3>1, ReadArrived
  <2>2. CASE a = e
    <3>1. /\ rxbuf'[p] = rxbuf[p] /\ total'[p] = total[p]
          /\ got'[p] = got[p] /\ reader'[p] = reader[p]
      <4>1. CASE ReadBytes(a)
        <5>1. rxbuf'[p] = rxbuf[p] /\ got'[p] = got[p] /\ total'[p] = total[p]
          <6>1. rxbuf \in [End -> Seq(Nat \ {0})] /\ got \in [End -> Nat] /\ a \in End /\ p # a
            BY <1>0, <2>2 DEF TypeOK
          <6>2. QED
            BY <1>0, <4>1, <6>1, ReadLeaves
        <5>2. QED
          BY <1>0, <2>2, <4>1, <5>1 DEF ReadBytes, TypeOK
      <4>2. CASE ~ ReadBytes(a)
        BY <1>0, <2>2, <4>2, ZenonT(30)
        DEF RecvTimeout, CheckRoom, ResumeSender, RecvEnds, Clears, TypeOK
      <4>3. QED
        BY <4>1, <4>2
    <3>2. QED
      BY <1>0, <3>1, SameArrived
  <2>3. CASE ~ ReadBytes(a) /\ a = p
    <3>1. /\ Peer(a) = e /\ rxbuf'[p] = rxbuf[p] /\ total'[p] = total[p]
          /\ got'[p] = got[p]
      BY <1>0, <2>3, Ends DEF RecvTimeout, CheckRoom, RecvEnds, Broken
    <3>2. reader'[p] = "room" => ~ Full(p)
      BY <1>0, <2>3 DEF RecvTimeout, CheckRoom, RecvEnds, TypeOK
    <3>3. Room(e) <=> ~ Full(p)
      <4>1. total[p] \in Nat /\ Capacity[p] \in Nat
        BY <1>0, CapacityAssumption DEF TypeOK
      <4>2. QED
        BY <4>1 DEF Room, Full
    <3>4. QED
      BY <1>0, <3>1, <3>2, <3>3, SameArrived
  <2>4. QED
    BY <1>0, <2>1, <2>2, <2>3, Ends
<1>5. Less(e)
  BY <1>1, <1>2, <1>3, <1>4 DEF Less
<1>6. QED
  BY <1>0, <1>5, LessDirection

(* The input thread of e, except for an answer that it puts in ansq. *)
LEMMA DirectionOwnInput ==
    ASSUME OrderInv, TypeOK', NEW e \in End, Direction(e),
           \/ ReceiveDamaged(e) \/ ReceiveUnregistered(e) \/ ReceiveBusy(e)
           \/ ReceiveBind(e) \/ ReceiveHandshake(e) \/ ReceiveData(e)
           \/ ReceiveAnswer(e) /\ ansq'[e] \notin Answering \ {ansq[e]}
           \/ StoreData(e) \/ AnswerAck(e) \/ FindFull(e) \/ AnswerBusy(e)
    PROVE  Direction(e)'
<1> DEFINE p == Peer(e)
<1>0. TypeOK /\ p \in End /\ p # e /\ Peer(e)' = p /\ answerTo[e] \in Ports
  BY Ends DEF OrderInv, Peer, TypeOK
<1>1. UNCHANGED <<got, prog, reader, sent, intact>>
  BY DEF ReceiveDamaged, ReceiveUnregistered, ReceiveAnswer, ReceiveBusy, ReceiveBind,
         ReceiveHandshake, ReceiveData, StoreData, AnswerAck, FindFull, AnswerBusy, Unread,
         programVars, historyVars
<1>2. /\ rxbuf'[p] = rxbuf[p] /\ total'[p] = total[p] /\ input'[p] = input[p] /\ incoming'[p] = incoming[p]
      /\ busy'[p] = busy[p]
  BY <1>0
  DEF ReceiveDamaged, ReceiveUnregistered, ReceiveAnswer, ReceiveBusy, ReceiveBind,
      ReceiveHandshake, ReceiveData, StoreData, AnswerAck, FindFull, AnswerBusy, Unread,
      inputVars, socketVars, TypeOK
<1>3. ansq'[e] = ansq[e] \/ ansq'[e] \notin Answering
  BY <1>0
  DEF ReceiveDamaged, ReceiveUnregistered, ReceiveBusy, ReceiveBind,
      ReceiveHandshake, ReceiveData, StoreData, AnswerAck, FindFull, AnswerBusy, Answered,
      socketVars, TypeOK, Answering
<1>4. LineLess(e)
  <2>1. \/ line[e] # <<>> /\ Takes(e)
        \/ line[e] # <<>> /\ \E type \in {"ACK", "NACK", "REPEAT"} : Replies(e, type)
        \/ \E type \in {"ACK", "BUSY"} : Sends(e, PacketOf(type, answerTo[e]))
        \/ UNCHANGED line
    BY DEF ReceiveDamaged, ReceiveUnregistered, ReceiveAnswer, ReceiveBusy, ReceiveBind,
           ReceiveHandshake, ReceiveData, StoreData, AnswerAck, FindFull, AnswerBusy, Receives
  <2>2. CASE line[e] # <<>> /\ Takes(e)
    BY <1>0, <2>2, TakesLess
  <2>3. ASSUME line[e] # <<>>, NEW type \in {"ACK", "NACK", "REPEAT"}, Replies(e, type)
        PROVE  LineLess(e)
    <3>1. type \in Type /\ type \notin Asking
      BY DEF Type, Asking
    <3>2. QED
      BY <1>0, <2>3, <3>1, RepliesLess
  <2>4. ASSUME NEW type \in {"ACK", "BUSY"}, Sends(e, PacketOf(type, answerTo[e])) PROVE LineLess(e)
    <3>1. type \in Type /\ type \notin Asking
      BY DEF Type, Asking
    <3>2. QED
      BY <1>0, <2>4, <3>1, PacketOfType, SendsLess
  <2>5. CASE UNCHANGED line
    BY <1>0, <2>5, SameLine
  <2>6. QED
    BY <2>1, <2>2, <2>3, <2>4, <2>5
<1>5. Less(e)
  BY <1>0, <1>1, <1>2, <1>3, <1>4, SameArrived DEF Less
<1>6. QED
  BY <1>0, <1>5, LessDirection

(* The input thread of the peer, which takes something else. *)
LEMMA DirectionPeerInput ==
    ASSUME OrderInv, TypeOK', NEW e \in End, Direction(e), NEW p, p = Peer(e),
           ReceiveUnregistered(p) \/ ReceiveAnswer(p) \/ ReceiveBusy(p) \/ ReceiveBind(p)
    PROVE  Direction(e)'
<1>0. TypeOK /\ p \in End /\ p # e
  BY Ends DEF OrderInv
<1>1. UNCHANGED <<got, rxbuf, total, input, incoming, busy, prog, reader, sent, intact>>
  BY DEF ReceiveUnregistered, ReceiveAnswer, ReceiveBusy, ReceiveBind, Unread,
         inputVars, programVars, historyVars
<1>2. ansq'[e] = ansq[e]
  BY <1>0 DEF ReceiveUnregistered, ReceiveAnswer, ReceiveBusy, ReceiveBind, Answered, TypeOK
<1>3. LineLess(e)
  <2>1. line[p] # <<>> /\ (Takes(p) \/ Replies(p, "NACK"))
    BY DEF ReceiveUnregistered, ReceiveAnswer, ReceiveBusy, ReceiveBind, Receives
  <2>2. CASE Takes(p)
    BY <1>0, <2>1, <2>2, TakesLess
  <2>3. CASE Replies(p, "NACK")
    <3>1. "NACK" \in Type /\ "NACK" \notin Answering
      BY DEF Type, Answering
    <3>2. QED
      BY <1>0, <2>1, <2>3, <3>1, RepliesLess
  <2>4. QED
    BY <2>1, <2>2, <2>3
<1>4. Less(e)
  BY <1>0, <1>1, <1>2, <1>3, SameArrived DEF Less
<1>5. QED
  BY <1>0, <1>4, LessDirection

LEMMA DirectionLine ==
    ASSUME OrderInv, TypeOK', NEW e \in End, Direction(e), NEW a \in End, Line(a)
    PROVE  Direction(e)'
<1> SUFFICES ASSUME intact'[e] PROVE Direction(e)'
  BY DEF Direction
<1> DEFINE p == Peer(e)
<1>0. TypeOK /\ p \in End /\ p # e
  BY Ends DEF OrderInv
<1>1. /\ UNCHANGED <<registered, ansq, busy, rxbuf, total, prog, reader, input, incoming>>
      /\ UNCHANGED <<sent, got>>
      /\ intact[e]
  BY <1>0
  DEF Line, Damage, Lose, Broken, socketVars, programVars, inputVars, historyVars
<1>2. LineLess(e)
  <2>1. CASE Lose(a)
    BY <1>0, <2>1, TakesLess DEF Lose, Takes
  <2>2. CASE Damage(a)
    <3>1. PICK i \in 1 .. Len(line[a]) :
             /\ line' = [line EXCEPT ![a][i].damaged = TRUE]
             /\ Broken(IF line[a][i].type = "DATA" THEN {} ELSE {Peer(a)})
      BY <2>2 DEF Damage
    <3>2. a = p => line[a][i].type = "DATA"
      BY <1>0, <3>1, Ends DEF Broken
    <3>3. QED
      BY <1>0, <3>1, <3>2, DamageLess
  <2>3. QED
    BY <2>1, <2>2 DEF Line
<1>3. Less(e)
  BY <1>0, <1>1, <1>2, SameArrived DEF Less
<1>4. QED
  BY <1>0, <1>3, LessDirection

(* What moves a direction on.  The packet that the peer takes is the one   *)
(* thing there is. *)
LEMMA AskedFirst ==
    ASSUME TypeOK, NEW e \in End, Phase(e), line[Peer(e)] # <<>>,
           line[Peer(e)][1].type \in Asking
    PROVE  /\ AskedOnly(e) /\ At(line[Peer(e)], Asking) = {1}
           /\ MeansAsked(e, line[Peer(e)][1])
<1> DEFINE p == Peer(e)
<1>1. 1 \in 1 .. Len(line[p]) /\ 1 \in At(line[p], Asking)
  BY Ends, LineOf DEF At
<1>2. AskedOnly(e)
  BY <1>1 DEF Phase, Nothing, InputOnly, BusyOnly, AnswerOnly, AnsqOnly, NotAsked
<1>3. PICK i \in 1 .. Len(line[p]) : At(line[p], Asking) = {i} /\ MeansAsked(e, line[p][i])
  BY <1>2 DEF AskedOnly
<1>4. i = 1
  BY <1>1, <1>3
<1>5. QED
  BY <1>2, <1>3, <1>4

LEMMA AnswerFirst ==
    ASSUME TypeOK, NEW e \in End, Phase(e), line[e] # <<>>, line[e][1].type \in Answering
    PROVE  /\ AnswerOnly(e) /\ At(line[e], Answering) = {1}
           /\ MeansAnswer(e, line[e][1].type)
<1>1. 1 \in 1 .. Len(line[e]) /\ 1 \in At(line[e], Answering)
  BY LineOf DEF At
<1>2. AnswerOnly(e)
  BY <1>1 DEF Phase, Nothing, AskedOnly, InputOnly, BusyOnly, AnsqOnly, NotAnswered
<1>3. PICK i \in 1 .. Len(line[e]) :
         At(line[e], Answering) = {i} /\ MeansAnswer(e, line[e][i].type)
  BY <1>2 DEF AnswerOnly
<1>4. i = 1
  BY <1>1, <1>3
<1>5. QED
  BY <1>2, <1>3, <1>4

LEMMA ToAnswer ==
    ASSUME TypeOK, NEW e \in End, Rest(e), NotAnswered(e), Clean(line'[Peer(e)]),
           rxbuf'[Peer(e)] = rxbuf[Peer(e)], total'[Peer(e)] = total[Peer(e)],
           got'[Peer(e)] = got[Peer(e)],
           prog'[e] = prog[e], sent'[e] = sent[e], ansq'[e] = ansq[e],
           input'[Peer(e)] = "receive", ~ busy'[Peer(e)], At(line'[Peer(e)], Asking) = {},
           NEW type \in Answering, MeansAnswer(e, type),
           Len(line'[e]) = Len(line[e]) + 1,
           \A i \in 1 .. Len(line[e]) : line'[e][i] = line[e][i],
           line'[e][Len(line[e]) + 1].type = type
    PROVE  Rest(e)' /\ Phase(e)'
<1> DEFINE x == line[e]
           y == line'[e]
<1>1. Peer(e)' = Peer(e)
  BY DEF Peer
<1>2. Rest(e)' /\ Room(e)' = Room(e) /\ Delivers(e)' = Delivers(e) /\ Delivered(e)' = Delivered(e)
  BY SameRest
<1>4. x \in Seq(Packet) /\ At(x, Answering) = {} /\ ansq'[e] \notin Answering
  BY DEF TypeOK, NotAnswered
<1>5. /\ Len(y) = Len(x) + 1 /\ \A i \in 1 .. Len(x) : y[i] = x[i]
      /\ y[Len(x) + 1].type = type
  OBVIOUS
<1> HIDE DEF x, y
<1>6. \E i \in 1 .. Len(y) : At(y, Answering) = {i} /\ y[i].type = type
  <2>1. Len(x) \in Nat
    BY <1>4, LenProperties
  <2>2. \A i \in 1 .. Len(y) : i \in 1 .. Len(x) \/ i = Len(x) + 1
    BY <1>5, <2>1
  <2>3. \A i \in 1 .. Len(x) : y[i].type \notin Answering
    BY <1>4, <1>5 DEF At
  <2>4. Len(x) + 1 \in 1 .. Len(y)
    BY <1>5, <2>1
  <2>5. At(y, Answering) = {Len(x) + 1}
    BY <1>5, <2>2, <2>3, <2>4 DEF At
  <2>6. QED
    BY <1>5, <2>4, <2>5
<1>7. PICK i \in 1 .. Len(line'[e]) : At(line'[e], Answering) = {i} /\ line'[e][i].type = type
  BY <1>6 DEF y
<1>8. /\ Room(e)'
      /\ line'[e][i].type = "ACK" => Delivered(e)' \/ prog'[e] = "connecting"
      /\ line'[e][i].type = "REPEAT" => Delivers(e)'
  BY <1>2, <1>7 DEF MeansAnswer
<1>9. AnswerOnly(e)'
  BY <1>1, <1>4, <1>7, <1>8 DEF AnswerOnly, MeansAnswer, NotAsked, NotAtPeer
<1>10. QED
  BY <1>2, <1>9 DEF Phase

(* The peer answers data it found damaged, or a handshake. *)
LEMMA DirectionReplies ==
    ASSUME OrderInv, TypeOK', NEW e \in End, Direction(e),
           ReceiveDamaged(Peer(e)) \/ ReceiveHandshake(Peer(e))
    PROVE  Direction(e)'
<1> SUFFICES ASSUME intact'[e] PROVE Rest(e)' /\ Phase(e)'
  BY DEF Direction
<1> DEFINE p == Peer(e)
<1>0. TypeOK /\ p \in End /\ p # e /\ Peer(p) = e
  BY Ends DEF OrderInv
<1>1. /\ UNCHANGED <<got, rxbuf, total, input, incoming, busy, prog, sent, intact>>
      /\ line[p] # <<>> /\ input[p] = "receive"
  BY DEF ReceiveDamaged, ReceiveHandshake, Receives, Unread, inputVars, programVars, historyVars
<1>2. ansq'[e] = ansq[e]
  BY <1>0 DEF ReceiveDamaged, ReceiveHandshake, Answered, TypeOK
<1>3. Rest(e) /\ Phase(e)
  BY <1>1 DEF Direction
<1>4. 1 \in 1 .. Len(line[p]) /\ Head(line[p]) = line[p][1] /\ line[p] \in Seq(Packet)
  BY <1>0, <1>1, LineOf
<1>5. PICK type \in Answering :
         /\ Replies(p, type)
         /\ \/ type = "REPEAT" /\ line[p][1].type = "DATA"
            \/ type = "ACK" /\ line[p][1].type = "HANDSHAKE"
  <2>1. CASE ReceiveDamaged(p)
    BY <1>3, <1>4, <2>1 DEF ReceiveDamaged, Rest, Clean, Answering
  <2>2. CASE ReceiveHandshake(p)
    BY <1>4, <2>2 DEF ReceiveHandshake, Receives, Answering
  <2>3. QED
    BY <2>1, <2>2
<1>6. /\ AskedOnly(e) /\ At(line[p], Asking) = {1} /\ MeansAsked(e, line[p][1])
  BY <1>0, <1>1, <1>3, <1>5, AskedFirst DEF Asking
<1>7. MeansAnswer(e, type)
  BY <1>5, <1>6 DEF MeansAsked, MeansAnswer
<1>8. type \in Type
  BY DEF Type, Answering
<1>9. /\ line'[p] \in Seq(Packet) /\ Len(line'[p]) = Len(line[p]) - 1
      /\ \A i \in 1 .. Len(line'[p]) : line'[p][i] = line[p][i + 1]
      /\ Len(line'[e]) = Len(line[e]) + 1
      /\ \A i \in 1 .. Len(line[e]) : line'[e][i] = line[e][i]
      /\ line'[e][Len(line[e]) + 1].type = type
  BY <1>0, <1>1, <1>5, <1>8, RepliesLine
<1>10. At(line'[p], Asking) = {}
  <2> DEFINE x == line[p]
             y == line'[p]
  <2>1. /\ x \in Seq(Packet) /\ x # <<>> /\ Len(y) = Len(x) - 1
        /\ \A i \in 1 .. Len(y) : y[i] = x[i + 1]
        /\ At(x, Asking) = {1} /\ x[1].type \in Asking
    BY <1>1, <1>4, <1>5, <1>6, <1>9 DEF Asking
  <2> HIDE DEF x, y
  <2>2. At(y, Asking) = {}
    BY <2>1, TakenNone
  <2>3. QED
    BY <2>2 DEF y
<1>11. Clean(line'[p])
  <2>1. Kept(line[p], line'[p], {})
    BY <1>0, <1>1, <1>5, <1>8, RepliesKept
  <2>2. QED
    BY <1>3, <1>4, <1>9, <2>1, KeptFewer DEF Rest
<1>12. NotAnswered(e) /\ NotAtPeer(e)
  BY <1>6 DEF AskedOnly
<1>13. QED
  BY <1>0, <1>1, <1>2, <1>3, <1>7, <1>9, <1>10, <1>11, <1>12, ToAnswer DEF NotAtPeer

(* The peer takes data. *)
LEMMA DirectionData ==
    ASSUME OrderInv, TypeOK', NEW e \in End, Direction(e), ReceiveData(Peer(e))
    PROVE  Direction(e)'
<1> SUFFICES ASSUME intact'[e] PROVE Rest(e)' /\ Phase(e)'
  BY DEF Direction
<1> DEFINE p == Peer(e)
<1>0. TypeOK /\ p \in End /\ p # e /\ Peer(p) = e /\ Peer(e)' = p
  BY Ends DEF OrderInv, Peer
<1>1. /\ UNCHANGED <<got, rxbuf, total, busy, ansq, prog, sent, intact>>
      /\ line[p] # <<>> /\ Takes(p) /\ Head(line[p]).type = "DATA"
      /\ input'[p] = "found" /\ incoming'[p] = Head(line[p]).chunk
  BY <1>0 DEF ReceiveData, Receives, Unread, programVars, historyVars, TypeOK
<1>2. Rest(e) /\ Phase(e)
  BY <1>1 DEF Direction
<1>3. Head(line[p]) = line[p][1] /\ line[p] \in Seq(Packet)
  BY <1>0, <1>1, LineOf
<1>4. AskedOnly(e) /\ At(line[p], Asking) = {1} /\ MeansAsked(e, line[p][1])
  BY <1>0, <1>1, <1>2, <1>3, AskedFirst DEF Asking
<1>5. /\ line'[e] = line[e] /\ line'[p] \in Seq(Packet) /\ Len(line'[p]) = Len(line[p]) - 1
      /\ \A i \in 1 .. Len(line'[p]) : line'[p][i] = line[p][i + 1]
  BY <1>0, <1>1, TakesLine
<1>6. At(line'[p], Asking) = {}
  <2> DEFINE x == line[p]
             y == line'[p]
  <2>1. /\ x \in Seq(Packet) /\ x # <<>> /\ Len(y) = Len(x) - 1
        /\ \A i \in 1 .. Len(y) : y[i] = x[i + 1]
        /\ At(x, Asking) = {1} /\ x[1].type \in Asking
    BY <1>1, <1>3, <1>4, <1>5 DEF Asking
  <2> HIDE DEF x, y
  <2>2. At(y, Asking) = {}
    BY <2>1, TakenNone
  <2>3. QED
    BY <2>2 DEF y
<1>7. Clean(line'[p])
  <2>1. Kept(line[p], line'[p], {})
    BY <1>0, <1>1, TakesKept
  <2>2. QED
    BY <1>2, <1>3, <1>5, <2>1, KeptFewer DEF Rest
<1>8. /\ Rest(e)' /\ Room(e)' = Room(e) /\ Delivers(e)' = Delivers(e)
  BY <1>1, <1>2, <1>7, SameRest
<1>9. Room(e) /\ Delivers(e) /\ incoming'[p] = sent'[e] + 1
  BY <1>1, <1>3, <1>4 DEF MeansAsked
<1>10. InputOnly(e)'
  BY <1>0, <1>1, <1>4, <1>5, <1>6, <1>8, <1>9
  DEF InputOnly, AskedOnly, NotAsked, NotAnswered, NotAtPeer
<1>11. QED
  BY <1>8, <1>10 DEF Phase

LEMMA DirectionStore ==
    ASSUME OrderInv, TypeOK', NEW e \in End, Direction(e), StoreData(Peer(e))
    PROVE  Direction(e)'
<1> SUFFICES ASSUME intact'[e] PROVE Rest(e)' /\ Phase(e)'
  BY DEF Direction
<1> DEFINE p == Peer(e)
<1>0. TypeOK /\ p \in End /\ p # e /\ Peer(e)' = p /\ Peer(p) = e
  BY Ends DEF OrderInv, Peer
<1>1. /\ UNCHANGED <<line, busy, ansq, prog, sent, intact, got>>
      /\ input[p] = "found" /\ input'[p] = "stored"
      /\ rxbuf'[p] = Append(rxbuf[p], incoming[p])
  BY <1>0 DEF StoreData, programVars, historyVars, TypeOK
<1>2. Rest(e) /\ Phase(e)
  BY <1>1 DEF Direction
<1>3. InputOnly(e)
  BY <1>1, <1>2 DEF Phase, Nothing, AskedOnly, BusyOnly, AnswerOnly, AnsqOnly, NotAtPeer
<1>4. prog[e] = "await" /\ Arrived(e) = sent[e] /\ Room(e) /\ incoming[p] = sent[e] + 1
  BY <1>1, <1>3 DEF InputOnly, Delivers
<1>5. /\ Len(rxbuf[p]) \in Nat /\ Len(rxbuf'[p]) = Len(rxbuf[p]) + 1
      /\ rxbuf'[p][Len(rxbuf[p]) + 1] = incoming[p] /\ rxbuf'[p] # <<>>
  <2>1. rxbuf[p] \in Seq(Nat \ {0}) /\ incoming[p] \in Nat
    BY <1>0 DEF TypeOK
  <2>2. rxbuf[p] \in Seq(Nat)
    BY <2>1, SeqDef
  <2>3. QED
    BY <1>1, <2>1, <2>2, LenProperties, AppendProperties, SMTT(30)
<1>6. Arrived(e)' = incoming[p]
  BY <1>0, <1>5 DEF Arrived, Last
<1>7. total'[p] < Capacity[p] + MTU
  <2> DEFINE n == Size[e][incoming[p]]
  <2>1. total'[p] = total[p] + n
    BY <1>0 DEF StoreData, TypeOK
  <2>2. incoming[p] \in 1 .. MaxChunks[e]
    BY <1>0, <1>1 DEF OrderInv, Ordered, Fits
  <2>3. MTU \in Nat /\ n \in 1 .. MTU
    BY <2>2, SizeAssumption
  <2> HIDE DEF n
  <2>4. total[p] \in Nat /\ Capacity[p] \in Nat /\ total[p] < Capacity[p]
    BY <1>0, <1>4, CapacityAssumption DEF Room, TypeOK
  <2>5. QED
    BY <2>1, <2>3, <2>4
<1>8. sent[e] \in Nat
  BY <1>0 DEF TypeOK
<1>9. Rest(e)'
  BY <1>0, <1>1, <1>2, <1>4, <1>6, <1>7 DEF Rest
<1>10. InputOnly(e)'
  BY <1>0, <1>1, <1>3, <1>4, <1>6 DEF InputOnly, Delivered, NotAsked, NotAnswered
<1>11. QED
  BY <1>9, <1>10 DEF Phase

LEMMA FullRoom ==
    ASSUME TypeOK, NEW e \in End PROVE Full(Peer(e)) <=> ~ Room(e)
<1>1. Peer(e) \in End
  BY Ends
<1>2. total[Peer(e)] \in Nat /\ Capacity[Peer(e)] \in Nat
  BY <1>1, CapacityAssumption DEF TypeOK
<1>3. QED
  BY <1>2 DEF Full, Room

(* The peer acknowledges what it has stored, or has room again. *)
LEMMA DirectionAck ==
    ASSUME OrderInv, TypeOK', NEW e \in End, Direction(e),
           AnswerAck(Peer(e)) \/ ResumeSender(Peer(e))
    PROVE  Direction(e)'
<1> SUFFICES ASSUME intact'[e] PROVE Rest(e)' /\ Phase(e)'
  BY DEF Direction
<1> DEFINE p == Peer(e)
<1>0. TypeOK /\ p \in End /\ p # e /\ Peer(p) = e
  BY Ends DEF OrderInv
<1>1. /\ UNCHANGED <<got, ansq, prog, sent>> /\ rxbuf'[p] = rxbuf[p] /\ total'[p] = total[p]
      /\ intact[e] /\ \E to \in {answerTo[p], port[p]} : Sends(p, PacketOf("ACK", to))
  BY <1>0 DEF AnswerAck, ResumeSender, RecvEnds, Broken, socketVars, programVars, historyVars
<1>2. Rest(e) /\ Phase(e)
  BY <1>1 DEF Direction
<1>3. /\ input'[p] = "receive" /\ ~ busy'[p]
      /\ Delivered(e) /\ Room(e) /\ NotAsked(e) /\ NotAnswered(e)
  <2>1. CASE AnswerAck(p)
    <3>1. input[p] = "stored" /\ input'[p] = "receive" /\ busy' = busy /\ Room(e)
      BY <1>0, <2>1, FullRoom DEF AnswerAck, TypeOK, socketVars
    <3>2. InputOnly(e)
      BY <1>2, <3>1 DEF Phase, Nothing, AskedOnly, BusyOnly, AnswerOnly, AnsqOnly, NotAtPeer
    <3>3. QED
      BY <3>1, <3>2 DEF InputOnly
  <2>2. CASE ResumeSender(p)
    <3>1. reader[p] = "room" /\ input' = input /\ ~ busy'[p]
      BY <1>0, <2>2 DEF ResumeSender, TypeOK, inputVars
    <3>2. busy[p]
      BY <1>0, <3>1 DEF OrderInv, Sending
    <3>3. BusyOnly(e)
      BY <1>2, <3>2 DEF Phase, Nothing, AskedOnly, InputOnly, AnswerOnly, AnsqOnly, NotAtPeer
    <3>4. QED
      BY <3>1, <3>3 DEF BusyOnly
  <2>3. QED
    BY <2>1, <2>2
<1>4. PICK q \in Packet : Sends(p, q) /\ q.type = "ACK" /\ ~ q.damaged
  <2>1. answerTo[p] \in Ports /\ port[p] \in Ports /\ "ACK" \in Type
    BY <1>0 DEF TypeOK, Type
  <2>2. QED
    BY <1>1, <2>1, PacketOfType
<1>5. /\ line'[p] = line[p]
      /\ Len(line'[e]) = Len(line[e]) + 1
      /\ \A i \in 1 .. Len(line[e]) : line'[e][i] = line[e][i]
      /\ line'[e][Len(line[e]) + 1].type = "ACK"
  BY <1>0, <1>4, SendsLine
<1>6. "ACK" \in Answering /\ MeansAnswer(e, "ACK")
  BY <1>3 DEF MeansAnswer, Answering
<1>7. Clean(line'[p]) /\ At(line'[p], Asking) = {}
  BY <1>2, <1>3, <1>5 DEF Rest, NotAsked
<1>8. QED
  BY <1>0, <1>1, <1>2, <1>3, <1>5, <1>6, <1>7, ToAnswer

(* The peer finds its buffer full, and says so. *)
LEMMA DirectionFull ==
    ASSUME OrderInv, TypeOK', NEW e \in End, Direction(e),
           FindFull(Peer(e)) \/ AnswerBusy(Peer(e))
    PROVE  Direction(e)'
<1> SUFFICES ASSUME intact'[e] PROVE Rest(e)' /\ Phase(e)'
  BY DEF Direction
<1> DEFINE p == Peer(e)
<1>0. TypeOK /\ p \in End /\ p # e /\ Peer(p) = e /\ Peer(e)' = p
      /\ answerTo[p] \in Ports
  BY Ends DEF OrderInv, Peer, TypeOK
<1>1. /\ UNCHANGED <<got, ansq, prog, sent, rxbuf, total, intact, reader, incoming>>
      /\ input[p] \in {"stored", "full"}
  BY DEF FindFull, AnswerBusy, socketVars, programVars, historyVars
<1>2. Rest(e) /\ Phase(e)
  BY <1>1 DEF Direction
<1>3. InputOnly(e)
  BY <1>1, <1>2 DEF Phase, Nothing, AskedOnly, BusyOnly, AnswerOnly, AnsqOnly, NotAtPeer
<1>4. Delivered(e) /\ NotAsked(e) /\ NotAnswered(e) /\ ~ busy[p]
  BY <1>1, <1>3 DEF InputOnly
<1>5. CASE FindFull(p)
  <2>1. line' = line /\ busy' = busy /\ input'[p] = "full"
    BY <1>0, <1>5 DEF FindFull, TypeOK, socketVars
  <2>2. Rest(e)' /\ Delivered(e)'
    BY <1>1, <1>2, <1>4, <2>1, SameRest DEF Rest
  <2>3. InputOnly(e)'
    BY <1>0, <1>1, <1>4, <2>1, <2>2 DEF InputOnly, NotAsked, NotAnswered
  <2>4. QED
    BY <2>2, <2>3 DEF Phase
<1>6. CASE AnswerBusy(p)
  <2> DEFINE q == PacketOf("BUSY", answerTo[p])
  <2>1. busy'[p] /\ input'[p] = "receive" /\ Sends(p, q)
    BY <1>0, <1>6 DEF AnswerBusy, TypeOK
  <2>2. q \in Packet /\ q.type \notin Answering /\ ~ q.damaged
    BY <1>0, PacketOfType DEF Type, Answering
  <2> HIDE DEF q
  <2>3. line'[p] = line[p]
    BY <1>0, <2>1, <2>2, SendsLine
  <2>4. At(line'[e], Answering) = {}
    <3>1. LineLess(e)
      BY <1>0, <2>1, <2>2, SendsLess
    <3>2. QED
      BY <1>4, <3>1 DEF LineLess, Fewer, NotAnswered
  <2>5. Rest(e)' /\ Delivered(e)'
    BY <1>1, <1>2, <1>4, <2>3, SameRest DEF Rest
  <2>6. reader'[p] # "room"
    BY <1>0, <1>1, <1>4 DEF OrderInv, Sending
  <2>7. BusyOnly(e)'
    BY <1>0, <1>1, <1>4, <2>1, <2>3, <2>4, <2>5, <2>6
    DEF BusyOnly, NotAsked, NotAnswered
  <2>8. QED
    BY <2>5, <2>7 DEF Phase
<1>7. QED
  BY <1>5, <1>6

(* The answer comes to ansq. *)
LEMMA DirectionAnswered ==
    ASSUME OrderInv, TypeOK', NEW e \in End, Direction(e), ReceiveAnswer(e),
           ansq'[e] \in Answering \ {ansq[e]}
    PROVE  Direction(e)'
<1> SUFFICES ASSUME intact'[e] PROVE Rest(e)' /\ Phase(e)'
  BY DEF Direction
<1> DEFINE p == Peer(e)
<1>0. TypeOK /\ p \in End /\ p # e /\ Peer(e)' = p
  BY Ends DEF OrderInv, Peer
<1>1. /\ UNCHANGED <<got, rxbuf, total, busy, prog, sent, intact, input, incoming>>
      /\ line[e] # <<>> /\ Takes(e) /\ ansq'[e] = Head(line[e]).type
  BY <1>0 DEF ReceiveAnswer, Receives, Answered, Unread, inputVars, programVars, historyVars, TypeOK
<1>2. Rest(e) /\ Phase(e)
  BY <1>1 DEF Direction
<1>3. Head(line[e]) = line[e][1] /\ line[e] \in Seq(Packet) /\ line[e][1].type \in Answering
  BY <1>0, <1>1, LineOf
<1>4. AnswerOnly(e) /\ At(line[e], Answering) = {1} /\ MeansAnswer(e, line[e][1].type)
  BY <1>0, <1>1, <1>2, <1>3, AnswerFirst
<1>5. /\ line'[p] = line[p] /\ Len(line'[e]) = Len(line[e]) - 1
      /\ \A i \in 1 .. Len(line'[e]) : line'[e][i] = line[e][i + 1]
  BY <1>0, <1>1, TakesLine
<1>6. At(line'[e], Answering) = {}
  <2> DEFINE x == line[e]
             y == line'[e]
  <2>1. /\ x \in Seq(Packet) /\ x # <<>> /\ Len(y) = Len(x) - 1
        /\ \A i \in 1 .. Len(y) : y[i] = x[i + 1]
        /\ At(x, Answering) = {1} /\ x[1].type \in Answering
    BY <1>1, <1>3, <1>4, <1>5
  <2> HIDE DEF x, y
  <2>2. At(y, Answering) = {}
    BY <2>1, TakenNone
  <2>3. QED
    BY <2>2 DEF y
<1>7. /\ Rest(e)' /\ Room(e)' = Room(e)
      /\ Delivers(e)' = Delivers(e) /\ Delivered(e)' = Delivered(e)
  BY <1>1, <1>2, <1>5, SameRest DEF Rest
<1>8. MeansAnswer(e, ansq[e])'
  BY <1>1, <1>3, <1>4, <1>7 DEF MeansAnswer
<1>9. AnsqOnly(e)'
  BY <1>0, <1>1, <1>4, <1>5, <1>6, <1>8 DEF AnsqOnly, AnswerOnly, NotAsked, NotAtPeer
<1>10. QED
  BY <1>7, <1>9 DEF Phase

LEMMA DirectionStep ==
    ASSUME OrderInv, TypeOK', NEW e \in End, Direction(e), NEW a \in End, Step(a)
    PROVE  Direction(e)'
<1>1. CASE Program(a)
  BY <1>1, Ends, OtherProgram, DirectionSend, DirectionTold, DirectionBroken DEF Program
<1>2. CASE Reader(a)
  BY <1>2, Ends, DirectionReader, DirectionAck DEF Reader
<1>3. CASE InputThread(a) /\ a = e
  BY <1>3, DirectionOwnInput, DirectionAnswered DEF InputThread
<1>4. CASE InputThread(a) /\ a = Peer(e)
  BY <1>4, DirectionPeerInput, DirectionReplies, DirectionData, DirectionStore, DirectionAck,
     DirectionFull DEF InputThread
<1>5. CASE Chooses(a)
  BY <1>5, Ends, OtherProgram, DirectionSend, DirectionBroken, DirectionReader DEF Chooses
<1>6. CASE Line(a)
  BY <1>6, DirectionLine
<1>7. QED
  BY <1>1, <1>2, <1>3, <1>4, <1>5, <1>6, Ends DEF Step

LEMMA DirectionInit == Init => \A e \in End : Direction(e)
<1> SUFFICES ASSUME Init, NEW e \in End PROVE Direction(e)
  OBVIOUS
<1> DEFINE p == Peer(e)
<1>1. /\ p \in End /\ Len(line[p]) = 0 /\ Len(line[e]) = 0 /\ rxbuf[p] = <<>> /\ total[p] = 0
      /\ got[p] = 0 /\ sent[e] = 0 /\ prog[e] = "idle" /\ input[p] = "receive" /\ ~ busy[p]
      /\ ansq[e] = None
  BY Ends DEF Init
<1>2. At(line[p], Asking) = {} /\ At(line[e], Answering) = {} /\ Clean(line[p])
  BY <1>1 DEF At, Clean
<1>3. Nothing(e)
  BY <1>1, <1>2 DEF Nothing, NotAsked, NotAnswered, NotAtPeer, None, Answering
<1>4. Rest(e)
  BY <1>1, <1>2, CapacityAssumption, SizeAssumption DEF Rest, Arrived, Last, Room
<1>5. QED
  BY <1>3, <1>4 DEF Direction, Phase

LEMMA DirectionStutter ==
    ASSUME NEW e \in End, Direction(e), UNCHANGED vars PROVE Direction(e)'
<1>1. /\ UNCHANGED <<line, ansq, busy, rxbuf, total, prog, reader, input, incoming>>
      /\ UNCHANGED <<sent, got, intact>>
      /\ Peer(e)' = Peer(e)
  BY DEF vars, socketVars, programVars, inputVars, historyVars, Peer
<1>2. Rest(e)' = Rest(e) /\ Phase(e)' = Phase(e)
  BY <1>1
  DEF Rest, Arrived, Last, Room, Phase, Nothing, AskedOnly, InputOnly, BusyOnly, AnswerOnly, AnsqOnly,
      NotAsked, NotAnswered, NotAtPeer, MeansAsked, MeansAnswer, Delivers, Delivered
<1>3. QED
  BY <1>1, <1>2 DEF Direction

LEMMA SipcInvariant == Spec => []Inv
<1>1. Init => Inv
  BY OrderInit, DirectionInit DEF Inv
<1>2. Inv /\ [Next]_vars => Inv'
  <2> SUFFICES ASSUME Inv, [Next]_vars PROVE Inv'
    OBVIOUS
  <2>1. ASSUME NEW a \in End, Step(a) PROVE Inv'
    <3>1. OrderInv' /\ TypeOK'
      BY <2>1, OrderStep DEF Inv, OrderInv
    <3>2. \A e \in End : Direction(e)'
      BY <2>1, <3>1, DirectionStep DEF Inv
    <3>3. QED
      BY <3>1, <3>2 DEF Inv
  <2>2. CASE UNCHANGED vars
    BY <2>2, OrderStutter, DirectionStutter DEF Inv
  <2>3. QED
    BY <2>1, <2>2 DEF Next, Step
<1>3. QED
  BY <1>1, <1>2, PTL DEF Spec

-----------------------------------------------------------------------------
(* What the runs check, for any programs, capacities and bounds. *)

(* While a direction is intact there is one thing at most between its      *)
(* sender and the answer, and nothing when the sender waits for nothing:   *)
(* no answer is about that could be taken for the next chunk's. *)
THEOREM StopAndWaitHolds == Spec => []StopAndWait
<1>1. Inv => StopAndWait
  <2>1. SUFFICES ASSUME Inv, NEW e \in End, intact[e]
                 PROVE  /\ \A x, y \in Outstanding(e) : x = y
                        /\ Outstanding(e) # {} => prog[e] \in {"connecting", "await"}
    BY DEF StopAndWait
  <2> DEFINE p == Peer(e)
  <2>2. Phase(e)
    BY <2>1 DEF Inv, Direction
  <2>3. OnLine(p, Asking) = At(line[p], Asking) /\ OnLine(e, Answering) = At(line[e], Answering)
    BY DEF OnLine, At
  <2>4. \A x \in Outstanding(e) :
           \/ input[p] # "receive" /\ x = <<"input", 0>>
           \/ busy[p] /\ x = <<"busy", 0>>
           \/ ansq[e] \in Answering /\ x = <<"ansq", 0>>
           \/ \E i \in At(line[p], Asking) : x = <<"asked", i>>
           \/ \E i \in At(line[e], Answering) : x = <<"answered", i>>
    BY <2>3 DEF Outstanding
  <2>5. CASE Nothing(e)
    BY <2>4, <2>5 DEF Nothing, NotAsked, NotAnswered, NotAtPeer
  <2>6. CASE AskedOnly(e)
    <3>1. PICK i \in 1 .. Len(line[p]) : At(line[p], Asking) = {i} /\ MeansAsked(e, line[p][i])
      BY <2>6 DEF AskedOnly
    <3>2. \A x \in Outstanding(e) : x = <<"asked", i>>
      BY <2>4, <2>6, <3>1 DEF AskedOnly, NotAnswered, NotAtPeer
    <3>3. prog[e] \in {"connecting", "await"}
      BY <3>1 DEF At, Asking, MeansAsked, Delivers
    <3>4. QED
      BY <3>2, <3>3
  <2>7. CASE InputOnly(e)
    <3>1. \A x \in Outstanding(e) : x = <<"input", 0>>
      BY <2>4, <2>7 DEF InputOnly, NotAsked, NotAnswered
    <3>2. QED
      BY <2>7, <3>1 DEF InputOnly, Delivers, Delivered
  <2>8. CASE BusyOnly(e)
    <3>1. \A x \in Outstanding(e) : x = <<"busy", 0>>
      BY <2>4, <2>8 DEF BusyOnly, NotAsked, NotAnswered
    <3>2. QED
      BY <2>8, <3>1 DEF BusyOnly, Delivered
  <2>9. CASE AnswerOnly(e)
    <3>1. PICK i \in 1 .. Len(line[e]) :
             At(line[e], Answering) = {i} /\ MeansAnswer(e, line[e][i].type)
      BY <2>9 DEF AnswerOnly
    <3>2. \A x \in Outstanding(e) : x = <<"answered", i>>
      BY <2>4, <2>9, <3>1 DEF AnswerOnly, NotAsked, NotAtPeer
    <3>3. prog[e] \in {"connecting", "await"}
      BY <3>1 DEF At, Answering, MeansAnswer, Delivers, Delivered
    <3>4. QED
      BY <3>2, <3>3
  <2>10. CASE AnsqOnly(e)
    <3>1. \A x \in Outstanding(e) : x = <<"ansq", 0>>
      BY <2>4, <2>10 DEF AnsqOnly, NotAsked, NotAtPeer
    <3>2. prog[e] \in {"connecting", "await"}
      BY <2>10 DEF AnsqOnly, Answering, MeansAnswer, Delivers, Delivered
    <3>3. QED
      BY <3>1, <3>2
  <2>11. QED
    BY <2>2, <2>5, <2>6, <2>7, <2>8, <2>9, <2>10 DEF Phase
<1>2. QED
  BY <1>1, SipcInvariant, PTL

(* sipcbuf__write refuses nothing, and still the buffer of a receiver goes *)
(* over its capacity by less than one packet: the sender waits while it is *)
(* full, and sends one packet at a time. *)
THEOREM WithinCapacityHolds == Spec => []WithinCapacity
<1>1. Inv => WithinCapacity
  BY DEF Inv, Direction, Rest, WithinCapacity
<1>2. QED
  BY <1>1, SipcInvariant, PTL

-----------------------------------------------------------------------------
(* Each direction implements Stream: the chunk that the peer stores        *)
(* arrives, the ACK that the sender takes confirms it, the peer's task     *)
(* reads it, and what takes away intact breaks the stream. *)

Of(e) == INSTANCE Stream WITH sent <- sent[e], buf <- rxbuf[Peer(e)],
                              got <- got[Peer(e)], intact <- intact[e]

LEMMA ArrivedHeld ==
    ASSUME TypeOK, NEW e \in End PROVE Arrived(e) \in Held(e) /\ Of(e)!Arrived = Arrived(e)
<1>1. /\ rxbuf[Peer(e)] \in Seq(Nat \ {0}) /\ Len(rxbuf[Peer(e)]) \in Nat
      /\ rxbuf[Peer(e)] # <<>> => Len(rxbuf[Peer(e)]) # 0
  BY HeldOf, EmptySeq
<1>2. rxbuf[Peer(e)] # <<>> => Len(rxbuf[Peer(e)]) \in 1 .. Len(rxbuf[Peer(e)])
  BY <1>1
<1>3. QED
  BY <1>2 DEF Arrived, Last, Held, Buffered, Of!Arrived

LEMMA StoreArrives ==
    ASSUME Inv, NEW e \in End, StoreData(Peer(e)) PROVE Of(e)!Arrive
<1> DEFINE p == Peer(e)
           c == incoming[p]
<1>0. OrderInv /\ TypeOK /\ Ordered(e) /\ Direction(e) /\ p \in End /\ Peer(e)' = p
  BY Ends DEF Inv, OrderInv, Peer
<1>1. /\ input[p] = "found" /\ UNCHANGED <<sent, got, intact>>
      /\ rxbuf'[p] = Append(rxbuf[p], c)
  BY <1>0 DEF StoreData, historyVars, TypeOK
<1>2. Fits(e, sent[e], c) /\ \A x \in Held(e) : x <= c
  BY <1>0, <1>1 DEF Ordered
<1>3. Arrived(e) \in Held(e) /\ Of(e)!Arrived = Arrived(e) /\ Arrived(e) \in Nat
  BY <1>0, ArrivedHeld, HeldOf
<1>4. c \in Nat \ {0} /\ c <= sent[e] + 1 /\ Arrived(e) <= c
  <2>1. MaxChunks[e] \in Nat
    BY BoundsAssumption
  <2>2. QED
    BY <1>2, <1>3, <2>1 DEF Fits
<1>5. sent[e] \in Nat
  BY <1>0 DEF TypeOK
<1>6. intact[e] => c = Arrived(e) + 1
  <2>1. SUFFICES ASSUME intact[e] PROVE c = Arrived(e) + 1
    OBVIOUS
  <2>2. InputOnly(e)
    BY <1>0, <1>1, <2>1
    DEF Direction, Phase, Nothing, AskedOnly, BusyOnly, AnswerOnly, AnsqOnly, NotAtPeer
  <2>3. QED
    BY <1>1, <2>2 DEF InputOnly, Delivers
<1>7. c \in Arrived(e) .. sent[e] + 1 /\ c > 0
  BY <1>3, <1>4, <1>5
<1>8. UNCHANGED <<sent[e], got[Peer(e)], intact[e]>>
  BY <1>0, <1>1
<1> HIDE DEF c
<1>9. QED
  BY <1>0, <1>1, <1>3, <1>6, <1>7, <1>8 DEF Of!Arrive

LEMMA TakenConfirms ==
    ASSUME Inv, NEW e \in End, Acknowledged(e) PROVE Of(e)!Confirm
<1>0. TypeOK /\ Direction(e) /\ Peer(e)' = Peer(e) /\ Of(e)!Arrived = Arrived(e)
  BY ArrivedHeld DEF Inv, OrderInv, Peer
<1>1. sent'[e] = sent[e] + 1 /\ UNCHANGED <<rxbuf, got, intact>> /\ ansq[e] = "ACK" /\ prog[e] = "await"
  BY <1>0 DEF Acknowledged, TypeOK
<1>2. intact[e] => Arrived(e) = sent[e] + 1
  <2>1. SUFFICES ASSUME intact[e] PROVE Arrived(e) = sent[e] + 1
    OBVIOUS
  <2>2. AnsqOnly(e)
    BY <1>0, <1>1, <2>1
    DEF Direction, Phase, Nothing, AskedOnly, InputOnly, BusyOnly, AnswerOnly, NotAnswered, Answering
  <2>3. QED
    BY <1>1, <2>2 DEF AnsqOnly, MeansAnswer, Delivered
<1>3. QED
  BY <1>0, <1>1, <1>2 DEF Of!Confirm

LEMMA TaskReads ==
    ASSUME Inv, NEW e \in End, ReadBytes(Peer(e)) PROVE Of(e)!Read \/ UNCHANGED Of(e)!vars
<1> DEFINE p == Peer(e)
<1>0. TypeOK /\ p \in End /\ Peer(e)' = p
  BY Ends DEF Inv, OrderInv, Peer
<1>1. UNCHANGED <<sent, intact>> /\ rxbuf \in [End -> Seq(Nat \ {0})] /\ got \in [End -> Nat]
  BY <1>0 DEF ReadBytes, TypeOK
<1>2. PICK k \in 0 .. Len(rxbuf[p]) :
         /\ rxbuf' = [rxbuf EXCEPT ![p] = SubSeq(rxbuf[p], k + 1, Len(rxbuf[p]))]
         /\ got' = IF k = 0 THEN got ELSE [got EXCEPT ![p] = rxbuf[p][k]]
  BY <1>0, ReadLeaves
<1>3. rxbuf'[p] = SubSeq(rxbuf[p], k + 1, Len(rxbuf[p]))
  BY <1>0, <1>1, <1>2
<1>4. CASE k = 0
  <2>1. SubSeq(rxbuf[p], 1, Len(rxbuf[p])) = rxbuf[p]
    <3>1. rxbuf[p] \in Seq(Nat \ {0})
      BY <1>0, <1>1
    <3>2. QED
      BY <3>1
  <2>2. k + 1 = 1
    BY <1>4
  <2>3. rxbuf'[p] = rxbuf[p]
    BY <1>3, <2>1, <2>2, Zenon
  <2>4. got' = got
    BY <1>2, <1>4
  <2>5. QED
    BY <1>0, <1>1, <2>3, <2>4 DEF Of!vars
<1>5. CASE k # 0
  <2>1. k \in 1 .. Len(rxbuf[p]) /\ got'[p] = rxbuf[p][k]
    BY <1>0, <1>1, <1>2, <1>5
  <2>2. QED
    BY <1>0, <1>1, <1>3, <2>1 DEF Of!Read
<1>6. QED
  BY <1>4, <1>5

(* Every other step leaves the stream alone, or breaks it. *)
LEMMA OtherBreaks ==
    ASSUME Inv, NEW e \in End, NEW a \in End, Step(a),
           ~ (StoreData(a) /\ a = Peer(e)), ~ (Acknowledged(a) /\ a = e),
           ~ (ReadBytes(a) /\ a = Peer(e))
    PROVE  Of(e)!Break \/ UNCHANGED Of(e)!vars
<1> DEFINE p == Peer(e)
<1>0. TypeOK /\ p \in End /\ p # e /\ Peer(p) = e /\ Peer(e)' = p
  BY Ends DEF Inv, OrderInv, Peer
<1>1. sent'[e] = sent[e] /\ got'[p] = got[p]
  <2>1. sent' = sent \/ (Acknowledged(a) /\ a # e)
    BY DEF Step, Program, Reader, InputThread, Chooses, Line, Connect, Bind, Registers, RegistersAgain, ClosePort, SendBind,
           SendHandshake, Connected, ConnectFails, ConnectTimeout, Disconnect, Send, SendAgain,
           SendsChunk, AskedAgain, SendFails, SendTimeout, ReadBytes, RecvTimeout,
           CheckRoom, ResumeSender, ReceiveDamaged, ReceiveUnregistered, ReceiveAnswer, ReceiveBusy,
           ReceiveBind, ReceiveHandshake, ReceiveData, StoreData, AnswerAck, FindFull, AnswerBusy,
           Damage, Lose, Unread, historyVars
  <2>2. got' = got \/ (ReadBytes(a) /\ a # p)
    BY DEF Step, Program, Reader, InputThread, Chooses, Line, Connect, Bind, Registers, RegistersAgain, ClosePort, SendBind,
           SendHandshake, Connected, ConnectFails, ConnectTimeout, Disconnect, Send, SendAgain,
           SendsChunk, Acknowledged, AskedAgain, SendFails, SendTimeout, RecvTimeout,
           CheckRoom, ResumeSender, ReceiveDamaged, ReceiveUnregistered, ReceiveAnswer, ReceiveBusy,
           ReceiveBind, ReceiveHandshake, ReceiveData, StoreData, AnswerAck, FindFull, AnswerBusy,
           Damage, Lose, Unread, historyVars
  <2>3. sent \in [End -> Nat] /\ got \in [End -> Nat]
    BY <1>0 DEF TypeOK
  <2>4. QED
    BY <1>0, <2>1, <2>2, <2>3 DEF Acknowledged, ReadBytes
<1>2. CASE Disconnect(a)
  BY <1>0, <1>1, <1>2 DEF Disconnect, Clears, Broken, Of!Break, TypeOK
<1>3. CASE RecvTimeout(a) \/ CheckRoom(a) \/ ResumeSender(a)
  <2>1. UNCHANGED <<bufferVars, intact>> \/ RecvEnds(a)
    BY <1>3 DEF RecvTimeout, CheckRoom, ResumeSender
  <2>2. CASE rxbuf'[p] = rxbuf[p] /\ intact'[e] = intact[e]
    BY <1>0, <1>1, <2>2 DEF Of!vars
  <2>3. CASE a = p /\ rxbuf' = [rxbuf EXCEPT ![a] = <<>>] /\ Broken({Peer(a)})
    BY <1>0, <1>1, <2>3 DEF Of!Break, Broken, TypeOK
  <2>4. CASE a = e /\ rxbuf' = [rxbuf EXCEPT ![a] = <<>>] /\ Broken({Peer(a)})
    <3>1. rxbuf'[p] = rxbuf[p] /\ intact'[e] = intact[e]
      BY <1>0, <2>4 DEF Broken, TypeOK
    <3>2. QED
      BY <2>2, <3>1
  <2>5. QED
    BY <1>0, <2>1, <2>2, <2>3, <2>4, Ends DEF RecvEnds, Clears
<1>4. CASE ~ Disconnect(a) /\ ~ RecvTimeout(a) /\ ~ CheckRoom(a) /\ ~ ResumeSender(a)
  <2>1. rxbuf'[p] = rxbuf[p]
    <3>1. rxbuf' = rxbuf \/ (a # p /\ (StoreData(a) \/ ReadBytes(a)))
      BY <1>4
      DEF Step, Program, Reader, InputThread, Chooses, Line, Connect, Bind, Registers, RegistersAgain, ClosePort, SendBind,
          SendHandshake, Connected, ConnectFails, ConnectTimeout, Send, SendAgain,
          SendsChunk, Acknowledged, AskedAgain, SendFails, SendTimeout,
          ReceiveDamaged, ReceiveUnregistered, ReceiveAnswer, ReceiveBusy,
          ReceiveBind, ReceiveHandshake, ReceiveData, AnswerAck, FindFull, AnswerBusy,
          Damage, Lose, Unread, socketVars
    <3>2. rxbuf \in [End -> Seq(Nat \ {0})]
      BY <1>0 DEF TypeOK
    <3>3. QED
      BY <1>0, <3>1, <3>2 DEF StoreData, ReadBytes
  <2>2. intact' = intact \/ \E ends : Broken(ends)
    BY <1>4
    DEF Step, Program, Reader, InputThread, Chooses, Line, Connect, Bind, Registers, RegistersAgain, ClosePort, SendBind,
        SendHandshake, Connected, ConnectFails, ConnectTimeout, Send, SendAgain,
        SendsChunk, Acknowledged, AskedAgain, SendFails, SendTimeout, ReadBytes, StoreData,
        ReceiveDamaged, ReceiveUnregistered, ReceiveAnswer, ReceiveBusy,
        ReceiveBind, ReceiveHandshake, ReceiveData, AnswerAck, FindFull, AnswerBusy,
        Damage, Lose, Unread, historyVars
  <2>3. intact'[e] \in {intact[e], FALSE}
    BY <1>0, <2>2 DEF Broken, TypeOK
  <2>4. CASE intact'[e] = intact[e]
    BY <1>0, <1>1, <2>1, <2>4 DEF Of!vars
  <2>5. CASE intact'[e] = FALSE
    BY <1>0, <1>1, <2>1, <2>5 DEF Of!Break
  <2>6. QED
    BY <2>3, <2>4, <2>5
<1>5. QED
  BY <1>2, <1>3, <1>4

LEMMA StreamStep ==
    ASSUME Inv, NEW e \in End, [Next]_vars PROVE [Of(e)!Next]_(Of(e)!vars)
<1>1. CASE UNCHANGED vars
  BY <1>1 DEF vars, socketVars, historyVars, Of!vars, Peer
<1>2. ASSUME NEW a \in End, Step(a) PROVE Of(e)!Next \/ UNCHANGED Of(e)!vars
  BY <1>2, StoreArrives, TakenConfirms, TaskReads, OtherBreaks DEF Of!Next
<1>3. QED
  BY <1>1, <1>2 DEF Next, Step

LEMMA StreamInit == ASSUME Init, NEW e \in End PROVE Of(e)!Init
BY Ends DEF Init, Of!Init

(* What the host sends comes to the client as Stream promises. *)
THEOREM HostStreamHolds == Spec => HostStream
<1>1. Init => FromHost!Init
  BY StreamInit DEF Of!Init, FromHost!Init, End, Peer
<1>2. Inv /\ [Next]_vars => [FromHost!Next]_(FromHost!vars)
  <2>1. SUFFICES ASSUME Inv, [Next]_vars PROVE [FromHost!Next]_(FromHost!vars)
    OBVIOUS
  <2>2. [Of("host")!Next]_(Of("host")!vars)
    BY <2>1, StreamStep DEF End
  <2>3. QED
    BY <2>2
    DEF Peer, Of!Next, Of!Arrive, Of!Confirm, Of!Read, Of!Break, Of!Arrived, Of!vars,
        FromHost!Next, FromHost!Arrive, FromHost!Confirm, FromHost!Read, FromHost!Break,
        FromHost!Arrived, FromHost!vars
<1>3. QED
  BY <1>1, <1>2, SipcInvariant, PTL DEF Spec, HostStream, FromHost!Spec

(* What the client sends comes to the host as Stream promises. *)
THEOREM ClientStreamHolds == Spec => ClientStream
<1>1. Init => FromClient!Init
  BY StreamInit DEF Of!Init, FromClient!Init, End, Peer
<1>2. Inv /\ [Next]_vars => [FromClient!Next]_(FromClient!vars)
  <2>1. SUFFICES ASSUME Inv, [Next]_vars PROVE [FromClient!Next]_(FromClient!vars)
    OBVIOUS
  <2>2. [Of("client")!Next]_(Of("client")!vars)
    BY <2>1, StreamStep DEF End
  <2>3. QED
    BY <2>2
    DEF Peer, Of!Next, Of!Arrive, Of!Confirm, Of!Read, Of!Break, Of!Arrived, Of!vars,
        FromClient!Next, FromClient!Arrive, FromClient!Confirm, FromClient!Read, FromClient!Break,
        FromClient!Arrived, FromClient!vars
<1>3. QED
  BY <1>1, <1>2, SipcInvariant, PTL DEF Spec, ClientStream, FromClient!Spec

-----------------------------------------------------------------------------
(* What StreamProofs shows of any stream holds of both directions. *)

FromHostProofs   == INSTANCE StreamProofs WITH
    sent <- sent["host"], buf <- rxbuf["client"], got <- got["client"], intact <- intact["host"]
FromClientProofs == INSTANCE StreamProofs WITH
    sent <- sent["client"], buf <- rxbuf["host"], got <- got["host"], intact <- intact["client"]

LEMMA HostDelivers == HostStream => [](FromHost!ExactlyOnce /\ FromHost!InOrder)
<1>1. FromHost!Init => FromHostProofs!Init
  BY DEF FromHost!Init, FromHostProofs!Init
<1>2. [FromHost!Next]_(FromHost!vars) => [FromHostProofs!Next]_(FromHostProofs!vars)
  BY DEF FromHost!Next, FromHost!Arrive, FromHost!Confirm, FromHost!Read, FromHost!Break,
         FromHost!Arrived, FromHost!vars, FromHostProofs!Next, FromHostProofs!Arrive,
         FromHostProofs!Confirm, FromHostProofs!Read, FromHostProofs!Break,
         FromHostProofs!Arrived, FromHostProofs!vars
<1>3. FromHostProofs!ExactlyOnce => FromHost!ExactlyOnce
  BY DEF FromHostProofs!ExactlyOnce, FromHost!ExactlyOnce
<1>4. FromHostProofs!InOrder => FromHost!InOrder
  BY DEF FromHostProofs!InOrder, FromHost!InOrder
<1>5. FromHostProofs!Spec => [](FromHostProofs!ExactlyOnce) /\ [](FromHostProofs!InOrder)
  BY FromHostProofs!ExactlyOnceHolds, FromHostProofs!InOrderHolds
<1>6. QED
  BY <1>1, <1>2, <1>3, <1>4, <1>5, PTL DEF HostStream, FromHost!Spec, FromHostProofs!Spec

LEMMA ClientDelivers == ClientStream => [](FromClient!ExactlyOnce /\ FromClient!InOrder)
<1>1. FromClient!Init => FromClientProofs!Init
  BY DEF FromClient!Init, FromClientProofs!Init
<1>2. [FromClient!Next]_(FromClient!vars) => [FromClientProofs!Next]_(FromClientProofs!vars)
  BY DEF FromClient!Next, FromClient!Arrive, FromClient!Confirm, FromClient!Read,
         FromClient!Break, FromClient!Arrived, FromClient!vars, FromClientProofs!Next,
         FromClientProofs!Arrive, FromClientProofs!Confirm, FromClientProofs!Read,
         FromClientProofs!Break, FromClientProofs!Arrived, FromClientProofs!vars
<1>3. FromClientProofs!ExactlyOnce => FromClient!ExactlyOnce
  BY DEF FromClientProofs!ExactlyOnce, FromClient!ExactlyOnce
<1>4. FromClientProofs!InOrder => FromClient!InOrder
  BY DEF FromClientProofs!InOrder, FromClient!InOrder
<1>5. FromClientProofs!Spec => [](FromClientProofs!ExactlyOnce) /\ [](FromClientProofs!InOrder)
  BY FromClientProofs!ExactlyOnceHolds, FromClientProofs!InOrderHolds
<1>6. QED
  BY <1>1, <1>2, <1>3, <1>4, <1>5, PTL DEF ClientStream, FromClient!Spec, FromClientProofs!Spec

(* What one program writes to a connection the other reads once and in     *)
(* order: as long as no send has failed and no answer was lost, every      *)
(* chunk reported as sent has been read or lies in the receive buffer,     *)
(* once; and no chunk ever overtakes another, whatever fails (sipc.c:      *)
(* SIPC_socket_send, input_thread, SIPC_socket_recv).                      *)
THEOREM DeliveredHolds ==
    Spec => [](/\ FromHost!ExactlyOnce /\ FromHost!InOrder
               /\ FromClient!ExactlyOnce /\ FromClient!InOrder)
BY HostStreamHolds, ClientStreamHolds, HostDelivers, ClientDelivers, PTL
=============================================================================
