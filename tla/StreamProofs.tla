---------------------------- MODULE StreamProofs ----------------------------
(***************************************************************************)
(* What the abstract stream gives its receiver.  SipcProofs shows that     *)
(* each direction of a connection is such a stream.                        *)
(***************************************************************************)
EXTENDS Stream, TLAPS, SequenceTheorems

StreamType ==
    /\ sent \in Nat /\ got \in Nat
    /\ buf \in Seq(Nat)
    /\ intact \in BOOLEAN

StreamInv == StreamType /\ ExactlyOnce /\ InOrder

LEMMA StreamInit == Init => StreamInv
BY DEF Init, StreamInv, StreamType, ExactlyOnce, InOrder

LEMMA ArrivedIsLast ==
    ASSUME StreamInv
    PROVE  /\ Arrived \in Nat /\ got <= Arrived
           /\ \A i \in 1 .. Len(buf) : buf[i] <= Arrived
           /\ intact => Arrived = got + Len(buf)
<1>1. CASE buf = <<>>
  BY <1>1 DEF Arrived, StreamInv, StreamType
<1>2. CASE buf # <<>>
  <2>1. Len(buf) \in 1 .. Len(buf) /\ \A i \in 1 .. Len(buf) : i <= Len(buf) /\ buf[i] \in Nat
    BY <1>2, EmptySeq, LenProperties DEF StreamInv, StreamType
  <2>2. Arrived = buf[Len(buf)]
    BY <1>2 DEF Arrived
  <2>3. QED
    BY <2>1, <2>2 DEF StreamInv, StreamType, ExactlyOnce, InOrder
<1>3. QED
  BY <1>1, <1>2

LEMMA StreamArrive == ASSUME StreamInv, Arrive PROVE StreamInv'
<1>1. PICK c \in Arrived .. sent + 1 :
         /\ c > 0 /\ (intact => c = Arrived + 1)
         /\ buf' = Append(buf, c) /\ UNCHANGED <<sent, got, intact>>
  BY DEF Arrive
<1>2. /\ sent \in Nat /\ got \in Nat /\ buf \in Seq(Nat) /\ Len(buf) \in Nat /\ c \in Nat
      /\ Arrived \in Nat /\ \A i \in 1 .. Len(buf) : buf[i] \in Nat
  BY <1>1, ArrivedIsLast DEF StreamInv, StreamType
<1>3. /\ buf' \in Seq(Nat) /\ Len(buf') = Len(buf) + 1
      /\ \A i \in 1 .. Len(buf) : buf'[i] = buf[i]
      /\ buf'[Len(buf) + 1] = c
  BY <1>1, <1>2, AppendProperties
<1>4. 1 .. Len(buf') = (1 .. Len(buf)) \union {Len(buf) + 1}
  BY <1>2, <1>3
<1>5. ExactlyOnce'
  <2>1. SUFFICES ASSUME intact
        PROVE /\ \A i \in 1 .. Len(buf') : buf'[i] = got + i
              /\ got + Len(buf') \in {sent, sent + 1}
    BY <1>1 DEF ExactlyOnce
  <2>2. c = got + Len(buf) + 1
    BY <1>1, <2>1, ArrivedIsLast
  <2>3. \A i \in 1 .. Len(buf) : buf'[i] = got + i
    BY <1>3, <2>1 DEF StreamInv, ExactlyOnce
  <2>4. got + Len(buf') = sent + 1
    <3>1. got + Len(buf) \in {sent, sent + 1} /\ c <= sent + 1
      BY <1>1, <1>2, <2>1 DEF StreamInv, ExactlyOnce
    <3>2. QED
      BY <1>2, <1>3, <2>2, <3>1
  <2>5. ASSUME NEW i \in 1 .. Len(buf') PROVE buf'[i] = got + i
    <3>1. CASE i \in 1 .. Len(buf)
      BY <2>3, <3>1
    <3>2. CASE i = Len(buf) + 1
      <4>1. buf'[i] = c
        BY <1>3, <3>2
      <4>2. QED
        BY <1>2, <2>2, <3>2, <4>1
    <3>3. QED
      BY <1>4, <3>1, <3>2
  <2>6. QED
    BY <2>4, <2>5
<1>6. InOrder'
  <2>1. \A i \in 1 .. Len(buf) : buf[i] <= c /\ got <= buf[i] /\ buf[i] <= sent + 1
    <3>1. \A i \in 1 .. Len(buf) : buf[i] <= Arrived /\ Arrived <= c /\ buf[i] \in Nat
      BY <1>1, <1>2, ArrivedIsLast
    <3>2. \A i \in 1 .. Len(buf) : got <= buf[i] /\ buf[i] <= sent + 1
      BY DEF StreamInv, InOrder
    <3>3. QED
      BY <1>2, <3>1, <3>2
  <2>2. got <= c /\ c <= sent + 1
    BY <1>1, <1>2, ArrivedIsLast
  <2>3. \A i \in 1 .. Len(buf') : got <= buf'[i] /\ buf'[i] <= sent + 1
    BY <1>3, <1>4, <2>1, <2>2
  <2>4. ASSUME NEW i \in 1 .. Len(buf'), NEW j \in 1 .. Len(buf'), i <= j
        PROVE  buf'[i] <= buf'[j]
    <3>1. CASE j \in 1 .. Len(buf)
      BY <1>2, <1>3, <1>4, <2>4, <3>1, SMTT(30) DEF StreamInv, InOrder
    <3>2. CASE j = Len(buf) + 1
      BY <1>2, <1>3, <1>4, <2>1, <3>2
    <3>3. QED
      BY <1>4, <3>1, <3>2
  <2>5. QED
    BY <1>1, <2>3, <2>4 DEF InOrder
<1>7. QED
  BY <1>1, <1>3, <1>5, <1>6 DEF StreamInv, StreamType

LEMMA StreamConfirm == ASSUME StreamInv, Confirm PROVE StreamInv'
<1>1. /\ sent \in Nat /\ got \in Nat /\ buf \in Seq(Nat) /\ Len(buf) \in Nat
      /\ \A i \in 1 .. Len(buf) : buf[i] \in Nat
      /\ sent' = sent + 1 /\ UNCHANGED <<buf, got, intact>>
  BY DEF StreamInv, StreamType, Confirm
<1>2. ExactlyOnce'
  <2>1. intact => got + Len(buf) = sent + 1
    BY ArrivedIsLast DEF Confirm
  <2>2. QED
    BY <1>1, <2>1 DEF StreamInv, ExactlyOnce
<1>3. InOrder'
  BY <1>1 DEF StreamInv, InOrder
<1>4. QED
  BY <1>1, <1>2, <1>3 DEF StreamInv, StreamType

LEMMA StreamRead == ASSUME StreamInv, Read PROVE StreamInv'
<1>1. PICK k \in 1 .. Len(buf) :
         got' = buf[k] /\ buf' = SubSeq(buf, k + 1, Len(buf)) /\ UNCHANGED <<sent, intact>>
  BY DEF Read
<1>2. /\ sent \in Nat /\ got \in Nat /\ buf \in Seq(Nat) /\ Len(buf) \in Nat /\ k \in Nat
      /\ \A i \in 1 .. Len(buf) : buf[i] \in Nat
  BY LenProperties DEF StreamInv, StreamType
<1>3. /\ buf' \in Seq(Nat) /\ Len(buf') = Len(buf) - k
      /\ \A i \in 1 .. Len(buf') : buf'[i] = buf[i + k] /\ i + k \in 1 .. Len(buf)
  <2>1. k + 1 \in Int /\ Len(buf) \in Int /\ \A i \in k + 1 .. Len(buf) : buf[i] \in Nat
    BY <1>2
  <2>2. /\ buf' \in Seq(Nat)
        /\ Len(buf') = IF k + 1 <= Len(buf) THEN Len(buf) - (k + 1) + 1 ELSE 0
        /\ \A i \in 1 .. Len(buf) - (k + 1) + 1 : buf'[i] = buf[(k + 1) + i - 1]
    BY <1>1, <2>1, SubSeqProperties
  <2>3. Len(buf') = Len(buf) - k /\ Len(buf) - (k + 1) + 1 = Len(buf')
    BY <1>1, <1>2, <2>2
  <2>4. \A i \in 1 .. Len(buf') :
           buf'[i] = buf[(k + 1) + i - 1] /\ (k + 1) + i - 1 = i + k /\ i + k \in 1 .. Len(buf)
    BY <1>2, <2>2, <2>3
  <2>5. QED
    BY <2>2, <2>3, <2>4
<1>4. ExactlyOnce'
  <2>1. SUFFICES ASSUME intact
        PROVE /\ \A i \in 1 .. Len(buf') : buf'[i] = got' + i
              /\ got' + Len(buf') \in {sent, sent + 1}
    BY <1>1 DEF ExactlyOnce
  <2>2. /\ \A i \in 1 .. Len(buf) : buf[i] = got + i
        /\ got + Len(buf) \in {sent, sent + 1}
    BY <2>1 DEF StreamInv, ExactlyOnce
  <2>3. got' = got + k
    BY <1>1, <2>2
  <2>4. \A i \in 1 .. Len(buf') : buf'[i] = got + (i + k)
    BY <1>3, <2>2
  <2>5. ASSUME NEW i \in 1 .. Len(buf') PROVE buf'[i] = got' + i
    <3>1. buf'[i] = got + (i + k) /\ i \in Int
      BY <2>4
    <3>2. QED
      BY <1>2, <2>3, <3>1
  <2>6. got' + Len(buf') = got + Len(buf)
    BY <1>2, <1>3, <2>3
  <2>7. QED
    BY <2>2, <2>5, <2>6
<1>5. InOrder'
  <2>1. ASSUME NEW i \in 1 .. Len(buf') PROVE buf[k] <= buf[i + k] /\ buf[i + k] <= sent + 1
    <3>1. i + k \in 1 .. Len(buf) /\ k <= i + k
      BY <1>2, <1>3
    <3>2. QED
      BY <3>1 DEF StreamInv, InOrder
  <2>2. ASSUME NEW i \in 1 .. Len(buf'), NEW j \in 1 .. Len(buf'), i <= j
        PROVE  buf'[i] <= buf'[j]
    <3>1. i + k \in 1 .. Len(buf) /\ j + k \in 1 .. Len(buf) /\ i + k <= j + k
      BY <1>2, <1>3, <2>2
    <3>2. buf[i + k] <= buf[j + k]
      BY <3>1 DEF StreamInv, InOrder
    <3>3. QED
      BY <1>3, <3>2
  <2>3. QED
    BY <1>1, <1>3, <2>1, <2>2 DEF InOrder
<1>6. got' \in Nat
  BY <1>1, <1>2
<1>7. QED
  BY <1>1, <1>3, <1>4, <1>5, <1>6 DEF StreamInv, StreamType

LEMMA StreamBreak == ASSUME StreamInv, Break PROVE StreamInv'
<1>1. /\ intact' = FALSE /\ sent' = sent /\ got' = got
      /\ (buf' = buf \/ buf' = <<>>)
  BY DEF Break
<1>2. CASE buf' = buf
  <2>1. InOrder'
    BY <1>1, <1>2 DEF StreamInv, InOrder
  <2>2. QED
    BY <1>1, <1>2, <2>1 DEF StreamInv, StreamType, ExactlyOnce
<1>3. CASE buf' = <<>>
  <2>1. buf' \in Seq(Nat) /\ Len(buf') = 0
    BY <1>3
  <2>2. InOrder'
    BY <2>1 DEF InOrder
  <2>3. QED
    BY <1>1, <2>1, <2>2 DEF StreamInv, StreamType, ExactlyOnce
<1>4. QED
  BY <1>1, <1>2, <1>3

LEMMA StreamInvariant == Spec => []StreamInv
<1>1. StreamInv /\ [Next]_vars => StreamInv'
  <2> SUFFICES ASSUME StreamInv, [Next]_vars PROVE StreamInv'
    OBVIOUS
  <2>1. CASE UNCHANGED vars
    <3>1. InOrder'
      BY <2>1 DEF StreamInv, InOrder, vars
    <3>2. QED
      BY <2>1, <3>1 DEF StreamInv, StreamType, ExactlyOnce, vars
  <2>2. QED
    BY <2>1, StreamArrive, StreamConfirm, StreamRead, StreamBreak DEF Next
<1>2. QED
  BY <1>1, StreamInit, PTL DEF Spec

(* With the stream intact the receiver has each chunk once, in a row, and  *)
(* all of those reported as sent. *)
THEOREM ExactlyOnceHolds == Spec => []ExactlyOnce
<1>1. StreamInv => ExactlyOnce
  BY DEF StreamInv
<1>2. QED
  BY <1>1, StreamInvariant, PTL

(* Whatever goes wrong, no chunk overtakes another. *)
THEOREM InOrderHolds == Spec => []InOrder
<1>1. StreamInv => InOrder
  BY DEF StreamInv
<1>2. QED
  BY <1>1, StreamInvariant, PTL
=============================================================================
