------------------------------- MODULE Stream -------------------------------
(***************************************************************************)
(* What one direction of a SIPC connection promises (net/sipc): the chunks *)
(* of data that one end sends, numbered from 1, come to the other end in   *)
(* order.  As long as nothing has gone wrong (intact) each comes exactly   *)
(* once, and the sender is never more than one chunk ahead of what it has  *)
(* been told: the chunks reported as sent are with the receiver.  After a  *)
(* failed send, a lost answer or the end of the connection chunks may be   *)
(* missing or come twice, and still none overtakes another.                *)
(***************************************************************************)
EXTENDS Naturals, Sequences

VARIABLES
    sent,       \* chunks the sender has been told are sent
    buf,        \* chunks with the receiver, unread
    got,        \* the last chunk read
    intact      \* nothing has gone wrong

vars == <<sent, buf, got, intact>>

(* The last chunk that has come to the receiver. *)
Arrived == IF buf = <<>> THEN got ELSE buf[Len(buf)]

Init ==
    /\ sent = 0
    /\ buf = <<>>
    /\ got = 0
    /\ intact = TRUE

(* A chunk comes to the receiver. *)
Arrive ==
    /\ \E c \in Arrived .. sent + 1 :
          /\ c > 0
          /\ intact => c = Arrived + 1
          /\ buf' = Append(buf, c)
    /\ UNCHANGED <<sent, got, intact>>

(* The sender is told that its chunk is sent. *)
Confirm ==
    /\ intact => Arrived = sent + 1
    /\ sent' = sent + 1
    /\ UNCHANGED <<buf, got, intact>>

(* The receiver reads the first of the chunks, one or more. *)
Read ==
    /\ \E k \in 1 .. Len(buf) :
          /\ got' = buf[k]
          /\ buf' = SubSeq(buf, k + 1, Len(buf))
    /\ UNCHANGED <<sent, intact>>

(* Something goes wrong; what was not read may be thrown away. *)
Break ==
    /\ intact' = FALSE
    /\ buf' \in {buf, <<>>}
    /\ UNCHANGED <<sent, got>>

Next == Arrive \/ Confirm \/ Read \/ Break

Spec == Init /\ [][Next]_vars
-----------------------------------------------------------------------------
(* What follows for the receiver: with the stream intact it holds and has  *)
(* read the chunks in a row, all of those reported as sent and at most one *)
(* more.                                                                   *)
ExactlyOnce ==
    intact => /\ \A i \in 1 .. Len(buf) : buf[i] = got + i
              /\ got + Len(buf) \in {sent, sent + 1}

(* Whatever went wrong, nothing overtakes what was sent before it. *)
InOrder ==
    /\ \A i \in 1 .. Len(buf) : got <= buf[i] /\ buf[i] <= sent + 1
    /\ \A i, j \in 1 .. Len(buf) : i <= j => buf[i] <= buf[j]
=============================================================================
