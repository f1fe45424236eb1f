----------------------------- MODULE ListLemmas -----------------------------
(***************************************************************************)
(* Facts about lists and their positions that the proofs about the file    *)
(* systems share: a set of positions has a least and, within a bound, a    *)
(* greatest element, and removing an entry moves the ones behind it.       *)
(***************************************************************************)
EXTENDS TLAPS, SequencesExt, SequenceTheorems, WellFoundedInduction, NaturalsInduction

(* A set of positions has a least element. *)
LEMMA LeastExists ==
    ASSUME NEW I, I \subseteq Nat, I # {}
    PROVE  \E x \in I : \A y \in I : x =< y
<1>1. PICK x \in I : \A y \in I : ~ (<<y, x>> \in OpToRel(<, Nat))
  BY NatLessThanWellFounded, WFMin
<1>2. \A y \in I : ~ (y < x)
  BY <1>1 DEF OpToRel
<1>3. QED
  BY <1>2

(* A set of positions with a bound has a greatest element. *)
LEMMA GreatestExists ==
    ASSUME NEW b \in Nat, NEW I, I \subseteq 0 .. b, I # {}
    PROVE  \E x \in I : \A y \in I : y =< x
<1> DEFINE J == {j \in 0 .. b : b - j \in I}
<1>1. PICK x \in I : TRUE
  OBVIOUS
<1>2. b - x \in J
  <2>1. x \in 0 .. b /\ b - x \in 0 .. b /\ b - (b - x) = x
    BY <1>1
  <2>2. QED
    BY <1>1, <2>1
<1>3. J \subseteq Nat
  OBVIOUS
<1>4. PICK j \in J : \A k \in J : j =< k
  <2> HIDE DEF J
  <2> QED BY <1>2, <1>3, LeastExists
<1>5. b - j \in I /\ j \in 0 .. b
  BY <1>4
<1>6. ASSUME NEW y \in I PROVE y =< b - j
  <2>1. y \in 0 .. b /\ b - y \in 0 .. b /\ b - (b - y) = y
    BY <1>6
  <2>2. b - y \in J
    BY <2>1
  <2>3. j =< b - y
    BY <1>4, <2>2
  <2>4. QED
    BY <1>5, <2>1, <2>3
<1>7. QED
  BY <1>5, <1>6

(* RemoveAt takes the entry at i out and keeps the order of the others. *)
LEMMA RemoveAtFacts ==
    ASSUME NEW S, NEW s \in Seq(S), NEW i \in DOMAIN s
    PROVE  /\ RemoveAt(s, i) \in Seq(S)
           /\ Len(RemoveAt(s, i)) = Len(s) - 1
           /\ \A j \in 1 .. (Len(s) - 1) :
                 RemoveAt(s, i)[j] = IF j < i THEN s[j] ELSE s[j + 1]
<1> DEFINE a == SubSeq(s, 1, i - 1)
           b == SubSeq(s, i + 1, Len(s))
<1>0. i \in 1 .. Len(s) /\ Len(s) \in Nat
  OBVIOUS
<1>1. /\ a \in Seq(S) /\ Len(a) = i - 1
      /\ \A j \in 1 .. (i - 1) : a[j] = s[j]
  <2>1. \A j \in 1 .. (i - 1) : s[j] \in S
    BY <1>0
  <2>2. \A j \in 1 .. (i - 1) - 1 + 1 : a[j] = s[1 + j - 1]
    BY <1>0, <2>1, SubSeqProperties
  <2>3. QED
    BY <1>0, <2>1, <2>2, SubSeqProperties
<1>2. /\ b \in Seq(S) /\ Len(b) = Len(s) - i
      /\ \A j \in 1 .. (Len(s) - i) : b[j] = s[i + j]
  <2>1. \A j \in (i + 1) .. Len(s) : s[j] \in S
    BY <1>0
  <2>2. \A j \in 1 .. Len(s) - (i + 1) + 1 : b[j] = s[(i + 1) + j - 1]
    BY <1>0, <2>1, SubSeqProperties
  <2>3. QED
    BY <1>0, <2>1, <2>2, SubSeqProperties
<1>3. /\ a \o b \in Seq(S) /\ Len(a \o b) = Len(a) + Len(b)
      /\ \A j \in 1 .. Len(a) + Len(b) :
            (a \o b)[j] = IF j <= Len(a) THEN a[j] ELSE b[j - Len(a)]
  BY <1>1, <1>2, ConcatProperties
<1> HIDE DEF a, b
<1>4. ASSUME NEW j \in 1 .. (Len(s) - 1)
      PROVE  (a \o b)[j] = IF j < i THEN s[j] ELSE s[j + 1]
  <2>0. Len(a) + Len(b) = Len(s) - 1
    BY <1>0, <1>1, <1>2
  <2>1. (a \o b)[j] = IF j <= Len(a) THEN a[j] ELSE b[j - Len(a)]
    BY <1>3, <2>0
  <2>2. CASE j < i
    BY <1>0, <1>1, <2>1, <2>2
  <2>3. CASE ~ (j < i)
    <3>1. j - Len(a) \in 1 .. (Len(s) - i) /\ ~ (j <= Len(a)) /\ i + (j - Len(a)) = j + 1
      BY <1>0, <1>1, <2>3
    <3>2. b[j - Len(a)] = s[i + (j - Len(a))]
      BY <1>2, <3>1
    <3>3. QED
      BY <2>1, <2>3, <3>1, <3>2
  <2>4. QED
    BY <2>2, <2>3
<1>5. Len(a \o b) = Len(s) - 1
  BY <1>0, <1>1, <1>2, <1>3
<1>6. RemoveAt(s, i) = a \o b
  BY DEF RemoveAt, a, b
<1>7. QED
  BY <1>3, <1>4, <1>5, <1>6
=============================================================================
