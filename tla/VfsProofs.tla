------------------------------ MODULE VfsProofs ------------------------------
(***************************************************************************)
(* Theorems about Vfs, for any number of file systems, tasks, mount points *)
(* and paths.  The look-up gives a mounted file system whenever there is   *)
(* one; a file system that nothing is mounted in can be taken out of the   *)
(* list.  What an umount looks at is a count: that the count is never too  *)
(* low is part of the invariant, and needs that it does not wrap.          *)
(***************************************************************************)
EXTENDS Vfs, TLAPS, ListLemmas, FiniteSetTheorems

(* children_cnt has room for every file system and every failed mount. *)
NeverWraps == Cardinality(FS) + MaxFailures < CountLimit

Child(f) == {g \in Mounted : parent[g] = f}

Fresh ==
    /\ \A i \in 1 .. Len(list) : list[i] \notin unused
    /\ \A f \in unused : children[f] = 0

TreeInv == TypeOK /\ TreeIsWhole /\ ChildrenCounted /\ Fresh

-----------------------------------------------------------------------------
(* What the look-up gives. *)

(* Any mount point begins with no name at all. *)
LEMMA NoNameMatches ==
    ASSUME TypeOK, NEW p \in Seq(STRING), NEW i \in 1 .. Len(list)
    PROVE  i \in Matches(p, 0)
<1>1. point[list[i]] \in Seq(STRING)
  <2>1. list[i] \in FS
    BY DEF TypeOK
  <2>2. Root \in Seq(STRING)
    BY DEF Root
  <2>3. QED
    BY <2>1, <2>2, PathsAssumption DEF TypeOK
<1>2. SubSeq(p, 1, 0) = <<>>
  BY SubSeqEmpty
<1>3. IsPrefix(<<>>, point[list[i]])
  <2>1. Len(<<>>) = 0 /\ 0 <= Len(point[list[i]])
    BY <1>1
  <2>2. SubSeq(<<>>, 1, 0) = SubSeq(point[list[i]], 1, 0)
    BY <1>1, SubSeqEmpty
  <2>3. QED
    BY <2>1, <2>2 DEF IsPrefix
<1>4. QED
  BY <1>2, <1>3 DEF Matches

(* The look-up finds the longest beginning of the path that matches, and   *)
(* the first file system it matches. *)
LEMMA BaseFound ==
    ASSUME TypeOK, list # <<>>, NEW p \in Seq(STRING), NEW depth \in Nat
    PROVE  \E k \in 0 .. depth : \E i \in Matches(p, k) :
              /\ Base(p, depth) = list[i]
              /\ \A l \in k + 1 .. depth : Matches(p, l) = {}
              /\ \A j \in Matches(p, k) : i <= j
<1> DEFINE Longest(k) == /\ Matches(p, k) # {}
                         /\ \A l \in k + 1 .. depth : Matches(p, l) = {}
           K == {k \in 0 .. depth : Matches(p, k) # {}}
           longest == CHOOSE k \in 0 .. depth : Longest(k)
<1>0. list \in Seq(FS) /\ Len(list) \in Nat \ {0}
  BY EmptySeq, LenProperties DEF TypeOK
<1>1. 0 \in K
  BY <1>0, NoNameMatches
<1>2. PICK k \in K : \A l \in K : l =< k
  <2>1. K \subseteq 0 .. depth /\ K # {}
    BY <1>1
  <2> HIDE DEF K
  <2>2. QED
    BY <2>1, GreatestExists
<1>3. k \in 0 .. depth /\ Longest(k)
  <2>1. ASSUME NEW l \in k + 1 .. depth, Matches(p, l) # {} PROVE FALSE
    <3>1. l \in 0 .. depth /\ ~ (l =< k)
      BY <1>2, <2>1
    <3>2. QED
      BY <1>2, <2>1, <3>1
  <2>2. QED
    BY <1>2, <2>1
<1>4. longest \in 0 .. depth /\ Longest(longest)
  <2> HIDE DEF Longest
  <2>1. QED
    BY <1>3
<1> DEFINE M == Matches(p, longest)
<1>5. M \subseteq Nat /\ M # {}
  <2>1. M \subseteq 1 .. Len(list)
    BY DEF Matches
  <2>2. M # {}
    BY <1>4
  <2> HIDE DEF M
  <2>3. QED
    BY <1>0, <2>1, <2>2
<1>6. First(M) \in M /\ \A j \in M : First(M) <= j
  <2> HIDE DEF M
  <2>1. PICK x \in M : \A y \in M : x =< y
    BY <1>5, LeastExists
  <2>2. QED
    BY <2>1 DEF First
<1>7. Base(p, depth) = list[First(M)]
  BY DEF Base
<1>8. QED
  BY <1>4, <1>6, <1>7

LEMMA BaseMounted ==
    ASSUME TypeOK, list # <<>>, NEW p \in Seq(STRING), NEW depth \in Nat
    PROVE  Base(p, depth) \in Mounted /\ Base(p, depth) \in FS
<1>1. PICK k \in 0 .. depth : \E i \in Matches(p, k) : Base(p, depth) = list[i]
  BY BaseFound
<1>2. PICK i \in Matches(p, k) : Base(p, depth) = list[i]
  BY <1>1
<1>3. i \in 1 .. Len(list)
  BY <1>2 DEF Matches
<1>4. QED
  BY <1>2, <1>3 DEF Mounted, TypeOK

-----------------------------------------------------------------------------
(* TypeOK. *)

LEMMA PointsAreSeqs == Points \subseteq Seq(STRING) /\ Root \in Seq(STRING)
<1>1. Root \in Seq(STRING)
  BY DEF Root
<1>2. QED
  BY <1>1, PathsAssumption

LEMMA CountWraps ==
    ASSUME NEW c \in 0 .. CountLimit - 1
    PROVE  (c + 1) % CountLimit \in 0 .. CountLimit - 1
<1>1. CountLimit \in Nat \ {0}
  BY CountAssumption
<1>2. \A l \in Nat \ {0}, d \in Nat : d % l \in 0 .. l - 1
  OBVIOUS
<1>3. QED
  BY <1>1, <1>2

LEMMA TypeInit == Init => TypeOK
BY CountAssumption DEF Init, TypeOK

LEMMA TypeMountFirst == ASSUME TypeOK, NEW f \in FS, MountFirst(f) PROVE TypeOK'
<1>1. list' \in Seq(FS)
  BY AppendProperties DEF TypeOK, MountFirst, Adds
<1>2. QED
  BY <1>1 DEF TypeOK, MountFirst, Adds

LEMMA TypeCountsChild ==
    ASSUME TypeOK, NEW base \in FS, CountsChild(base)
    PROVE  children' \in [FS -> 0 .. CountLimit - 1]
<1>1. children[base] \in 0 .. CountLimit - 1
  BY DEF TypeOK
<1>2. (children[base] + 1) % CountLimit \in 0 .. CountLimit - 1
  BY <1>1, CountWraps
<1>3. QED
  BY <1>2 DEF TypeOK, CountsChild

LEMMA TypeMount ==
    ASSUME TypeOK, NEW f \in FS, NEW p \in Points, Mount(f, p) PROVE TypeOK'
<1> DEFINE base == BaseOfPoint(p)
<1>1. base \in FS
  <2>1. p \in Seq(STRING) /\ Len(p) \in Nat
    BY PointsAreSeqs
  <2>2. QED
    BY <2>1, BaseMounted DEF Mount, BaseOfPoint
<1>2. /\ Adds(f, p, base) /\ CountsChild(base)
      /\ unused' = unused \ {f}
      /\ UNCHANGED <<failures, looked, file, lost>>
  BY DEF Mount
<1> HIDE DEF base
<1>3. list' \in Seq(FS)
  BY <1>2, AppendProperties DEF TypeOK, Adds
<1>4. children' \in [FS -> 0 .. CountLimit - 1]
  BY <1>1, <1>2, TypeCountsChild
<1>5. QED
  BY <1>1, <1>2, <1>3, <1>4 DEF TypeOK, Adds

LEMMA TypeMountFails ==
    ASSUME TypeOK, NEW p \in Points, MountFails(p) PROVE TypeOK'
<1> DEFINE base == BaseOfPoint(p)
<1>1. base \in FS
  <2>1. p \in Seq(STRING) /\ Len(p) \in Nat
    BY PointsAreSeqs
  <2>2. QED
    BY <2>1, BaseMounted DEF MountFails, BaseOfPoint
<1>2. CountsChild(base)
  BY DEF MountFails
<1> HIDE DEF base
<1>3. children' \in [FS -> 0 .. CountLimit - 1]
  BY <1>1, <1>2, TypeCountsChild
<1>4. failures' \in 0 .. MaxFailures
  BY CountAssumption DEF TypeOK, MountFails
<1>5. QED
  BY <1>3, <1>4 DEF TypeOK, MountFails

LEMMA TypeUmount ==
    ASSUME TypeOK, NEW i \in 1 .. Len(list), Umount(i) PROVE TypeOK'
<1>1. list' \in Seq(FS)
  <2>1. list \in Seq(FS) /\ i \in DOMAIN list
    BY DEF TypeOK
  <2>2. QED
    BY <2>1, RemoveAtFacts DEF Umount
<1>2. children' \in [FS -> 0 .. CountLimit - 1]
  <2>1. list[i] \in FS /\ parent[list[i]] \in FS \union {None}
    BY DEF TypeOK
  <2>2. CASE parent[list[i]] # None /\ children[parent[list[i]]] # 0
    <3>1. children[parent[list[i]]] - 1 \in 0 .. CountLimit - 1
      BY <2>1, <2>2, CountAssumption DEF TypeOK
    <3>2. QED
      BY <2>1, <2>2, <3>1 DEF TypeOK, Umount, Forgets
  <2>3. CASE ~ (parent[list[i]] # None /\ children[parent[list[i]]] # 0)
    BY <2>3 DEF TypeOK, Umount, Forgets
  <2>4. QED
    BY <2>2, <2>3
<1>3. QED
  BY <1>1, <1>2 DEF TypeOK, Umount

LEMMA TypeTasks ==
    ASSUME TypeOK, NEW t \in Task,
           \/ \E p \in Files : LookUpFile(t, p)
           \/ \E p \in Points : LookUpDirectory(t, p)
           \/ UseEnds(t) \/ Open(t) \/ OpenLosesFile(t) \/ Close(t)
    PROVE  TypeOK'
<1>1. ASSUME NEW p \in Seq(STRING), NEW d \in Nat, LookUp(t, p, d) PROVE TypeOK'
  <2>1. Base(p, d) \in FS
    BY <1>1, BaseMounted DEF LookUp
  <2>2. QED
    BY <1>1, <2>1 DEF TypeOK, LookUp, entryVars
<1>2. ASSUME NEW p \in Files, LookUpFile(t, p) PROVE TypeOK'
  <2>1. p \in Seq(STRING) /\ p # <<>>
    BY PathsAssumption DEF Root
  <2>2. Len(p) - 1 \in Nat
    BY <2>1, EmptySeq, LenProperties
  <2>3. QED
    BY <1>1, <1>2, <2>1, <2>2 DEF LookUpFile
<1>3. ASSUME NEW p \in Points, LookUpDirectory(t, p) PROVE TypeOK'
  <2>1. p \in Seq(STRING) /\ Len(p) \in Nat
    BY PointsAreSeqs
  <2>2. QED
    BY <1>1, <1>3, <2>1 DEF LookUpDirectory
<1>4. CASE UseEnds(t)
  BY <1>4 DEF TypeOK, UseEnds, entryVars
<1>5. CASE Open(t)
  BY <1>5 DEF TypeOK, Open, entryVars
<1>6. CASE OpenLosesFile(t)
  <2>1. looked[t] \in FS
    BY <1>6 DEF TypeOK, OpenLosesFile
  <2>2. QED
    BY <1>6, <2>1 DEF TypeOK, OpenLosesFile, entryVars
<1>7. CASE Close(t)
  BY <1>7 DEF TypeOK, Close, entryVars
<1>8. QED
  BY <1>2, <1>3, <1>4, <1>5, <1>6, <1>7

LEMMA TypeStep == TypeOK /\ [Next]_vars => TypeOK'
<1> SUFFICES ASSUME TypeOK, [Next]_vars PROVE TypeOK'
  OBVIOUS
<1>1. ASSUME NEW f \in FS, MountFirst(f) PROVE TypeOK'
  BY <1>1, TypeMountFirst
<1>2. ASSUME NEW i \in 1 .. Len(list), Umount(i) PROVE TypeOK'
  BY <1>2, TypeUmount
<1>3. ASSUME NEW f \in FS, NEW p \in Points, Mount(f, p) PROVE TypeOK'
  BY <1>3, TypeMount
<1>4. ASSUME NEW p \in Points, MountFails(p) PROVE TypeOK'
  BY <1>4, TypeMountFails
<1>5. ASSUME NEW t \in Task,
             \/ \E p \in Files : LookUpFile(t, p)
             \/ \E p \in Points : LookUpDirectory(t, p)
             \/ UseEnds(t) \/ Open(t) \/ OpenLosesFile(t) \/ Close(t)
      PROVE  TypeOK'
  BY <1>5, TypeTasks
<1>6. CASE UNCHANGED vars
  BY <1>6 DEF TypeOK, vars, entryVars
<1>7. QED
  BY <1>1, <1>2, <1>3, <1>4, <1>5, <1>6 DEF Next

(* Every entry of the table, every look-up and every open file is of a     *)
(* file system: a look-up finds one as soon as the root is mounted.        *)
THEOREM VfsTypeCorrect == Spec => []TypeOK
<1>1. QED
  BY TypeInit, TypeStep, PTL DEF Spec

-----------------------------------------------------------------------------
(* NearestFoundThen. *)

LEMMA PointOfListed ==
    ASSUME TypeOK, NEW i \in 1 .. Len(list)
    PROVE  list[i] \in FS /\ point[list[i]] \in Seq(STRING)
BY PointsAreSeqs DEF TypeOK

(* When the directories on the way to a mount point are mount points, the  *)
(* first match is a file system mounted in exactly those names.            *)
LEMMA FirstMatchIsExact ==
    ASSUME TypeOK, DirectoriesMountedFirst,
           NEW p \in Seq(STRING), NEW k \in 0 .. Len(p),
           NEW i \in Matches(p, k), \A j \in Matches(p, k) : i <= j
    PROVE  point[list[i]] = SubSeq(p, 1, k)
<1> DEFINE q == point[list[i]]
<1>1. i \in 1 .. Len(list) /\ IsPrefix(SubSeq(p, 1, k), q)
  BY DEF Matches
<1>2. q \in Seq(STRING) /\ Len(p) \in Nat /\ Len(q) \in Nat
  BY <1>1, PointOfListed
<1>3. SubSeq(p, 1, k) \in Seq(STRING) /\ Len(SubSeq(p, 1, k)) = k
  <2>1. \A l \in 1 .. k : p[l] \in STRING
    OBVIOUS
  <2>2. QED
    BY <2>1, SubSeqProperties
<1>4. k <= Len(q) /\ SubSeq(p, 1, k) = SubSeq(q, 1, k)
  <2>1. SubSeq(SubSeq(p, 1, k), 1, k) = SubSeq(p, 1, k)
    BY <1>3, SubSeqFull
  <2>2. QED
    BY <1>1, <1>3, <2>1 DEF IsPrefix
<1>5. CASE k = Len(q)
  BY <1>2, <1>4, <1>5, SubSeqFull
<1>6. CASE k # Len(q)
  <2>1. k \in 0 .. Len(q) - 1
    BY <1>2, <1>4, <1>6
  <2>2. PICK j \in 1 .. i - 1 : point[list[j]] = SubSeq(q, 1, k)
    BY <1>1, <2>1 DEF DirectoriesMountedFirst
  <2>3. j \in 1 .. Len(list)
    BY <1>1, <2>2 DEF TypeOK
  <2>4. IsPrefix(SubSeq(p, 1, k), point[list[j]])
    BY <1>3, <1>4, <2>2 DEF IsPrefix
  <2>5. j \in Matches(p, k)
    BY <2>3, <2>4 DEF Matches
  <2>6. i \in Int /\ j \in Int /\ j <= i - 1
    BY <1>1, <2>2
  <2>7. i <= j
    BY <2>5
  <2>8. QED
    BY <2>6, <2>7
<1>7. QED
  BY <1>5, <1>6

LEMMA NearestIsFound ==
    ASSUME TypeOK, DirectoriesMountedFirst, list # <<>>, NEW p \in Files
    PROVE  Nearest(Base(p, Len(p) - 1), p)
<1> DEFINE depth == Len(p) - 1
<1>1. p \in Seq(STRING) /\ p # <<>> /\ Len(p) \in Nat
  BY PathsAssumption DEF Root
<1>2. depth \in Nat /\ depth < Len(p)
  BY <1>1, EmptySeq, LenProperties
<1>3. PICK k \in 0 .. depth : \E i \in Matches(p, k) :
         /\ Base(p, depth) = list[i]
         /\ \A l \in k + 1 .. depth : Matches(p, l) = {}
         /\ \A j \in Matches(p, k) : i <= j
  <2> HIDE DEF depth
  <2> QED BY <1>1, <1>2, BaseFound
<1>4. PICK i \in Matches(p, k) :
         /\ Base(p, depth) = list[i]
         /\ \A l \in k + 1 .. depth : Matches(p, l) = {}
         /\ \A j \in Matches(p, k) : i <= j
  BY <1>3
<1>5. k \in 0 .. Len(p) /\ k < Len(p)
  BY <1>1, <1>2
<1>6. point[list[i]] = SubSeq(p, 1, k)
  BY <1>1, <1>4, <1>5, FirstMatchIsExact
<1>7. \A l \in 0 .. Len(p) : SubSeq(p, 1, l) \in Seq(STRING) /\ Len(SubSeq(p, 1, l)) = l
  <2>1. TAKE l \in 0 .. Len(p)
  <2>2. \A m \in 1 .. l : p[m] \in STRING
    BY <1>1
  <2>3. QED
    BY <1>1, <2>2, SubSeqProperties
<1>8. Above(list[i], p)
  <2>1. IsPrefix(SubSeq(p, 1, k), p)
    <3>1. SubSeq(SubSeq(p, 1, k), 1, k) = SubSeq(p, 1, k)
      BY <1>5, <1>7, SubSeqFull
    <3>2. QED
      BY <1>5, <1>7, <3>1 DEF IsPrefix
  <2>2. SubSeq(p, 1, k) # p
    BY <1>5, <1>7
  <2>3. QED
    BY <1>6, <2>1, <2>2 DEF Above
<1>9. ASSUME NEW g \in Mounted, Above(g, p)
      PROVE  Len(point[g]) <= Len(point[list[i]])
  <2>1. PICK j \in 1 .. Len(list) : g = list[j]
    BY <1>9 DEF Mounted
  <2> DEFINE l == Len(point[g])
  <2>2. point[g] \in Seq(STRING) /\ l \in Nat
    BY <2>1, PointOfListed
  <2>3. l <= Len(p) /\ point[g] = SubSeq(p, 1, l) /\ point[g] # p
    <3>1. l <= Len(p) /\ SubSeq(point[g], 1, l) = SubSeq(p, 1, l) /\ point[g] # p
      BY <1>9 DEF Above, IsPrefix
    <3>2. SubSeq(point[g], 1, l) = point[g]
      BY <2>2, SubSeqFull
    <3>3. QED
      BY <3>1, <3>2
  <2>4. l <= depth
    <3>1. l # Len(p)
      BY <1>1, <2>3, SubSeqFull
    <3>2. QED
      BY <1>1, <2>2, <2>3, <3>1
  <2>5. j \in Matches(p, l)
    <3>1. IsPrefix(point[g], point[g])
      BY <2>2 DEF IsPrefix
    <3>2. IsPrefix(SubSeq(p, 1, l), point[list[j]])
      BY <2>1, <2>3, <3>1
    <3>3. QED
      BY <3>2 DEF Matches
  <2>6. ~ (l \in k + 1 .. depth)
    BY <1>4, <2>5
  <2>7. l <= k
    BY <1>2, <2>2, <2>4, <2>6
  <2>8. Len(point[list[i]]) = k
    BY <1>5, <1>6, <1>7
  <2>9. QED
    BY <2>7, <2>8
<1>10. QED
  BY <1>4, <1>8, <1>9 DEF Nearest

(* When every directory on the way to a mount point is itself one, mounted *)
(* earlier, a path is looked up in the file system of the nearest          *)
(* directory above it. *)
THEOREM NearestFoundThenHolds == Spec => []NearestFoundThen
<1>1. TypeOK => NearestFoundThen
  BY NearestIsFound DEF NearestFoundThen, NearestFound
<1>2. QED
  BY <1>1, VfsTypeCorrect, PTL

-----------------------------------------------------------------------------
(* TreeIsWhole and ChildrenCounted. *)

LEMMA Counting ==
    ASSUME TypeOK, NEW f
    PROVE  /\ IsFiniteSet(Child(f)) /\ Cardinality(Child(f)) \in Nat
           /\ \A g \in Child(f) : g \in FS
<1>1. Child(f) \in SUBSET FS
  BY DEF Child, Mounted, TypeOK
<1>2. QED
  BY <1>1, FSAssumption, FS_Subset, FS_CardinalityType

LEMMA CountOf ==
    ASSUME ChildrenCounted, NEW f \in Mounted
    PROVE  children[f] \in Cardinality(Child(f)) .. Cardinality(Child(f)) + failures
BY DEF ChildrenCounted, Child

(* One child more fits into the count. *)
LEMMA CountGrows ==
    ASSUME NeverWraps, TreeInv, NEW f \in Mounted,
           (\E g \in FS : g \notin Mounted) \/ failures < MaxFailures
    PROVE  (children[f] + 1) % CountLimit = children[f] + 1
<1>1. /\ IsFiniteSet(Child(f)) /\ Cardinality(Child(f)) \in Nat
      /\ Child(f) \in SUBSET FS
      /\ Cardinality(FS) \in Nat /\ IsFiniteSet(FS)
  BY Counting, FSAssumption, FS_CardinalityType DEF TreeInv
<1>2. /\ children[f] \in Nat /\ children[f] <= Cardinality(Child(f)) + failures
      /\ failures \in Nat /\ failures <= MaxFailures
      /\ CountLimit \in Nat \ {0} /\ MaxFailures \in Nat
  BY <1>1, CountOf, CountAssumption DEF TreeInv, TypeOK
<1>3. children[f] + 1 < CountLimit
  <2>1. CASE failures < MaxFailures
    <3>1. Cardinality(Child(f)) <= Cardinality(FS)
      BY <1>1, FS_Subset
    <3>2. QED
      BY <1>1, <1>2, <2>1, <3>1 DEF NeverWraps
  <2>2. CASE \E g \in FS : g \notin Mounted
    <3>1. PICK g \in FS : g \notin Mounted
      BY <2>2
    <3>2. g \notin Child(f) /\ Child(f) \union {g} \in SUBSET FS
      BY <1>1, <3>1 DEF Child
    <3>3. Cardinality(Child(f) \union {g}) = Cardinality(Child(f)) + 1
      BY <1>1, <3>2, FS_AddElement
    <3>4. Cardinality(Child(f)) + 1 <= Cardinality(FS)
      BY <1>1, <3>2, <3>3, FS_Subset
    <3>5. QED
      BY <1>1, <1>2, <3>4 DEF NeverWraps
  <2>3. QED
    BY <2>1, <2>2
<1>4. QED
  <2>1. \A c \in Nat, l \in Nat \ {0} : c < l => c % l = c
    OBVIOUS
  <2>2. QED
    BY <1>2, <1>3, <2>1

LEMMA TreeInit == Init => TreeInv
<1> SUFFICES ASSUME Init PROVE TreeInv
  OBVIOUS
<1>1. Len(list) = 0 /\ Mounted = {}
  BY DEF Init, Mounted
<1>2. QED
  BY <1>1, TypeInit DEF TreeInv, TreeIsWhole, ChildrenCounted, Fresh, Init

(* An entry that is added at the end. *)
LEMMA Added ==
    ASSUME TypeOK, NEW f \in FS, list' = Append(list, f)
    PROVE  /\ Len(list') = Len(list) + 1 /\ Len(list) \in Nat
           /\ \A i \in 1 .. Len(list) : list'[i] = list[i]
           /\ list'[Len(list) + 1] = f
           /\ Mounted' = Mounted \union {f}
<1>1. /\ Len(list') = Len(list) + 1 /\ Len(list) \in Nat
      /\ \A i \in 1 .. Len(list) : list'[i] = list[i]
      /\ list'[Len(list) + 1] = f
  BY AppendProperties DEF TypeOK
<1>2. Mounted' = {list'[i] : i \in 1 .. Len(list')}
  BY DEF Mounted
<1>3. 1 .. Len(list') = (1 .. Len(list)) \union {Len(list) + 1}
  BY <1>1
<1>4. QED
  BY <1>1, <1>2, <1>3 DEF Mounted

LEMMA TreeMountFirst ==
    ASSUME TreeInv, NEW f \in FS, MountFirst(f) PROVE TreeInv'
<1>1. TypeOK'
  BY TypeMountFirst DEF TreeInv
<1>2. Len(list) = 0 /\ Mounted = {}
  BY DEF MountFirst, Mounted
<1>3. /\ Len(list') = 1 /\ list'[1] = f /\ Mounted' = {f}
  BY <1>2, Added DEF MountFirst, Adds, TreeInv
<1>4. point'[f] = Root /\ parent'[f] = None
  BY DEF MountFirst, Adds, TreeInv, TypeOK
<1>5. TreeIsWhole'
  BY <1>3, <1>4 DEF TreeIsWhole
<1>6. ChildrenCounted'
  <2>1. f # None
    BY NoneAssumption
  <2>2. {g \in Mounted' : parent'[g] = f} = {}
    BY <1>3, <1>4, <2>1
  <2>3. children'[f] = 0 /\ failures' \in Nat
    BY CountAssumption DEF MountFirst, TreeInv, Fresh, TypeOK
  <2>4. QED
    BY <1>3, <2>2, <2>3, FS_EmptySet DEF ChildrenCounted
<1>7. Fresh'
  BY <1>3 DEF Fresh, MountFirst, TreeInv
<1>8. QED
  BY <1>1, <1>5, <1>6, <1>7 DEF TreeInv

(* A mount in a directory that carries none yet. *)
LEMMA TreeMount ==
    ASSUME NeverWraps, TreeInv, NEW f \in FS, NEW p \in Points, Mount(f, p)
    PROVE  TreeInv'
<1> DEFINE base == BaseOfPoint(p)
<1>1. base \in Mounted /\ base \in FS /\ Len(list) # 0
  <2>1. p \in Seq(STRING) /\ Len(p) \in Nat
    BY PointsAreSeqs
  <2>2. list \in Seq(FS) /\ list # <<>>
    BY DEF Mount, TreeInv, TypeOK
  <2>3. QED
    BY <2>1, <2>2, BaseMounted, EmptySeq DEF BaseOfPoint, TreeInv
<1>2. /\ Adds(f, p, base) /\ CountsChild(base)
      /\ MountedAt(p) = {} /\ f \in unused /\ unused' = unused \ {f}
      /\ failures' = failures
  BY DEF Mount
<1> HIDE DEF base
<1>3. TypeOK'
  BY TypeMount DEF TreeInv
<1>4. f \notin Mounted
  BY <1>2 DEF Mounted, TreeInv, Fresh
<1>5. /\ Len(list') = Len(list) + 1 /\ Len(list) \in Nat
      /\ \A i \in 1 .. Len(list) : list'[i] = list[i]
      /\ list'[Len(list) + 1] = f
      /\ Mounted' = Mounted \union {f}
  BY <1>2, Added DEF Adds, TreeInv
<1>6. /\ point'[f] = p /\ parent'[f] = base
      /\ \A g \in Mounted : point'[g] = point[g] /\ parent'[g] = parent[g]
  BY <1>2, <1>4 DEF Adds, TreeInv, TypeOK, Mounted
<1>7. TreeIsWhole'
  <2>1. ASSUME NEW i \in 1 .. Len(list) PROVE list[i] \in Mounted /\ point[list[i]] # p
    BY <1>2 DEF Mounted, MountedAt
  <2>2. ASSUME NEW i \in 1 .. Len(list)
        PROVE  /\ \A j \in 1 .. Len(list) : point'[list'[i]] = point'[list'[j]] => i = j
               /\ point'[list'[i]] # point'[list'[Len(list) + 1]]
               /\ parent'[list'[i]] = None <=> i = 1
               /\ i > 1 => \E j \in 1 .. i - 1 : list'[j] = parent'[list'[i]]
               /\ i = 1 => point'[list'[i]] = Root
    <3>1. list'[i] = list[i] /\ point'[list[i]] = point[list[i]] /\ parent'[list[i]] = parent[list[i]]
      BY <1>5, <1>6, <2>1
    <3>2. \A j \in 1 .. Len(list) : list'[j] = list[j] /\ point'[list[j]] = point[list[j]]
      BY <1>5, <1>6, <2>1
    <3>3. \A j \in 1 .. Len(list) : point'[list'[i]] = point'[list'[j]] => i = j
      BY <3>1, <3>2 DEF TreeInv, TreeIsWhole
    <3>4. point'[list'[i]] # point'[list'[Len(list) + 1]]
      BY <1>5, <1>6, <2>1, <3>1
    <3>5. i > 1 => \E j \in 1 .. i - 1 : list'[j] = parent'[list'[i]]
      <4>1. ASSUME i > 1 PROVE \E j \in 1 .. i - 1 : list'[j] = parent'[list'[i]]
        <5>1. PICK j \in 1 .. i - 1 : list[j] = parent[list[i]]
          BY <4>1 DEF TreeInv, TreeIsWhole
        <5>2. j \in 1 .. Len(list)
          BY <1>5, <5>1
        <5>3. QED
          BY <3>1, <3>2, <5>1, <5>2
      <4>2. QED
        BY <4>1
    <3>6. QED
      BY <3>1, <3>3, <3>4, <3>5 DEF TreeInv, TreeIsWhole
  <2>3. LET n == Len(list) + 1
        IN  /\ parent'[list'[n]] # None /\ n > 1
            /\ \E j \in 1 .. n - 1 : list'[j] = parent'[list'[n]]
    <3>1. PICK j \in 1 .. Len(list) : list[j] = base
      BY <1>1 DEF Mounted
    <3>2. base # None
      BY <1>1, NoneAssumption
    <3>3. QED
      BY <1>1, <1>5, <1>6, <3>1, <3>2
  <2>4. 1 .. Len(list') = (1 .. Len(list)) \union {Len(list) + 1}
    BY <1>5
  <2>5. ASSUME NEW i \in 1 .. Len(list')
        PROVE  /\ \A j \in 1 .. Len(list') : point'[list'[i]] = point'[list'[j]] => i = j
               /\ parent'[list'[i]] = None <=> i = 1
               /\ i > 1 => \E j \in 1 .. i - 1 : list'[j] = parent'[list'[i]]
               /\ i = 1 => point'[list'[i]] = Root
    <3>1. CASE i \in 1 .. Len(list)
      BY <2>2, <2>4, <3>1
    <3>2. CASE i = Len(list) + 1
      <4>1. i # 1
        BY <1>1, <1>5, <3>2
      <4>2. QED
        BY <2>2, <2>3, <2>4, <3>2, <4>1
    <3>3. QED
      BY <2>4, <3>1, <3>2
  <2>6. QED
    BY <2>5 DEF TreeIsWhole
<1>8. ChildrenCounted'
  <2>1. children'[base] = children[base] + 1
    <3>1. (children[base] + 1) % CountLimit = children[base] + 1
      BY <1>1, <1>4, CountGrows
    <3>2. QED
      BY <1>1, <1>2, <3>1 DEF CountsChild, TreeInv, TypeOK
  <2>2. \A g \in FS : g # base => children'[g] = children[g]
    BY <1>2 DEF CountsChild, TreeInv, TypeOK
  <2>3. ASSUME NEW g \in Mounted'
        PROVE  children'[g] \in Cardinality(Child(g)') .. Cardinality(Child(g)') + failures'
    <3>0. Child(g)' = {h \in Mounted' : parent'[h] = g}
      BY DEF Child
    <3>1. IsFiniteSet(Child(g)) /\ Cardinality(Child(g)) \in Nat /\ failures \in Nat
      BY Counting, CountAssumption DEF TreeInv, TypeOK
    <3>2. CASE g = base
      <4>1. Child(g)' = Child(g) \union {f}
        BY <1>5, <1>6, <3>0, <3>2 DEF Child
      <4>2. f \notin Child(g)
        BY <1>4 DEF Child
      <4>3. Cardinality(Child(g)') = Cardinality(Child(g)) + 1
        BY <3>1, <4>1, <4>2, FS_AddElement
      <4>4. children[g] \in Cardinality(Child(g)) .. Cardinality(Child(g)) + failures
        BY <1>1, <3>2, CountOf DEF TreeInv
      <4>5. QED
        BY <1>2, <2>1, <3>1, <3>2, <4>3, <4>4
    <3>3. CASE g # base
      <4>1. Child(g)' = Child(g)
        BY <1>5, <1>6, <3>0, <3>3 DEF Child
      <4>2. CASE g \in Mounted
        <5>1. children[g] \in Cardinality(Child(g)) .. Cardinality(Child(g)) + failures
          BY <4>2, CountOf DEF TreeInv
        <5>2. g \in FS
          BY <4>2 DEF Mounted, TreeInv, TypeOK
        <5>3. QED
          BY <1>2, <2>2, <3>3, <4>1, <5>1, <5>2
      <4>3. CASE g = f
        <5>1. ASSUME NEW h \in Mounted PROVE parent[h] # f
          <6>1. PICK i \in 1 .. Len(list) : h = list[i]
            BY DEF Mounted
          <6>2. CASE i = 1
            BY <6>1, <6>2, NoneAssumption DEF TreeInv, TreeIsWhole
          <6>3. CASE i # 1
            <7>1. PICK j \in 1 .. i - 1 : list[j] = parent[list[i]]
              BY <6>1, <6>3 DEF TreeInv, TreeIsWhole
            <7>2. j \in 1 .. Len(list)
              BY <1>5, <6>1, <7>1
            <7>3. QED
              BY <1>4, <6>1, <7>1, <7>2 DEF Mounted
          <6>4. QED
            BY <6>2, <6>3
        <5>2. Cardinality(Child(g)') = 0
          BY <4>1, <4>3, <5>1, FS_EmptySet DEF Child
        <5>3. children'[g] = 0
          BY <1>2, <2>2, <3>3, <4>3 DEF TreeInv, Fresh
        <5>4. QED
          BY <1>2, <3>1, <5>2, <5>3
      <4>4. QED
        BY <1>5, <4>2, <4>3
    <3>4. QED
      BY <3>2, <3>3
  <2>4. QED
    BY <2>3 DEF ChildrenCounted, Child
<1>9. Fresh'
  <2>1. ASSUME NEW i \in 1 .. Len(list') PROVE list'[i] \notin unused'
    <3>1. CASE i \in 1 .. Len(list)
      BY <1>2, <1>5, <3>1 DEF TreeInv, Fresh
    <3>2. CASE i = Len(list) + 1
      BY <1>2, <1>5, <3>2
    <3>3. QED
      BY <1>5, <3>1, <3>2
  <2>2. ASSUME NEW g \in unused' PROVE children'[g] = 0
    <3>1. g \in FS /\ g \in unused /\ g # base
      BY <1>1, <1>2, <2>2 DEF TreeInv, Fresh, TypeOK, Mounted
    <3>2. QED
      BY <1>2, <3>1 DEF CountsChild, TreeInv, Fresh, TypeOK
  <2>3. QED
    BY <2>1, <2>2 DEF Fresh
<1>10. QED
  BY <1>3, <1>7, <1>8, <1>9 DEF TreeInv

LEMMA TreeMountFails ==
    ASSUME NeverWraps, TreeInv, NEW p \in Points, MountFails(p)
    PROVE  TreeInv'
<1> DEFINE base == BaseOfPoint(p)
<1>1. base \in Mounted /\ base \in FS
  <2>1. p \in Seq(STRING) /\ Len(p) \in Nat
    BY PointsAreSeqs
  <2>2. QED
    BY <2>1, BaseMounted DEF BaseOfPoint, MountFails, TreeInv
<1>2. /\ CountsChild(base) /\ failures < MaxFailures /\ failures' = failures + 1
      /\ UNCHANGED <<list, point, parent, unused>>
  BY DEF MountFails
<1> HIDE DEF base
<1>3. TypeOK'
  BY TypeMountFails DEF TreeInv
<1>4. TreeIsWhole'
  BY <1>2 DEF TreeIsWhole, TreeInv
<1>5. (children[base] + 1) % CountLimit = children[base] + 1
  BY <1>1, <1>2, CountGrows
<1>6. children' = [children EXCEPT ![base] = children[base] + 1]
  BY <1>2, <1>5 DEF CountsChild
<1>7. ChildrenCounted'
  <2>1. ASSUME NEW f \in Mounted'
        PROVE  children'[f] \in Cardinality(Child(f)') .. Cardinality(Child(f)') + failures'
    <3>1. Child(f)' = Child(f) /\ f \in Mounted /\ f \in FS
      BY <1>2 DEF Child, Mounted, TreeInv, TypeOK
    <3>2. Cardinality(Child(f)) \in Nat /\ failures \in Nat
      BY Counting, CountAssumption DEF TreeInv, TypeOK
    <3>3. children[f] \in Cardinality(Child(f)) .. Cardinality(Child(f)) + failures
      BY <3>1, CountOf DEF TreeInv
    <3>4. children'[f] \in children[f] .. children[f] + 1
      BY <1>6, <3>1, <3>2, <3>3 DEF TreeInv, TypeOK
    <3>5. QED
      BY <1>2, <3>1, <3>2, <3>3, <3>4
  <2>2. QED
    BY <2>1 DEF ChildrenCounted, Child
<1>8. Fresh'
  <2>1. base \notin unused
    BY <1>1 DEF Mounted, TreeInv, Fresh
  <2>2. QED
    BY <1>2, <1>6, <2>1 DEF Fresh, TreeInv, TypeOK
<1>9. QED
  BY <1>3, <1>4, <1>7, <1>8 DEF TreeInv

(* Nothing is mounted in a file system whose count is zero. *)
LEMMA NoChild ==
    ASSUME TreeInv, NEW f \in Mounted, children[f] = 0
    PROVE  Child(f) = {}
<1>1. Cardinality(Child(f)) \in Nat /\ IsFiniteSet(Child(f)) /\ failures \in Nat
  BY Counting, CountAssumption DEF TreeInv, TypeOK
<1>2. Cardinality(Child(f)) = 0
  BY <1>1, CountOf DEF TreeInv
<1>3. QED
  BY <1>1, <1>2, FS_EmptySet

(* An entry that is taken out. *)
LEMMA Removed ==
    ASSUME TreeInv, NEW i \in 1 .. Len(list), Umount(i)
    PROVE  Mounted' = Mounted \ {list[i]}
<1> DEFINE f == list[i]
           from(j) == IF j < i THEN j ELSE j + 1
<1>0. i \in 1 .. Len(list) /\ Len(list) \in Nat /\ Len(list) > 0 /\ i \in Nat
  BY DEF TreeInv, TypeOK
<1>1. /\ Len(list') = Len(list) - 1
      /\ \A j \in 1 .. Len(list') : list'[j] = list[from(j)]
  <2>1. list \in Seq(FS) /\ i \in DOMAIN list /\ list' = RemoveAt(list, i)
    BY DEF Umount, TreeInv, TypeOK
  <2>2. /\ Len(list') = Len(list) - 1
        /\ \A j \in 1 .. (Len(list) - 1) : list'[j] = IF j < i THEN list[j] ELSE list[j + 1]
    BY <2>1, RemoveAtFacts
  <2>3. QED
    BY <2>2
<1>2. \A j \in 1 .. Len(list') : from(j) \in 1 .. Len(list) /\ from(j) # i
  BY <1>0, <1>1
<1>3. \A j, k \in 1 .. Len(list) : list[j] = list[k] => j = k
  BY DEF TreeInv, TreeIsWhole
<1>4. Mounted' \subseteq Mounted \ {f}
  <2>1. ASSUME NEW j \in 1 .. Len(list') PROVE list'[j] \in Mounted /\ list'[j] # f
    BY <1>1, <1>2, <1>3 DEF Mounted
  <2>2. QED
    BY <2>1 DEF Mounted
<1>5. ASSUME NEW g \in Mounted, g # f PROVE g \in Mounted'
  <2>1. PICK k \in 1 .. Len(list) : g = list[k]
    BY DEF Mounted
  <2>2. k # i
    BY <1>5, <2>1
  <2>3. PICK j \in 1 .. Len(list') : from(j) = k
    <3>1. CASE k < i
      <4>1. k \in 1 .. Len(list') /\ from(k) = k
        BY <1>0, <1>1, <3>1
      <4>2. QED
        BY <4>1
    <3>2. CASE k > i
      <4>1. k - 1 \in 1 .. Len(list') /\ from(k - 1) = k
        BY <1>0, <1>1, <3>2
      <4>2. QED
        BY <4>1
    <3>3. QED
      BY <1>0, <2>1, <2>2, <3>1, <3>2
  <2>4. QED
    BY <1>1, <2>1, <2>3 DEF Mounted
<1>6. QED
  BY <1>4, <1>5

LEMMA TreeUmount ==
    ASSUME TreeInv, NEW i \in 1 .. Len(list), Umount(i)
    PROVE  TreeInv'
<1> DEFINE f == list[i]
           from(j) == IF j < i THEN j ELSE j + 1
<1>0. i \in 1 .. Len(list) /\ Len(list) \in Nat /\ Len(list) > 0 /\ i \in Nat
  BY DEF TreeInv, TypeOK
<1>1. /\ f \in Mounted /\ f \in FS /\ children[f] = 0
      /\ UNCHANGED <<point, parent, unused, failures>>
  BY DEF Umount, Mounted, TreeInv, TypeOK
<1>2. TypeOK'
  BY TypeUmount DEF TreeInv
<1>3. /\ Len(list') = Len(list) - 1
      /\ \A j \in 1 .. Len(list') : list'[j] = list[from(j)]
  <2>1. list \in Seq(FS) /\ i \in DOMAIN list /\ list' = RemoveAt(list, i)
    BY DEF Umount, TreeInv, TypeOK
  <2>2. /\ Len(list') = Len(list) - 1
        /\ \A j \in 1 .. (Len(list) - 1) : list'[j] = IF j < i THEN list[j] ELSE list[j + 1]
    BY <2>1, RemoveAtFacts
  <2>3. QED
    BY <2>2
<1>4. \A j \in 1 .. Len(list') : from(j) \in 1 .. Len(list) /\ from(j) # i
  BY <1>0, <1>3
<1>5. \A j, k \in 1 .. Len(list) : list[j] = list[k] => j = k
  BY DEF TreeInv, TreeIsWhole
<1>6. Child(f) = {}
  BY <1>1, NoChild
<1>7. \A j \in 1 .. Len(list) : parent[list[j]] # f
  BY <1>6 DEF Child, Mounted
<1>8. Mounted' = Mounted \ {f}
  BY Removed
<1>9. ~ (i = 1 /\ Len(list) > 1)
  <2>1. ASSUME i = 1, Len(list) > 1 PROVE FALSE
    <3>1. 2 \in 1 .. Len(list)
      BY <1>0, <2>1
    <3>2. \E j \in 1 .. 2 - 1 : list[j] = parent[list[2]]
      BY <3>1 DEF TreeInv, TreeIsWhole
    <3>3. QED
      BY <1>7, <2>1, <3>1, <3>2
  <2>2. QED
    BY <2>1
<1>10. TreeIsWhole'
  <2>1. ASSUME NEW j \in 1 .. Len(list')
        PROVE  /\ \A k \in 1 .. Len(list') : point[list'[j]] = point[list'[k]] => j = k
               /\ parent[list'[j]] = None <=> j = 1
               /\ j > 1 => \E k \in 1 .. j - 1 : list'[k] = parent[list'[j]]
               /\ j = 1 => point[list'[j]] = Root
    <3>1. /\ list'[j] = list[from(j)] /\ from(j) \in 1 .. Len(list) /\ from(j) # i
          /\ i # 1 /\ (j = 1 <=> from(j) = 1)
      <4>1. list'[j] = list[from(j)] /\ from(j) \in 1 .. Len(list) /\ from(j) # i
        BY <1>3, <1>4
      <4>2. i # 1
        BY <1>0, <1>3, <1>9
      <4>3. QED
        BY <1>0, <1>3, <4>1, <4>2
    <3>2. ASSUME NEW k \in 1 .. Len(list'), point[list'[j]] = point[list'[k]] PROVE j = k
      <4>1. list'[k] = list[from(k)] /\ from(k) \in 1 .. Len(list)
        BY <1>3, <1>4
      <4>2. \A m, n \in 1 .. Len(list) : point[list[m]] = point[list[n]] => m = n
        BY DEF TreeInv, TreeIsWhole
      <4>3. point[list[from(j)]] = point[list[from(k)]]
        BY <3>1, <3>2, <4>1
      <4>4. from(j) = from(k)
        BY <3>1, <4>1, <4>2, <4>3
      <4>5. QED
        BY <1>0, <1>3, <4>4
    <3>3. ASSUME j > 1 PROVE \E k \in 1 .. j - 1 : list'[k] = parent[list'[j]]
      <4>1. from(j) > 1
        BY <1>0, <1>3, <3>3
      <4>2. PICK l \in 1 .. from(j) - 1 : list[l] = parent[list[from(j)]]
        BY <3>1, <4>1 DEF TreeInv, TreeIsWhole
      <4>3. l # i /\ l \in 1 .. Len(list)
        <5>1. l \in 1 .. Len(list)
          BY <1>0, <1>3, <4>2
        <5>2. QED
          BY <1>7, <3>1, <4>2, <5>1
      <4>4. CASE l < i
        <5>1. l \in 1 .. j - 1 /\ from(l) = l /\ l \in 1 .. Len(list')
          BY <1>0, <1>3, <4>2, <4>3, <4>4
        <5>2. QED
          BY <1>3, <3>1, <4>2, <5>1
      <4>5. CASE l > i
        <5>1. l - 1 \in 1 .. j - 1 /\ from(l - 1) = l /\ l - 1 \in 1 .. Len(list')
          BY <1>0, <1>3, <4>2, <4>3, <4>5
        <5>2. QED
          BY <1>3, <3>1, <4>2, <5>1
      <4>6. QED
        BY <1>0, <4>3, <4>4, <4>5
    <3>4. /\ parent[list'[j]] = None <=> j = 1
          /\ j = 1 => point[list'[j]] = Root
      BY <3>1 DEF TreeInv, TreeIsWhole
    <3>5. QED
      BY <3>2, <3>3, <3>4
  <2>2. QED
    BY <1>1, <2>1 DEF TreeIsWhole
<1>11. ChildrenCounted'
  <2>1. ASSUME NEW g \in Mounted'
        PROVE  children'[g] \in Cardinality(Child(g)') .. Cardinality(Child(g)') + failures'
    <3>0. Child(g)' = {h \in Mounted' : parent'[h] = g}
      BY DEF Child
    <3>1. /\ g \in Mounted /\ g \in FS /\ g # f
          /\ Child(g)' = Child(g) \ {f}
      <4>1. g \in Mounted /\ g # f
        BY <1>8
      <4>2. g \in FS
        BY <4>1 DEF Mounted, TreeInv, TypeOK
      <4>3. QED
        BY <1>1, <1>8, <3>0, <4>1, <4>2 DEF Child
    <3>2. IsFiniteSet(Child(g)) /\ Cardinality(Child(g)) \in Nat /\ failures \in Nat
      BY Counting, CountAssumption DEF TreeInv, TypeOK
    <3>3. children[g] \in Cardinality(Child(g)) .. Cardinality(Child(g)) + failures
      BY <3>1, CountOf DEF TreeInv
    <3>4. CASE g = parent[f]
      <4>1. f \in Child(g)
        BY <1>1, <3>4 DEF Child
      <4>2. Cardinality(Child(g)') = Cardinality(Child(g)) - 1 /\ Cardinality(Child(g)') \in Nat
        BY <3>1, <3>2, <4>1, FS_RemoveElement, FS_CardinalityType
      <4>3. g # None /\ children[g] # 0
        BY <3>1, <3>2, <3>3, <4>2, NoneAssumption
      <4>4. children'[g] = children[g] - 1
        BY <3>1, <3>4, <4>3 DEF Umount, Forgets, TreeInv, TypeOK
      <4>5. QED
        BY <1>1, <3>2, <3>3, <4>2, <4>4
    <3>5. CASE g # parent[f]
      <4>1. Child(g)' = Child(g)
        BY <3>1, <3>5 DEF Child
      <4>2. children'[g] = children[g]
        BY <3>1, <3>5 DEF Umount, Forgets, TreeInv, TypeOK
      <4>3. QED
        BY <1>1, <3>3, <4>1, <4>2
    <3>6. QED
      BY <3>4, <3>5
  <2>2. QED
    BY <2>1 DEF ChildrenCounted, Child
<1>12. Fresh'
  <2>1. ASSUME NEW g \in unused PROVE children'[g] = 0
    BY <2>1 DEF Umount, Forgets, TreeInv, Fresh, TypeOK
  <2>2. \A j \in 1 .. Len(list') : list'[j] \notin unused
    BY <1>3, <1>4 DEF TreeInv, Fresh
  <2>3. QED
    BY <1>1, <2>1, <2>2 DEF Fresh
<1>13. QED
  BY <1>2, <1>10, <1>11, <1>12 DEF TreeInv

LEMMA TreeStep ==
    ASSUME NeverWraps PROVE TreeInv /\ [Next]_vars => TreeInv'
<1> SUFFICES ASSUME TreeInv, [Next]_vars PROVE TreeInv'
  OBVIOUS
<1>1. ASSUME NEW f \in FS, MountFirst(f) PROVE TreeInv'
  BY <1>1, TreeMountFirst
<1>2. ASSUME NEW i \in 1 .. Len(list), Umount(i) PROVE TreeInv'
  BY <1>2, TreeUmount
<1>3. ASSUME NEW f \in FS, NEW p \in Points, Mount(f, p) PROVE TreeInv'
  BY <1>3, TreeMount
<1>4. ASSUME NEW p \in Points, MountFails(p) PROVE TreeInv'
  BY <1>4, TreeMountFails
<1>5. CASE UNCHANGED entryVars
  <2>1. TypeOK'
    BY TypeStep DEF TreeInv
  <2>2. QED
    <3>1. TreeIsWhole' /\ Fresh'
      BY <1>5 DEF TreeInv, TreeIsWhole, Fresh, entryVars
    <3>2. Mounted' = Mounted
      BY <1>5 DEF Mounted, entryVars
    <3>3. ChildrenCounted'
      BY <1>5, <3>2 DEF TreeInv, ChildrenCounted, entryVars
    <3>4. QED
      BY <2>1, <3>1, <3>3 DEF TreeInv
<1>6. ASSUME NEW t \in Task,
             \/ \E p \in Files : LookUpFile(t, p)
             \/ \E p \in Points : LookUpDirectory(t, p)
             \/ UseEnds(t) \/ Open(t) \/ OpenLosesFile(t) \/ Close(t)
      PROVE  UNCHANGED entryVars
  BY <1>6 DEF LookUpFile, LookUpDirectory, LookUp, UseEnds, Open, OpenLosesFile, Close
<1>7. QED
  BY <1>1, <1>2, <1>3, <1>4, <1>5, <1>6 DEF Next, vars

LEMMA TreeInvariant == ASSUME NeverWraps PROVE Spec => []TreeInv
<1>1. TreeInv /\ [Next]_vars => TreeInv'
  BY TreeStep
<1>2. QED
  BY <1>1, TreeInit, PTL DEF Spec

(* As long as the count has room, no umount takes away a file system that  *)
(* others are mounted in, and no directory carries two. *)
THEOREM TreeIsWholeHolds == ASSUME NeverWraps PROVE Spec => []TreeIsWhole
<1>1. TreeInv => TreeIsWhole
  BY DEF TreeInv
<1>2. QED
  BY <1>1, TreeInvariant, PTL

(* As long as it has room, a count is too high by no more than the mounts  *)
(* that failed, and never too low. *)
THEOREM ChildrenCountedHolds == ASSUME NeverWraps PROVE Spec => []ChildrenCounted
<1>1. TreeInv => ChildrenCounted
  BY DEF TreeInv
<1>2. QED
  BY <1>1, TreeInvariant, PTL

-----------------------------------------------------------------------------
(* KeepsTree: what each step does to the mounted file systems and to the   *)
(* ones they are mounted in.                                               *)

UpOf == [f \in FS |-> IF f \in Mounted THEN parent[f] ELSE None]

LEMMA UpOfAdded ==
    ASSUME TreeInv, NEW f \in FS, NEW p, NEW base \in FS \union {None},
           f \notin Mounted, Adds(f, p, base)
    PROVE  Mounted' = Mounted \union {f} /\ UpOf' = [UpOf EXCEPT ![f] = base]
<1>1. Mounted' = Mounted \union {f}
  BY Added DEF Adds, TreeInv
<1>2. parent' = [parent EXCEPT ![f] = base] /\ parent \in [FS -> FS \union {None}]
  BY DEF Adds, TreeInv, TypeOK
<1>3. QED
  BY <1>1, <1>2 DEF UpOf

LEMMA FreshNotMounted ==
    ASSUME TreeInv, NEW f \in unused PROVE f \notin Mounted
BY DEF TreeInv, Fresh, Mounted

LEMMA MountFirstPlants ==
    ASSUME TreeInv, NEW f \in FS, MountFirst(f) PROVE Mounts!Plant(f)
<1>1. Mounted = {} /\ f \notin Mounted
  BY DEF MountFirst, Mounted
<1>2. Mounted' = Mounted \union {f} /\ UpOf' = [UpOf EXCEPT ![f] = None]
  BY <1>1, UpOfAdded DEF MountFirst
<1>3. Mounted' = {f} /\ UpOf' = UpOf
  BY <1>1, <1>2 DEF UpOf
<1>4. QED
  BY <1>1, <1>3 DEF Mounts!Plant, UpOf

LEMMA MountGrows ==
    ASSUME TreeInv, NEW f \in FS, NEW p \in Points, Mount(f, p)
    PROVE  \E base \in FS : Mounts!Grow(f, base)
<1>1. PICK base \in FS : base \in Mounted /\ Adds(f, p, base)
  <2>1. p \in Seq(STRING) /\ Len(p) \in Nat
    BY PointsAreSeqs
  <2>2. BaseOfPoint(p) \in Mounted /\ BaseOfPoint(p) \in FS
    BY <2>1, BaseMounted DEF Mount, BaseOfPoint, TreeInv
  <2>3. QED
    BY <2>2 DEF Mount, Adds
<1>2. f \notin Mounted
  BY FreshNotMounted DEF Mount
<1>3. Mounted' = Mounted \union {f} /\ UpOf' = [UpOf EXCEPT ![f] = base]
  BY <1>1, <1>2, UpOfAdded
<1>4. Mounts!Grow(f, base)
  BY <1>1, <1>2, <1>3 DEF Mounts!Grow, UpOf
<1>5. QED
  BY <1>4

LEMMA UmountPrunes ==
    ASSUME TreeInv, NEW i \in 1 .. Len(list), Umount(i)
    PROVE  \E f \in FS : Mounts!Prune(f)
<1>1. PICK f \in FS : f = list[i] /\ f \in Mounted
  BY DEF Mounted, TreeInv, TypeOK
<1>2. Mounted' = Mounted \ {f} /\ children[f] = 0 /\ parent' = parent
  BY <1>1, Removed DEF Umount
<1>3. Child(f) = {}
  BY <1>1, <1>2, NoChild
<1>4. Mounts!Below(f) = {}
  <2>1. Mounted \subseteq FS
    BY DEF Mounted, TreeInv, TypeOK
  <2>2. \A g \in Mounted : UpOf[g] = parent[g]
    BY <2>1 DEF UpOf
  <2>3. \A g \in Mounted : UpOf[g] # f
    BY <1>3, <2>2 DEF Child
  <2>4. QED
    BY <2>3 DEF Mounts!Below, UpOf
<1>5. UpOf' = [UpOf EXCEPT ![f] = None]
  BY <1>1, <1>2 DEF UpOf
<1>6. Mounts!Prune(f)
  BY <1>1, <1>2, <1>4, <1>5 DEF Mounts!Prune, UpOf
<1>7. QED
  BY <1>6

LEMMA VfsTreeStep ==
    ASSUME TreeInv, [Next]_vars PROVE [Mounts!Next]_(Mounts!vars)
<1>1. ASSUME NEW f \in FS, MountFirst(f) PROVE Mounts!Next
  BY <1>1, MountFirstPlants DEF Mounts!Next
<1>2. ASSUME NEW i \in 1 .. Len(list), Umount(i) PROVE Mounts!Next
  BY <1>2, UmountPrunes DEF Mounts!Next
<1>3. ASSUME NEW f \in FS, NEW p \in Points, Mount(f, p) PROVE Mounts!Next
  BY <1>3, MountGrows DEF Mounts!Next
<1>4. CASE list' = list /\ parent' = parent
  BY <1>4 DEF Mounts!vars, Mounted
<1>5. ASSUME NEW p \in Points, MountFails(p) PROVE list' = list /\ parent' = parent
  BY <1>5 DEF MountFails
<1>6. ASSUME NEW t \in Task,
             \/ \E p \in Files : LookUpFile(t, p)
             \/ \E p \in Points : LookUpDirectory(t, p)
             \/ UseEnds(t) \/ Open(t) \/ OpenLosesFile(t) \/ Close(t)
      PROVE  list' = list /\ parent' = parent
  BY <1>6 DEF LookUpFile, LookUpDirectory, LookUp, UseEnds, Open, OpenLosesFile, Close,
     entryVars
<1>7. QED
  BY <1>1, <1>2, <1>3, <1>4, <1>5, <1>6 DEF Next, vars, entryVars

(* As long as the count has room, the mounted file systems are a tree at   *)
(* every step: a mount adds one below another, an umount takes away one    *)
(* that nothing is mounted in (vfs.c: _vfs_umount, delete_FS_entry).       *)
THEOREM VfsKeepsTree == ASSUME NeverWraps PROVE Spec => KeepsTree
<1>1. Init => Mounts!Init
  BY DEF Init, Mounts!Init, Mounted
<1>2. TreeInv /\ [Next]_vars => [Mounts!Next]_(Mounts!vars)
  BY VfsTreeStep
<1>3. QED
  BY <1>1, <1>2, TreeInvariant, PTL DEF Spec, KeepsTree, Mounts!Spec

(* There is one root, and going up from any mounted file system one comes  *)
(* to it: what a look-up goes through is there (vfs.c: get_path_base_FS).  *)
THEOREM RootIsReached ==
    ASSUME NeverWraps PROVE Spec => [](Mounts!OneRoot /\ Mounts!LeadsUp)
<1>1. ASSUME TreeInv PROVE Mounts!OneRoot
  <2>1. \A f \in Mounted : parent[f] = None => f = list[1]
    BY <1>1 DEF TreeInv, TreeIsWhole, Mounted
  <2>2. Mounted \subseteq FS
    BY <1>1 DEF TreeInv, TypeOK, Mounted
  <2>3. QED
    BY <2>1, <2>2 DEF Mounts!OneRoot
<1>2. ASSUME TreeInv, NEW S \in SUBSET Mounted, S # {}
      PROVE  \E f \in S : UpOf[f] \notin S /\ UpOf[f] \in Mounted \union {None}
  <2> DEFINE I == {i \in 1 .. Len(list) : list[i] \in S}
  <2>1. I \subseteq Nat /\ I # {}
    BY <1>2 DEF Mounted
  <2>2. PICK i \in I : \A j \in I : i =< j
    <3> HIDE DEF I
    <3>1. QED
      BY <2>1, LeastExists
  <2>3. i \in 1 .. Len(list) /\ list[i] \in S /\ UpOf[list[i]] = parent[list[i]]
    BY <1>2 DEF UpOf, Mounted, TreeInv, TypeOK
  <2>4. CASE i = 1
    <3>1. UpOf[list[i]] = None /\ None \notin S
      BY <1>2, <2>3, <2>4, NoneAssumption DEF TreeInv, TreeIsWhole, TypeOK, Mounted
    <3>2. QED
      BY <2>3, <3>1
  <2>5. CASE i # 1
    <3>1. PICK j \in 1 .. i - 1 : list[j] = parent[list[i]]
      BY <1>2, <2>3, <2>5 DEF TreeInv, TreeIsWhole
    <3>2. j \in 1 .. Len(list) /\ j < i
      BY <1>2, <2>3 DEF TreeInv, TypeOK
    <3>3. list[j] \notin S /\ list[j] \in Mounted
      BY <2>2, <2>3, <3>2 DEF Mounted
    <3>4. QED
      BY <2>3, <3>1, <3>3
  <2>6. QED
    BY <2>4, <2>5
<1>3. TreeInv => Mounts!LeadsUp
  BY <1>2 DEF Mounts!LeadsUp, UpOf
<1>4. QED
  BY <1>1, <1>3, TreeInvariant, PTL
=============================================================================
