---------------------------- MODULE RamfsProofs ----------------------------
(***************************************************************************)
(* Theorems about Ramfs, for any number of tasks, nodes, names and open    *)
(* files.  First the tree, then the list of open files, then the two       *)
(* together.  What the fold over the directories of a path gives is not    *)
(* needed: only that its last step finds an entry of a directory.          *)
(***************************************************************************)
EXTENDS Ramfs, TLAPS, ListLemmas, FiniteSetTheorems

-----------------------------------------------------------------------------
(* A name that is found is found in the list. *)

LEMMA PositionFound ==
    ASSUME NEW d, NEW nm, kids[d] \in Seq(Node), Position(d, nm) # 0
    PROVE  Position(d, nm) \in DOMAIN kids[d]
<1> DEFINE I == {i \in 1 .. Len(kids[d]) : name[kids[d][i]] = nm}
<1>1. Position(d, nm) = IF I # {} THEN Min(I) ELSE 0
  BY DEF Position, SelectInSeq
<1>2. I # {} /\ I \subseteq Nat
  BY <1>1
<1>3. Min(I) \in I
  BY <1>2, LeastExists DEF Min
<1>4. QED
  BY <1>1, <1>2, <1>3

TreeType ==
    /\ kind \in [Node -> Kind] /\ kind[Root] = "dir"
    /\ kids \in [Node -> Seq(Node)]

TreeInv == TreeType /\ TreeIsWhole

LEMMA EmptyUnlessDir ==
    ASSUME TreeInv, NEW d \in Node, kind[d] # "dir" PROVE DOMAIN kids[d] = {}
  BY DEF TreeInv, TreeIsWhole

LEMMA AliveFinite == IsFiniteSet(Alive \ {Root})
  BY RootAssumption, FS_Subset DEF Alive

(* What a path resolves to is the entry of its directory that Item names.  *)
LEMMA LookupFound ==
    ASSUME ThroughFiles = FALSE, TreeInv, NEW p, Used(p), Lookup(p) \in Node \ {Root}
    PROVE  /\ Parent(p) \in Node /\ kind[Parent(p)] = "dir"
           /\ Item(p) \in DOMAIN kids[Parent(p)] /\ kids[Parent(p)][Item(p)] = Lookup(p)
           /\ Lookup(p) \in Alive
<1>1. p # <<>> /\ Descend(Parent(p), Last(p)) \in Node
  BY DEF Lookup
<1>2. Parent(p) \in Node
  BY <1>1, RootAssumption DEF Descend
<1>3. kind[Parent(p)] = "dir"
  BY <1>2 DEF Used, ThroughFile
<1>4. /\ Position(Parent(p), Last(p)) # 0
      /\ Lookup(p) = kids[Parent(p)][Position(Parent(p), Last(p))]
  BY <1>1, <1>2, <1>3, RootAssumption DEF Descend, Lookup
<1>5. Position(Parent(p), Last(p)) \in DOMAIN kids[Parent(p)]
  BY <1>2, <1>4, PositionFound DEF TreeInv, TreeType
<1>6. Item(p) \in DOMAIN kids[Parent(p)] /\ kids[Parent(p)][Item(p)] = Lookup(p)
  BY <1>1, <1>4, <1>5 DEF Item
<1>7. Lookup(p) \in Alive
  BY <1>2, <1>4, <1>5 DEF TreeInv, TreeIsWhole
<1>8. QED
  BY <1>2, <1>3, <1>6, <1>7

LEMMA TreeInit == Init => TreeInv
<1>1. ASSUME Init PROVE TreeInv
  <2>1. TreeType
    BY <1>1, RootAssumption DEF Init, TreeType, Kind, Living
  <2>2. Alive = {Root}
    BY <1>1, RootAssumption DEF Init, Alive, Living
  <2>3. Cardinality(Alive \ {Root}) = 0
    BY <2>2, FS_EmptySet
  <2>4. QED
    BY <1>1, <2>1, <2>2, <2>3 DEF Init, TreeInv, TreeIsWhole
<1>2. QED
  BY <1>1

LEMMA NewNodeTree ==
    ASSUME TreeInv, NEW parent, NEW nm, NEW k \in Living, NewNode(parent, nm, k)
    PROVE  TreeInv'
<1>1. PICK n \in Node :
        /\ kind[n] = "free"
        /\ parent \in Node /\ kind[parent] = "dir"
        /\ kind'  = [kind EXCEPT ![n] = k]
        /\ kids'  = [kids EXCEPT ![parent] = Append(@, n)]
        /\ count' = count + 1
  BY DEF NewNode
<1>2. TreeType'
  <2>1. Append(kids[parent], n) \in Seq(Node)
    BY <1>1 DEF TreeInv, TreeType
  <2>2. QED
    BY <1>1, <2>1, RootAssumption DEF TreeInv, TreeType, Kind
<1>3. n \notin Alive /\ n # Root /\ Alive' = Alive \union {n}
  BY <1>1 DEF TreeInv, TreeType, Alive, Living
<1>4. /\ kids'[parent] = Append(kids[parent], n)
      /\ \A d \in Node \ {parent} : kids'[d] = kids[d]
      /\ DOMAIN kids'[parent] = DOMAIN kids[parent] \union {Len(kids[parent]) + 1}
      /\ kids'[parent][Len(kids[parent]) + 1] = n
      /\ \A i \in DOMAIN kids[parent] : kids'[parent][i] = kids[parent][i]
      /\ Len(kids[parent]) + 1 \notin DOMAIN kids[parent]
  <2>1. kids[parent] \in Seq(Node) /\ kids'[parent] = Append(kids[parent], n)
    BY <1>1 DEF TreeInv, TreeType
  <2>2. /\ Len(kids'[parent]) = Len(kids[parent]) + 1
        /\ \A i \in 1 .. Len(kids[parent]) : kids'[parent][i] = kids[parent][i]
        /\ kids'[parent][Len(kids[parent]) + 1] = n
        /\ kids'[parent] \in Seq(Node)
    BY <2>1, AppendProperties
  <2>3. QED
    BY <1>1, <2>1, <2>2 DEF TreeInv, TreeType
<1>5. \A d \in Node : \A i \in DOMAIN kids'[d] :
        \/ d = parent /\ i = Len(kids[parent]) + 1 /\ kids'[d][i] = n
        \/ /\ i \in DOMAIN kids[d] /\ kids'[d][i] = kids[d][i]
           /\ kids[d][i] \in Alive \ {Root} /\ kids'[d][i] # n /\ kind[d] = "dir"
           /\ d = parent => i # Len(kids[parent]) + 1
  BY <1>1, <1>3, <1>4 DEF TreeInv, TreeIsWhole
<1>6. \A m \in Alive' \ {Root} :
         \E d \in Node : \E i \in DOMAIN kids'[d] : kids'[d][i] = m
  <2>1. CASE TRUE
    <3>1. kids'[parent][Len(kids[parent]) + 1] = n
      BY <1>4
    <3>2. ASSUME NEW m \in Alive \ {Root}
          PROVE  \E d \in Node : \E i \in DOMAIN kids'[d] : kids'[d][i] = m
      <4>0. PICK d \in Node : \E i \in DOMAIN kids[d] : kids[d][i] = m
        BY DEF TreeInv, TreeIsWhole
      <4>1. PICK i \in DOMAIN kids[d] : kids[d][i] = m
        BY <4>0
      <4>2. i \in DOMAIN kids'[d] /\ kids'[d][i] = m
        BY <1>1, <1>4, <4>1
      <4>3. QED
        BY <4>2
    <3>3. QED
      BY <1>1, <1>3, <1>4, <3>1, <3>2
  <2>2. QED
    BY <2>1
<1>7. ASSUME NEW d \in Node, NEW i \in DOMAIN kids'[d]
      PROVE  /\ kind'[d] = "dir" /\ kids'[d][i] \in Alive' \ {Root}
             /\ \A e \in Node : \A j \in DOMAIN kids'[e] :
                   kids'[e][j] = kids'[d][i] => d = e /\ i = j
  <2>1. kind'[d] = "dir" /\ kids'[d][i] \in Alive' \ {Root}
    BY <1>1, <1>3, <1>5 DEF TreeInv, TreeType
  <2>2. ASSUME NEW e \in Node, NEW j \in DOMAIN kids'[e], kids'[e][j] = kids'[d][i]
        PROVE  d = e /\ i = j
    <3>1. CASE kids'[d][i] = n
      BY <1>5, <2>2, <3>1
    <3>2. CASE kids'[d][i] # n
      <4>1. /\ i \in DOMAIN kids[d] /\ kids'[d][i] = kids[d][i]
            /\ j \in DOMAIN kids[e] /\ kids'[e][j] = kids[e][j]
        BY <1>5, <2>2, <3>2
      <4>2. QED
        BY <2>2, <4>1 DEF TreeInv, TreeIsWhole
    <3>3. QED
      BY <3>1, <3>2
  <2>3. QED
    BY <2>1, <2>2
<1>8. count' = Cardinality(Alive' \ {Root})
  <2>1. Alive' \ {Root} = (Alive \ {Root}) \union {n} /\ n \notin Alive \ {Root}
    BY <1>3
  <2>2. Cardinality((Alive \ {Root}) \union {n}) = Cardinality(Alive \ {Root}) + 1
    BY <2>1, AliveFinite, FS_AddElement
  <2>3. QED
    BY <1>1, <2>1, <2>2 DEF TreeInv, TreeIsWhole
<1>9. QED
  BY <1>2, <1>6, <1>7, <1>8 DEF TreeInv, TreeIsWhole

LEMMA DeleteTree ==
    ASSUME TreeInv, NEW base \in Node, kind[base] = "dir", NEW target \in Node \ {Root},
           NEW item \in DOMAIN kids[base], kids[base][item] = target,
           DeleteNode(base, target, item)
    PROVE  TreeInv'
<1>0. /\ kids[base] \in Seq(Node) /\ item \in DOMAIN kids[base] /\ kids[base][item] = target
      /\ target \in Alive
      /\ kids[target] \in Seq(Node) /\ DOMAIN kids[target] = {}
  <2>1. kids[base] \in Seq(Node) /\ item \in DOMAIN kids[base] /\ kids[base][item] = target
    BY DEF TreeInv, TreeType
  <2>2. target \in Alive
    BY <2>1 DEF TreeInv, TreeIsWhole
  <2>3. kids[target] \in Seq(Node)
    BY DEF TreeInv, TreeType
  <2>4. DOMAIN kids[target] = {}
    BY <2>3, EmptyUnlessDir DEF DeleteNode, MayDelete
  <2>5. QED
    BY <2>1, <2>2, <2>3, <2>4
<1>1. base # target
  BY <1>0
<1>2. /\ kind' = [kind EXCEPT ![target] = "free"]
      /\ kids' = [kids EXCEPT ![base] = RemoveAt(@, item)]
      /\ count' = count - 1
  BY DEF DeleteNode
<1>3. TreeType'
  <2>1. RemoveAt(kids[base], item) \in Seq(Node)
    BY <1>0, RemoveAtFacts
  <2>2. QED
    BY <1>2, <2>1 DEF TreeInv, TreeType, Kind
<1>4. Alive' = Alive \ {target}
  BY <1>2 DEF TreeInv, TreeType, Alive, Living
<1> DEFINE Old(d, j) == IF d = base /\ item =< j THEN j + 1 ELSE j
<1>5. /\ kids'[base] \in Seq(Node)
      /\ Len(kids'[base]) = Len(kids[base]) - 1
      /\ \A j \in 1 .. (Len(kids[base]) - 1) :
            kids'[base][j] = IF j < item THEN kids[base][j] ELSE kids[base][j + 1]
      /\ \A d \in Node \ {base} : kids'[d] = kids[d]
  <2>1. kids'[base] = RemoveAt(kids[base], item)
    BY <1>2 DEF TreeInv, TreeType
  <2>2. QED
    BY <1>0, <1>2, <2>1, RemoveAtFacts, ZenonT(30) DEF TreeInv, TreeType
<1>51. /\ DOMAIN kids[base] = 1 .. Len(kids[base]) /\ Len(kids[base]) \in Nat
       /\ DOMAIN kids'[base] = 1 .. (Len(kids[base]) - 1)
       /\ item \in 1 .. Len(kids[base])
  BY <1>0, <1>5
<1>52. \A d \in Node : \A i \in DOMAIN kids[d] :
          \A e \in Node : \A j \in DOMAIN kids[e] : kids[e][j] = kids[d][i] => d = e /\ i = j
  BY DEF TreeInv, TreeIsWhole
<1>6. ASSUME NEW d \in Node, NEW j \in DOMAIN kids'[d]
      PROVE  /\ Old(d, j) \in DOMAIN kids[d] /\ kids'[d][j] = kids[d][Old(d, j)]
             /\ d = base => Old(d, j) # item
  <2>1. CASE d = base
    <3>1. j \in 1 .. (Len(kids[base]) - 1) /\ j \in Nat /\ item \in Nat
      BY <1>51, <2>1
    <3>2. kids'[base][j] = IF j < item THEN kids[base][j] ELSE kids[base][j + 1]
      BY <1>5, <3>1
    <3>3. CASE j < item
      BY <1>51, <2>1, <3>1, <3>2, <3>3
    <3>4. CASE ~ (j < item)
      BY <1>51, <2>1, <3>1, <3>2, <3>4
    <3>5. QED
      BY <3>3, <3>4
  <2>2. CASE d # base
    BY <1>5, <2>2
  <2>3. QED
    BY <2>1, <2>2
<1>7. ASSUME NEW d \in Node, NEW i \in DOMAIN kids[d], d # base \/ i # item
      PROVE  \E j \in DOMAIN kids'[d] : kids'[d][j] = kids[d][i]
  <2>1. CASE d = base
    <3>0. i \in 1 .. Len(kids[base])
      BY <1>51, <2>1
    <3>1. CASE i < item
      <4>1. i \in 1 .. (Len(kids[base]) - 1)
        BY <1>51, <3>0, <3>1
      <4>2. i \in DOMAIN kids'[base] /\ kids'[base][i] = kids[base][i]
        BY <1>5, <1>51, <3>1, <4>1
      <4>3. QED
        BY <2>1, <4>2
    <3>2. CASE item < i
      <4>0. i - 1 \in 1 .. (Len(kids[base]) - 1) /\ ~ (i - 1 < item) /\ (i - 1) + 1 = i
        BY <1>51, <3>0, <3>2
      <4>1. i - 1 \in DOMAIN kids'[base] /\ kids'[base][i - 1] = kids[base][i]
        BY <1>5, <1>51, <4>0
      <4>2. QED
        BY <2>1, <4>1
    <3>3. QED
      BY <1>51, <1>7, <2>1, <3>0, <3>1, <3>2
  <2>2. CASE d # base
    BY <1>5, <2>2
  <2>3. QED
    BY <2>1, <2>2
<1>8. \A m \in Alive' \ {Root} :
         \E d \in Node : \E i \in DOMAIN kids'[d] : kids'[d][i] = m
  <2>1. SUFFICES ASSUME NEW m \in Alive \ {Root}, m # target
                 PROVE  \E d \in Node : \E i \in DOMAIN kids'[d] : kids'[d][i] = m
    BY <1>4
  <2>0. PICK d \in Node : \E i \in DOMAIN kids[d] : kids[d][i] = m
    BY DEF TreeInv, TreeIsWhole
  <2>2. PICK i \in DOMAIN kids[d] : kids[d][i] = m
    BY <2>0
  <2>3. d # base \/ i # item
    BY <1>0, <2>1, <2>2
  <2>4. QED
    BY <1>7, <2>2, <2>3
<1>9. ASSUME NEW d \in Node, NEW i \in DOMAIN kids'[d]
      PROVE  /\ kind'[d] = "dir" /\ kids'[d][i] \in Alive' \ {Root}
             /\ \A e \in Node : \A j \in DOMAIN kids'[e] :
                   kids'[e][j] = kids'[d][i] => d = e /\ i = j
  <2>1. /\ Old(d, i) \in DOMAIN kids[d] /\ kids'[d][i] = kids[d][Old(d, i)]
        /\ d = base => Old(d, i) # item
    BY <1>6
  <2>2. kind[d] = "dir" /\ kids[d][Old(d, i)] \in Alive \ {Root}
    BY <2>1 DEF TreeInv, TreeIsWhole
  <2>3. d # target
    BY <1>0, <2>1
  <2>4. kids[d][Old(d, i)] # target
    BY <1>0, <2>1 DEF TreeInv, TreeIsWhole
  <2>5. kind'[d] = "dir"
    BY <1>2, <2>2, <2>3 DEF TreeInv, TreeType
  <2>6. ASSUME NEW e \in Node, NEW j \in DOMAIN kids'[e], kids'[e][j] = kids'[d][i]
        PROVE  d = e /\ i = j
    <3>1. /\ Old(e, j) \in DOMAIN kids[e] /\ kids'[e][j] = kids[e][Old(e, j)]
      BY <1>6
    <3>2. d = e /\ Old(d, i) = Old(e, j)
      <4> HIDE DEF Old
      <4>1. kids[e][Old(e, j)] = kids[d][Old(d, i)]
        BY <2>1, <2>6, <3>1
      <4>2. Old(d, i) \in DOMAIN kids[d] /\ Old(e, j) \in DOMAIN kids[e]
        BY <2>1, <3>1
      <4>3. QED
        BY ONLY <1>52, <4>1, <4>2
    <3>3. i \in Nat /\ j \in Nat /\ item \in Nat
      <4>1. kids'[d] \in Seq(Node) /\ kids'[e] \in Seq(Node)
        BY <1>3 DEF TreeType
      <4>2. QED
        BY <1>0, <4>1
    <3>4. QED
      BY <3>2, <3>3
  <2>7. QED
    BY <1>4, <2>1, <2>2, <2>4, <2>5, <2>6
<1>10. count' = Cardinality(Alive' \ {Root})
  <2>1. Alive' \ {Root} = (Alive \ {Root}) \ {target} /\ target \in Alive \ {Root}
    BY <1>0, <1>4
  <2>2. Cardinality((Alive \ {Root}) \ {target}) = Cardinality(Alive \ {Root}) - 1
    BY <2>1, AliveFinite, FS_RemoveElement
  <2>3. QED
    BY <1>2, <2>1, <2>2 DEF TreeInv, TreeIsWhole
<1>11. QED
  BY <1>3, <1>8, <1>9, <1>10 DEF TreeInv, TreeIsWhole

(* A step that leaves the kinds, the lists and the count alone. *)
LEMMA TreeSame == ASSUME TreeInv, UNCHANGED <<kind, kids, count>> PROVE TreeInv'
  BY DEF TreeInv, TreeType, TreeIsWhole, Alive

LEMMA TreeStepHolds == ASSUME ThroughFiles = FALSE, TreeInv, [Next]_vars PROVE TreeInv'
<1>1. ASSUME NEW t \in Task, NEW p \in Path, NEW k \in Kind, Make(t, p, k) PROVE TreeInv'
  BY <1>1, NewNodeTree DEF Make, Living
<1>2. ASSUME NEW t \in Task, NEW p \in Path, NEW nm \in Name, Rename(t, p, nm) PROVE TreeInv'
  BY <1>2, TreeSame DEF Rename
<1>3. ASSUME NEW t \in Task, NEW p \in Path, RemoveFile(t, p) PROVE TreeInv'
  <2>1. CASE IsOpen(Lookup(p))
    BY <1>3, <2>1, TreeSame DEF RemoveFile, tree
  <2>2. CASE ~ IsOpen(Lookup(p))
    <3>1. Lookup(p) \in Node \ {Root} /\ Used(p) /\ DeleteNode(Parent(p), Lookup(p), Item(p))
      BY <1>3, <2>2 DEF RemoveFile, Removable
    <3>2. QED
      BY <3>1, LookupFound, DeleteTree
  <2>3. QED
    BY <2>1, <2>2
<1>4. ASSUME NEW t \in Task, NEW p \in Path, NEW h \in Handle, OpenCreates(t, p, h)
      PROVE  TreeInv'
  BY <1>4, NewNodeTree DEF OpenCreates, Living
<1>5. ASSUME UNCHANGED tree PROVE TreeInv'
  BY <1>5, TreeSame DEF tree
<1>6. QED
  BY <1>1, <1>2, <1>3, <1>4, <1>5
  DEF Next, Open, OpenRefused, OpenFails, Opened, OpenedInVain, Close, Enter, Leave, vars, tree

(* Whatever is created, renamed, removed, opened and closed, the tree stays *)
(* whole: every living node is listed once, by a living directory, nothing  *)
(* that is deleted is listed, and the count is right.                       *)
THEOREM TreeIsWholeHolds == ASSUME ThroughFiles = FALSE PROVE Spec => []TreeIsWhole
<1>1. Init => TreeInv
  BY TreeInit
<1>2. TreeInv /\ [Next]_vars => TreeInv'
  BY TreeStepHolds
<1>3. TreeInv => TreeIsWhole
  BY DEF TreeInv
<1>4. QED
  BY <1>1, <1>2, <1>3, PTL DEF Spec

-----------------------------------------------------------------------------
(* The part of the type invariant that does not depend on the shape of the *)
(* tree.                                                                   *)
UseType ==
    /\ kind \in [Node -> Kind]
    /\ files \subseteq Handle
    /\ file \in [Handle -> OpenFile]
    /\ held \in [Task -> SUBSET Handle]
    /\ opening \in [Task -> Handle \union {NoHandle}]
    /\ lost \subseteq Handle
    /\ busy \in [Task -> Node \union {NoNode}]

(* An entry has one holder: a task, an fopen that is not over, or nobody.  *)
OneHolder ==
    /\ \A t, u \in Task : t # u => held[t] \intersect held[u] = {}
    /\ \A t, u \in Task : t # u /\ opening[t] = opening[u] => opening[t] = NoHandle
    /\ \A t, u \in Task : opening[t] \notin held[u]
    /\ \A t \in Task : opening[t] \notin lost /\ held[t] \intersect lost = {}

(* Every FILE in a program's or in fopen's hands has its entry. *)
HeldInFiles ==
    /\ lost \subseteq files
    /\ \A t \in Task : held[t] \subseteq files
    /\ \A t \in Task : opening[t] # NoHandle => opening[t] \in files

(* Every entry is in somebody's hands. *)
FilesHeld ==
    \A h \in files : h \in lost \/ \E t \in Task : h \in held[t] \/ opening[t] = h

OpenLive == \A h \in files : kind[file[h].child] \in Living \ {"dir"}

(* A task in a pipe or a driver holds the file it went there with. *)
BusyHolds ==
    \A t \in Task : busy[t] # NoNode =>
        \E h \in held[t] : h \in files /\ file[h].child = busy[t]

ListInv == UseType /\ OneHolder /\ HeldInFiles /\ FilesHeld /\ HandlesAgree

LEMMA Owned == ASSUME ListInv PROVE HandlesOwned
  BY HandleAssumption DEF ListInv, UseType, HeldInFiles, FilesHeld, HandlesOwned

LEMMA ListInit == Init => ListInv
  BY RootAssumption, HandleAssumption
  DEF Init, ListInv, UseType, OneHolder, HeldInFiles, FilesHeld, HandlesAgree,
      Kind, Living, NoFile, OpenFile

LEMMA NewNodeType ==
    ASSUME UseType, NEW parent, NEW nm, NEW k \in Kind, NewNode(parent, nm, k)
    PROVE  kind' \in [Node -> Kind]
  BY DEF UseType, NewNode

LEMMA RemoveType ==
    ASSUME UseType, NEW t, NEW p, RemoveFile(t, p)
    PROVE  kind' \in [Node -> Kind] /\ file' \in [Handle -> OpenFile]
<1>1. kind' \in [Node -> Kind]
  BY DEF UseType, RemoveFile, DeleteNode, tree, Kind
<1>2. file' \in [Handle -> OpenFile]
  <2>1. \A h \in Handle : [file[h] EXCEPT !.removeAtClose = TRUE] \in OpenFile
    BY DEF UseType, OpenFile
  <2>2. QED
    BY <2>1 DEF UseType, RemoveFile
<1>3. QED
  BY <1>1, <1>2

(* Marking treats all the entries of a node alike. *)
LEMMA RemoveAgrees ==
    ASSUME UseType, HandlesAgree, NEW t, NEW p, RemoveFile(t, p)
    PROVE  HandlesAgree' /\ files' = files
           /\ \A h \in files : file'[h].child = file[h].child
<1>1. CASE IsOpen(Lookup(p))
  <2>0. \A h \in Handle :
          /\ file[h] \in OpenFile
          /\ file'[h] = IF h \in Openings(Lookup(p))
                        THEN [file[h] EXCEPT !.removeAtClose = TRUE] ELSE file[h]
    BY <1>1 DEF RemoveFile, UseType
  <2>1. /\ files' = files
        /\ \A h \in Handle : file'[h].child = file[h].child
        /\ \A h \in Handle : file'[h].removeAtClose =
                             (h \in Openings(Lookup(p)) \/ file[h].removeAtClose)
    BY <1>1, <2>0 DEF RemoveFile, OpenFile
  <2>2. QED
    BY <2>1 DEF HandlesAgree, Openings, UseType
<1>2. CASE ~ IsOpen(Lookup(p))
  BY <1>2 DEF RemoveFile, HandlesAgree
<1>3. QED
  BY <1>1, <1>2

(* A new entry inherits the mark of the others. *)
LEMMA AddsStep ==
    ASSUME ListInv, NEW t \in Task, NEW h \in Handle, NEW child \in Node,
           Idle(t), Adds(t, h, child), kind' \in [Node -> Kind]
    PROVE  ListInv'
<1>1. UseType'
  BY DEF ListInv, UseType, Adds, OpenFile, Inherits
<1>2. /\ h \notin lost
      /\ \A u \in Task : h \notin held[u] /\ opening[u] # h
  BY HandleAssumption DEF ListInv, HeldInFiles, Adds
<1>3. OneHolder'
  BY <1>2, HandleAssumption DEF ListInv, OneHolder, UseType, Adds, Idle
<1>4. HeldInFiles' /\ FilesHeld'
  BY HandleAssumption DEF ListInv, HeldInFiles, FilesHeld, UseType, Adds, Idle
<1>5. /\ \A g \in files : file'[g] = file[g]
      /\ file'[h].child = child
      /\ file'[h].removeAtClose = Inherits(child)
  BY DEF ListInv, UseType, Adds
<1>6. HandlesAgree'
  <2>1. files' = files \union {h} /\ h \notin files
    BY DEF Adds
  <2>2. \A g \in files : file[g] \in OpenFile
    BY DEF ListInv, UseType
  <2>3. ASSUME NEW g \in files, file[g].child = child
        PROVE  file[g].removeAtClose = Inherits(child)
    <3>1. g \in Openings(child) /\ file[g].removeAtClose \in BOOLEAN
      BY <2>2, <2>3 DEF Openings, OpenFile
    <3>2. \A k \in Openings(child) : file[k].removeAtClose = file[g].removeAtClose
      BY <2>3 DEF ListInv, HandlesAgree, Openings
    <3>3. file[g].removeAtClose <=> Inherits(child)
      BY <3>1, <3>2 DEF Inherits
    <3>4. QED
      BY <3>1, <3>3 DEF Inherits
  <2>4. QED
    BY <1>5, <2>1, <2>3 DEF ListInv, HandlesAgree
<1>7. QED
  BY <1>1, <1>3, <1>4, <1>6 DEF ListInv

(* The tree may change in any way, as long as kinds are kinds. *)
LEMMA TreeStep == ASSUME ListInv, UNCHANGED use, kind' \in [Node -> Kind] PROVE ListInv'
  BY DEF ListInv, use, UseType, OneHolder, HeldInFiles, FilesHeld, HandlesAgree

LEMMA CloseStep ==
    ASSUME ListInv, NEW t \in Task, NEW h \in Handle, Close(t, h)
    PROVE  ListInv'
<1>1. NoFile \in OpenFile
  BY RootAssumption DEF NoFile, OpenFile
<1>2. UseType'
  BY <1>1 DEF ListInv, UseType, Close, tree
<1>3. OneHolder'
  BY DEF ListInv, OneHolder, UseType, Close
<1>4. HeldInFiles' /\ FilesHeld'
  BY DEF ListInv, OneHolder, HeldInFiles, FilesHeld, UseType, Close
<1>5. HandlesAgree'
  BY DEF ListInv, HandlesAgree, UseType, Close
<1>6. QED
  BY <1>2, <1>3, <1>4, <1>5 DEF ListInv

LEMMA ListStep == ListInv /\ [Next]_vars => ListInv'
<1> SUFFICES ASSUME ListInv, [Next]_vars PROVE ListInv'
  OBVIOUS
<1>0. kind \in [Node -> Kind]
  BY DEF ListInv, UseType
<1>1. ASSUME NEW t \in Task, NEW p \in Path, NEW k \in Kind, Make(t, p, k) PROVE ListInv'
  BY <1>1, NewNodeType, TreeStep DEF Make, ListInv
<1>2. ASSUME NEW t \in Task, NEW p \in Path, NEW nm \in Name, Rename(t, p, nm) PROVE ListInv'
  BY <1>0, <1>2, TreeStep DEF Rename
<1>3. ASSUME NEW t \in Task, NEW p \in Path, RemoveFile(t, p) PROVE ListInv'
  <2>1. UNCHANGED <<held, opening, lost, busy>>
    BY <1>3 DEF RemoveFile
  <2>2. QED
    BY <1>3, <2>1, RemoveType, RemoveAgrees
    DEF ListInv, UseType, OneHolder, HeldInFiles, FilesHeld
<1>4. ASSUME NEW t \in Task, NEW p \in Path, NEW h \in Handle, Open(t, p, h) PROVE ListInv'
  BY <1>0, <1>4, AddsStep DEF Open, tree
<1>5. ASSUME NEW t \in Task, NEW p \in Path, NEW h \in Handle, OpenCreates(t, p, h)
      PROVE  ListInv'
  <2>1. kind' \in [Node -> Kind]
    BY <1>5, NewNodeType DEF OpenCreates, ListInv, Kind, Living
  <2>2. QED
    BY <1>5, <2>1, TreeStep, AddsStep DEF OpenCreates
<1>6. ASSUME UNCHANGED vars PROVE ListInv'
  BY <1>0, <1>6, TreeStep DEF vars, use
<1>7. ASSUME NEW t \in Task, NEW h \in Handle, Close(t, h) PROVE ListInv'
  BY <1>7, CloseStep
<1>8. ASSUME NEW t \in Task, NEW h \in Handle, Enter(t, h) PROVE ListInv'
  <2>1. h \in files
    BY <1>8 DEF Enter, ListInv, HeldInFiles
  <2>2. busy' \in [Task -> Node \union {NoNode}]
    BY <1>8, <2>1 DEF Enter, ListInv, UseType, OpenFile
  <2>3. QED
    BY <1>8, <2>2
    DEF Enter, tree, ListInv, UseType, OneHolder, HeldInFiles, FilesHeld, HandlesAgree
<1>9. ASSUME NEW t \in Task, Opened(t) PROVE ListInv'
  <2>1. UseType'
    BY <1>9 DEF Opened, tree, ListInv, UseType
  <2>2. OneHolder'
    BY <1>9, HandleAssumption DEF Opened, ListInv, UseType, OneHolder
  <2>3. HeldInFiles' /\ FilesHeld' /\ HandlesAgree'
    BY <1>9, HandleAssumption
    DEF Opened, ListInv, UseType, HeldInFiles, FilesHeld, HandlesAgree
  <2>4. QED
    BY <2>1, <2>2, <2>3 DEF ListInv
<1>10. ASSUME NEW t \in Task, OpenedInVain(t) PROVE ListInv'
  <2>1. UseType'
    BY <1>10 DEF OpenedInVain, tree, ListInv, UseType
  <2>2. OneHolder'
    BY <1>10, HandleAssumption DEF OpenedInVain, ListInv, UseType, OneHolder
  <2>3. HeldInFiles' /\ FilesHeld' /\ HandlesAgree'
    BY <1>10, HandleAssumption
    DEF OpenedInVain, ListInv, UseType, HeldInFiles, FilesHeld, HandlesAgree
  <2>4. QED
    BY <2>1, <2>2, <2>3 DEF ListInv
<1>11. ASSUME NEW t \in Task, Leave(t) PROVE ListInv'
  BY <1>11
  DEF Leave, tree, ListInv, UseType, OneHolder, HeldInFiles, FilesHeld, HandlesAgree
<1>12. QED
  BY <1>1, <1>2, <1>3, <1>4, <1>5, <1>6, <1>7, <1>8, <1>9, <1>10, <1>11
  DEF Next, OpenRefused, OpenFails

LEMMA ListInvariant == Spec => []ListInv
  BY ListInit, ListStep, PTL DEF Spec

(* What programs hold and what the list of open files says are the same,   *)
(* but for the entries an fopen lost to a failing driver: nothing that a   *)
(* program does afterwards loses another one, or leaves a FILE without its *)
(* entry.                                                                  *)
THEOREM HandlesOwnedHolds == Spec => []HandlesOwned
  BY ListInvariant, Owned, PTL

(* A file is removed for everybody who has it open, later openers too. *)
THEOREM HandlesAgreeHolds == Spec => []HandlesAgree
<1>1. ListInv => HandlesAgree
  BY DEF ListInv
<1>2. QED
  BY <1>1, ListInvariant, PTL

-----------------------------------------------------------------------------
(* Nothing is deleted in use.  Needs programs that use their own FILEs.    *)

UseInv == ListInv /\ TreeInv /\ OpenLive /\ BusyHolds

(* A node that a step of the tree creates or deletes is not open. *)
LEMMA NewNodeLive ==
    ASSUME UseInv, NEW parent, NEW nm, NEW k \in Kind, NewNode(parent, nm, k)
    PROVE  \A h \in files : kind'[file[h].child] = kind[file[h].child]
<1>1. \A h \in files : file[h].child \in Node /\ kind[file[h].child] # "free"
  BY DEF UseInv, ListInv, UseType, OpenLive, OpenFile, Living
<1>2. QED
  BY <1>1 DEF NewNode, UseInv, ListInv, UseType

LEMMA RemoveLive ==
    ASSUME UseInv, NEW t \in Task, NEW p, RemoveFile(t, p)
    PROVE  \A h \in files : kind'[file[h].child] = kind[file[h].child]
<1>1. CASE IsOpen(Lookup(p))
  BY <1>1 DEF RemoveFile, tree
<1>2. CASE ~ IsOpen(Lookup(p))
  <2>1. \A h \in files : file[h].child \in Node /\ file[h].child # Lookup(p)
    BY <1>2 DEF UseInv, ListInv, UseType, OpenLive, OpenFile, IsOpen, Openings
  <2>2. \E k \in Kind : kind' = [kind EXCEPT ![Lookup(p)] = k]
    BY <1>2 DEF RemoveFile, DeleteNode, Kind
  <2>3. QED
    BY <2>1, <2>2 DEF UseInv, ListInv, UseType
<1>3. QED
  BY <1>1, <1>2

(* Steps that keep the open files, their nodes and the tasks inside. *)
LEMMA SameUse ==
    ASSUME UseInv, ListInv', TreeInv', files' = files, UNCHANGED <<held, busy>>,
           \A h \in files : file'[h].child = file[h].child
                           /\ kind'[file[h].child] = kind[file[h].child]
    PROVE  UseInv'
  BY DEF UseInv, OpenLive, BusyHolds

LEMMA AddsUse ==
    ASSUME UseInv, ListInv', TreeInv', NEW t \in Task, NEW h \in Handle, NEW child \in Node,
           Adds(t, h, child), kind'[child] \in Living \ {"dir"},
           \A g \in files : kind'[file[g].child] = kind[file[g].child]
    PROVE  UseInv'
<1>1. /\ files' = files \union {h} /\ h \notin files
      /\ held' = held /\ busy' = busy
      /\ file'[h].child = child
      /\ \A g \in files : file'[g] = file[g]
  BY DEF Adds, UseInv, ListInv, UseType
<1>2. QED
  BY <1>1 DEF UseInv, OpenLive, BusyHolds

LEMMA UseStep ==
    ASSUME Lends = FALSE, ThroughFiles = FALSE, UseInv, [Next]_vars PROVE UseInv'
<1>0. ListInv' /\ TreeInv'
  BY ListStep, TreeStepHolds DEF UseInv
<1>1. ASSUME NEW t \in Task, NEW p \in Path, NEW k \in Kind, Make(t, p, k) PROVE UseInv'
  BY <1>0, <1>1, NewNodeLive, SameUse DEF Make, use
<1>2. ASSUME NEW t \in Task, NEW p \in Path, NEW nm \in Name, Rename(t, p, nm) PROVE UseInv'
  BY <1>0, <1>2, SameUse DEF Rename, use
<1>3. ASSUME NEW t \in Task, NEW p \in Path, RemoveFile(t, p) PROVE UseInv'
  <2>1. UNCHANGED <<held, busy>>
    BY <1>3 DEF RemoveFile
  <2>2. files' = files /\ \A h \in files : file'[h].child = file[h].child
    BY <1>3, RemoveAgrees DEF UseInv, ListInv
  <2>3. QED
    BY <1>0, <1>3, <2>1, <2>2, RemoveLive, SameUse
<1>4. ASSUME NEW t \in Task, NEW p \in Path, NEW h \in Handle, Open(t, p, h) PROVE UseInv'
  <2>1. kind' = kind /\ kind[Lookup(p)] # "dir" /\ Lookup(p) \in Node
    BY <1>4 DEF Open, tree
  <2>2. kind[Lookup(p)] \in Living
    <3>1. Lookup(p) # Root
      BY <2>1 DEF UseInv, TreeInv, TreeType
    <3>2. QED
      BY <1>4, <2>1, <3>1, LookupFound DEF Open, UseInv, Alive
  <2>3. QED
    BY <1>0, <1>4, <2>1, <2>2, AddsUse DEF Open
<1>5. ASSUME NEW t \in Task, NEW p \in Path, NEW h \in Handle, OpenCreates(t, p, h)
      PROVE  UseInv'
  <2>1. \A g \in files : kind'[file[g].child] = kind[file[g].child]
    BY <1>5, NewNodeLive DEF OpenCreates, Kind, Living
  <2>2. CASE UNCHANGED use
    BY <1>0, <2>1, <2>2, SameUse DEF use
  <2>3. CASE \E n \in Node : kind[n] = "free" /\ kind'[n] = "reg" /\ Adds(t, h, n)
    BY <1>0, <2>1, <2>3, AddsUse DEF Living
  <2>4. QED
    BY <1>5, <2>2, <2>3 DEF OpenCreates
<1>6. ASSUME UNCHANGED vars PROVE UseInv'
  BY <1>0, <1>6, SameUse DEF vars
<1>7. ASSUME NEW t \in Task, NEW h \in Handle, Close(t, h) PROVE UseInv'
  <2>1. /\ files' = files \ {h} /\ kind' = kind /\ busy' = busy
        /\ h \in held[t] /\ busy[t] = NoNode
        /\ \A g \in files \ {h} : file'[g] = file[g]
        /\ \A u \in Task \ {t} : held'[u] = held[u]
    BY <1>7 DEF Close, Idle, tree, UseInv, ListInv, UseType
  <2>2. OpenLive'
    BY <2>1 DEF UseInv, OpenLive
  <2>3. \A u \in Task \ {t} : h \notin held[u]
    BY <2>1 DEF UseInv, ListInv, OneHolder
  <2>4. BusyHolds'
    BY <2>1, <2>3 DEF UseInv, BusyHolds
  <2>5. QED
    BY <1>0, <2>2, <2>4 DEF UseInv
<1>8. ASSUME NEW t \in Task, NEW h \in Handle, Enter(t, h) PROVE UseInv'
  <2>1. h \in held[t] /\ h \in files
    BY <1>8 DEF Enter, UseInv, ListInv, HeldInFiles
  <2>2. QED
    BY <1>0, <1>8, <2>1 DEF Enter, tree, UseInv, ListInv, UseType, OpenLive, BusyHolds
<1>9. ASSUME NEW t \in Task, Opened(t) PROVE UseInv'
  BY <1>0, <1>9 DEF Opened, tree, UseInv, ListInv, UseType, OpenLive, BusyHolds
<1>10. ASSUME NEW t \in Task, OpenedInVain(t) PROVE UseInv'
  BY <1>0, <1>10, SameUse DEF OpenedInVain, tree
<1>11. ASSUME NEW t \in Task, Leave(t) PROVE UseInv'
  BY <1>0, <1>11 DEF Leave, tree, UseInv, ListInv, UseType, OpenLive, BusyHolds
<1>12. QED
  BY <1>1, <1>2, <1>3, <1>4, <1>5, <1>6, <1>7, <1>8, <1>9, <1>10, <1>11
  DEF Next, OpenRefused, OpenFails

(* As long as programs use only the FILEs they opened themselves, and no   *)
(* path goes through a file, no node is deleted while it is open or while  *)
(* a task is in its pipe or device, although the task has let go of the    *)
(* mutex and others remove the name.                                       *)
THEOREM InUseAliveHolds ==
    ASSUME Lends = FALSE, ThroughFiles = FALSE PROVE Spec => []InUseAlive
<1>1. Init => UseInv
  BY ListInit, TreeInit DEF Init, UseInv, OpenLive, BusyHolds
<1>2. UseInv /\ [Next]_vars => UseInv'
  BY UseStep
<1>3. UseInv => InUseAlive
  BY DEF UseInv, OpenLive, BusyHolds, InUseAlive
<1>4. QED
  BY <1>1, <1>2, <1>3, PTL DEF Spec

-----------------------------------------------------------------------------
(* Type correctness: the rest of it follows from the two invariants. *)

NameType == name \in [Node -> Name \union {NoName}]

LEMMA LastIsName == ASSUME NEW p \in Path, p # <<>> PROVE Last(p) \in Name
<1>1. p \in Seq(Name)
  BY NameAssumption
<1>2. Len(p) \in 1 .. Len(p)
  BY <1>1
<1>3. QED
  BY <1>1, <1>2 DEF Last

LEMMA NameStep == ASSUME NameType, [Next]_vars PROVE NameType'
<1>1. ASSUME NEW t \in Task, NEW p \in Path, NEW k \in Kind, Make(t, p, k) PROVE NameType'
  BY <1>1, LastIsName DEF Make, NewNode, NameType
<1>2. ASSUME NEW t \in Task, NEW p \in Path, NEW nm \in Name, Rename(t, p, nm) PROVE NameType'
  BY <1>2 DEF Rename, NameType
<1>3. ASSUME NEW t \in Task, NEW p \in Path, RemoveFile(t, p) PROVE NameType'
  BY <1>3 DEF RemoveFile, DeleteNode, NameType, tree
<1>4. ASSUME NEW t \in Task, NEW p \in Path, NEW h \in Handle, OpenCreates(t, p, h)
      PROVE  NameType'
  <2>1. p # <<>>
    BY <1>4, RootAssumption DEF OpenCreates, Lookup
  <2>2. QED
    BY <1>4, <2>1, LastIsName DEF OpenCreates, NewNode, NameType
<1>5. ASSUME UNCHANGED name PROVE NameType'
  BY <1>5 DEF NameType
<1>6. QED
  BY <1>1, <1>2, <1>3, <1>4, <1>5
  DEF Next, Open, OpenRefused, OpenFails, Opened, OpenedInVain, Close, Enter, Leave, vars, tree

LEMMA TypesTogether == ASSUME ListInv, TreeInv, NameType PROVE TypeOK
<1>1. count \in Nat
  BY AliveFinite, FS_CardinalityType DEF TreeInv, TreeIsWhole
<1>2. \A d \in Node : kids[d] \in Seq(Node \ {Root})
  <2>1. SUFFICES ASSUME NEW d \in Node PROVE kids[d] \in Seq(Node \ {Root})
    OBVIOUS
  <2>2. kids[d] \in Seq(Node)
    BY DEF TreeInv, TreeType
  <2>3. \A i \in 1 .. Len(kids[d]) : kids[d][i] \in Node \ {Root}
    BY <2>2 DEF TreeInv, TreeIsWhole, Alive
  <2>4. QED
    BY <2>2, <2>3
<1>3. kids \in [Node -> Seq(Node \ {Root})]
  BY <1>2 DEF TreeInv, TreeType
<1>4. QED
  BY <1>1, <1>3 DEF TypeOK, ListInv, UseType, TreeInv, TreeType, NameType

(* Every reachable state is well typed; in particular the root stays a     *)
(* directory that is listed nowhere, and the count never goes below zero.  *)
THEOREM RamfsTypeCorrect == ASSUME ThroughFiles = FALSE PROVE Spec => []TypeOK
<1> DEFINE Inv == ListInv /\ TreeInv /\ NameType
<1>1. Init => Inv
  BY ListInit, TreeInit DEF Init, NameType
<1>2. Inv /\ [Next]_vars => Inv'
  BY ListStep, TreeStepHolds, NameStep
<1>3. Inv => TypeOK
  BY TypesTogether
<1>4. QED
  BY <1>1, <1>2, <1>3, PTL DEF Spec

-----------------------------------------------------------------------------
(* KeepsTree: what each step does to the directories nodes are in. *)

(* A node is in one directory at most, and every living one but the root   *)
(* is in one.                                                              *)
LEMMA InDirectory ==
    ASSUME TreeInv, NEW n \in Node
    PROVE  /\ \A d \in Node : Holds(d, n) => Directory(n) = d /\ n \in Alive \ {Root}
           /\ Directory(n) \in Node => Holds(Directory(n), n)
           /\ Directory(n) = NoNode <=> n \notin Alive \ {Root}
<1>1. \A d, e \in Node : Holds(d, n) /\ Holds(e, n) => d = e /\ n \in Alive \ {Root}
  BY DEF TreeInv, TreeIsWhole, Holds
<1>2. n \in Alive \ {Root} => \E d \in Node : Holds(d, n)
  BY DEF TreeInv, TreeIsWhole, Holds
<1> HIDE DEF Alive
<1>3. CASE \E d \in Node : Holds(d, n)
  <2>1. Directory(n) \in Node /\ Holds(Directory(n), n)
    BY <1>3 DEF Directory
  <2>2. QED
    BY <1>1, <2>1, RootAssumption
<1>4. CASE ~ \E d \in Node : Holds(d, n)
  BY <1>2, <1>4, RootAssumption DEF Directory
<1>5. QED
  BY <1>3, <1>4

LEMMA InDirectoryNext ==
    ASSUME TreeInv', NEW n \in Node
    PROVE  /\ \A d \in Node : Holds(d, n)' => Directory(n)' = d
           /\ Directory(n)' \in Node => Holds(Directory(n), n)'
           /\ Directory(n)' = NoNode <=> n \notin Alive' \ {Root}
<1>1. \A d, e \in Node : Holds(d, n)' /\ Holds(e, n)' => d = e /\ n \in Alive' \ {Root}
  BY DEF TreeInv, TreeIsWhole, Holds
<1>2. n \in Alive' \ {Root} => \E d \in Node : Holds(d, n)'
  BY DEF TreeInv, TreeIsWhole, Holds
<1>3. CASE \E d \in Node : Holds(d, n)'
  <2>1. Directory(n)' \in Node /\ Holds(Directory(n), n)'
    BY <1>3 DEF Directory, Holds
  <2>2. QED
    BY <1>1, <2>1, RootAssumption
<1>4. CASE ~ \E d \in Node : Holds(d, n)'
  BY <1>2, <1>4, RootAssumption DEF Directory, Holds
<1>5. QED
  BY <1>3, <1>4

(* What is in no directory but this one, or not in it any more. *)
LEMMA AppendHolds ==
    ASSUME TreeType, NEW parent \in Node, NEW n \in Node,
           kids' = [kids EXCEPT ![parent] = Append(@, n)],
           NEW d \in Node, NEW m \in Node
    PROVE  Holds(d, m)' <=> Holds(d, m) \/ (d = parent /\ m = n)
<1>1. kids[parent] \in Seq(Node) /\ kids'[parent] = Append(kids[parent], n)
  BY DEF TreeType
<1>2. /\ DOMAIN kids'[parent] = DOMAIN kids[parent] \union {Len(kids[parent]) + 1}
      /\ kids'[parent][Len(kids[parent]) + 1] = n
      /\ \A i \in DOMAIN kids[parent] : kids'[parent][i] = kids[parent][i]
  <2>1. /\ Len(kids'[parent]) = Len(kids[parent]) + 1
        /\ \A i \in 1 .. Len(kids[parent]) : kids'[parent][i] = kids[parent][i]
        /\ kids'[parent][Len(kids[parent]) + 1] = n
        /\ kids'[parent] \in Seq(Node)
    BY <1>1, AppendProperties
  <2>2. QED
    BY <1>1, <2>1
<1>3. CASE d = parent
  BY <1>2, <1>3 DEF Holds
<1>4. CASE d # parent
  BY <1>4 DEF Holds, TreeType
<1>5. QED
  BY <1>3, <1>4

LEMMA NewNodeGrows ==
    ASSUME TreeInv, NEW parent, NEW nm, NEW k \in Living, NewNode(parent, nm, k)
    PROVE  \E n, d \in Node : Directories!Grow(n, d)
<1>1. PICK n \in Node :
        /\ kind[n] = "free"
        /\ parent \in Node /\ kind[parent] = "dir"
        /\ kind' = [kind EXCEPT ![n] = k]
        /\ kids' = [kids EXCEPT ![parent] = Append(@, n)]
  BY DEF NewNode
<1>2. PICK d \in Node : d = parent
  BY <1>1
<1>3. TreeInv'
  BY NewNodeTree
<1>4. n \notin Alive /\ d \in Alive /\ Alive' = Alive \union {n}
  BY <1>1, <1>2 DEF TreeInv, TreeType, Alive, Living
<1>5. \A e, m \in Node : Holds(e, m)' <=> Holds(e, m) \/ (e = d /\ m = n)
  BY <1>1, <1>2, AppendHolds DEF TreeInv
<1>6. ASSUME NEW m \in Node PROVE Directory(m)' = IF m = n THEN d ELSE Directory(m)
  <2>1. CASE m = n
    BY <1>3, <1>5, <2>1, InDirectoryNext
  <2>2. CASE m # n /\ \E e \in Node : Holds(e, m)
    <3>1. PICK e \in Node : Holds(e, m)
      BY <2>2
    <3>2. Holds(e, m)' /\ Directory(m) = e
      BY <1>5, <3>1, InDirectory
    <3>3. Directory(m)' = e
      BY <1>3, <3>2, InDirectoryNext
    <3>4. QED
      BY <2>2, <3>2, <3>3
  <2>3. CASE m # n /\ ~ \E e \in Node : Holds(e, m)
    <3>1. ~ \E e \in Node : Holds(e, m)'
      BY <1>5, <2>3
    <3>2. Directory(m)' = NoNode /\ Directory(m) = NoNode
      BY <2>3, <3>1 DEF Directory, Holds
    <3>3. QED
      BY <2>3, <3>2
  <2>4. QED
    BY <2>1, <2>2, <2>3
<1>7. [m \in Node |-> Directory(m)]' = [[m \in Node |-> Directory(m)] EXCEPT ![n] = d]
  BY <1>6
<1>8. Directories!Grow(n, d)
  BY <1>4, <1>7 DEF Directories!Grow
<1>9. QED
  BY <1>8

LEMMA EraseHolds ==
    ASSUME TreeInv, NEW base \in Node, NEW item \in DOMAIN kids[base],
           kids' = [kids EXCEPT ![base] = RemoveAt(@, item)],
           NEW d \in Node, NEW m \in Node
    PROVE  Holds(d, m)' <=> Holds(d, m) /\ m # kids[base][item]
<1> DEFINE target == kids[base][item]
<1>0. /\ kids[base] \in Seq(Node) /\ item \in 1 .. Len(kids[base])
      /\ Len(kids[base]) \in Nat /\ item \in Nat
      /\ kids'[base] = RemoveAt(kids[base], item)
      /\ d # base => kids'[d] = kids[d]
  BY DEF TreeInv, TreeType
<1>1. /\ DOMAIN kids[base] = 1 .. Len(kids[base])
      /\ DOMAIN kids'[base] = 1 .. (Len(kids[base]) - 1)
      /\ \A j \in 1 .. (Len(kids[base]) - 1) :
            kids'[base][j] = IF j < item THEN kids[base][j] ELSE kids[base][j + 1]
  <2>1. item \in DOMAIN kids[base]
    BY <1>0
  <2>2. QED
    BY <1>0, <2>1, RemoveAtFacts
<1>2. \A i \in DOMAIN kids[d] : kids[d][i] = target => d = base /\ i = item
  BY DEF TreeInv, TreeIsWhole
<1>3. CASE d # base
  BY <1>0, <1>2, <1>3 DEF Holds
<1>4. ASSUME d = base, Holds(d, m)' PROVE Holds(d, m) /\ m # target
  <2>1. PICK j \in 1 .. (Len(kids[base]) - 1) : kids'[base][j] = m
    BY <1>1, <1>4 DEF Holds
  <2>2. PICK i \in 1 .. Len(kids[base]) : i # item /\ kids[base][i] = m
    <3>1. CASE j < item
      BY <1>0, <1>1, <2>1, <3>1
    <3>2. CASE ~ (j < item)
      <4>1. j + 1 \in 1 .. Len(kids[base]) /\ j + 1 # item /\ kids[base][j + 1] = m
        BY <1>0, <1>1, <2>1, <3>2
      <4>2. QED
        BY <4>1
    <3>3. QED
      BY <3>1, <3>2
  <2>3. QED
    BY <1>1, <1>2, <1>4, <2>2 DEF Holds
<1>5. ASSUME d = base, Holds(d, m), m # target PROVE Holds(d, m)'
  <2>1. PICK i \in 1 .. Len(kids[base]) : kids[base][i] = m /\ i # item
    BY <1>1, <1>5 DEF Holds
  <2>2. CASE i < item
    <3>1. i \in 1 .. (Len(kids[base]) - 1) /\ kids'[base][i] = m
      BY <1>0, <1>1, <2>1, <2>2
    <3>2. QED
      BY <1>1, <1>5, <3>1 DEF Holds
  <2>3. CASE ~ (i < item)
    <3>1. i - 1 \in 1 .. (Len(kids[base]) - 1) /\ ~ (i - 1 < item) /\ (i - 1) + 1 = i
      BY <1>0, <2>1, <2>3
    <3>2. kids'[base][i - 1] = m
      BY <1>1, <2>1, <3>1
    <3>3. QED
      BY <1>1, <1>5, <3>1, <3>2 DEF Holds
  <2>4. QED
    BY <2>2, <2>3
<1>6. QED
  BY <1>3, <1>4, <1>5

LEMMA DeletePrunes ==
    ASSUME TreeInv, NEW base \in Node, kind[base] = "dir", NEW target \in Node \ {Root},
           NEW item \in DOMAIN kids[base], kids[base][item] = target,
           DeleteNode(base, target, item)
    PROVE  Directories!Prune(target)
<1>1. /\ kind' = [kind EXCEPT ![target] = "free"]
      /\ kids' = [kids EXCEPT ![base] = RemoveAt(@, item)]
  BY DEF DeleteNode
<1>2. TreeInv'
  BY DeleteTree
<1>3. Alive' = Alive \ {target} /\ target \in Alive
  BY <1>1 DEF TreeInv, TreeType, TreeIsWhole, Alive, Living
<1>4. \A d, m \in Node : Holds(d, m)' <=> Holds(d, m) /\ m # target
  BY <1>1, EraseHolds
<1>5. DOMAIN kids[target] = {}
  <2>1. kids[target] \in Seq(Node)
    BY DEF TreeInv, TreeType
  <2>2. QED
    BY <2>1, EmptyUnlessDir DEF DeleteNode, MayDelete
<1>6. \A m \in Node : Directory(m) # target
  <2>1. ASSUME NEW m \in Node, Directory(m) = target PROVE FALSE
    <3>1. Holds(target, m)
      BY <2>1, InDirectory
    <3>2. QED
      BY <1>5, <3>1 DEF Holds
  <2>2. QED
    BY <2>1
<1>7. ASSUME NEW m \in Node
      PROVE  Directory(m)' = IF m = target THEN NoNode ELSE Directory(m)
  <2>1. CASE m = target
    BY <1>2, <1>3, <2>1, InDirectoryNext
  <2>2. CASE m # target /\ \E e \in Node : Holds(e, m)
    <3>1. PICK e \in Node : Holds(e, m)
      BY <2>2
    <3>2. Holds(e, m)' /\ Directory(m) = e
      BY <1>4, <2>2, <3>1, InDirectory
    <3>3. Directory(m)' = e
      BY <1>2, <3>2, InDirectoryNext
    <3>4. QED
      BY <2>2, <3>2, <3>3
  <2>3. CASE m # target /\ ~ \E e \in Node : Holds(e, m)
    <3>1. ~ \E e \in Node : Holds(e, m)'
      BY <1>4, <2>3
    <3>2. Directory(m)' = NoNode /\ Directory(m) = NoNode
      BY <2>3, <3>1 DEF Directory, Holds
    <3>3. QED
      BY <2>3, <3>2
  <2>4. QED
    BY <2>1, <2>2, <2>3
<1>8. [m \in Node |-> Directory(m)]' = [[m \in Node |-> Directory(m)] EXCEPT ![target] = NoNode]
  BY <1>7
<1>9. Directories!Below(target) = {}
  BY <1>6 DEF Directories!Below, Alive
<1>10. QED
  BY <1>3, <1>8, <1>9 DEF Directories!Prune

LEMMA DirectoriesStay ==
    ASSUME UNCHANGED <<kind, kids>> PROVE UNCHANGED Directories!vars
BY DEF Directories!vars, Alive, Directory, Holds

LEMMA KeepsTreeStep ==
    ASSUME ThroughFiles = FALSE, TreeInv, [Next]_vars
    PROVE  [Directories!Next]_(Directories!vars)
<1>1. ASSUME NEW t \in Task, NEW p \in Path, NEW k \in Kind, Make(t, p, k)
      PROVE  Directories!Next
  BY <1>1, NewNodeGrows DEF Make, Living, Directories!Next
<1>2. ASSUME NEW t \in Task, NEW p \in Path, NEW h \in Handle, OpenCreates(t, p, h)
      PROVE  Directories!Next
  BY <1>2, NewNodeGrows DEF OpenCreates, Living, Directories!Next
<1>3. ASSUME NEW t \in Task, NEW p \in Path, RemoveFile(t, p)
      PROVE  Directories!Next \/ UNCHANGED <<kind, kids>>
  <2>1. CASE IsOpen(Lookup(p))
    BY <1>3, <2>1 DEF RemoveFile, tree
  <2>2. CASE ~ IsOpen(Lookup(p))
    <3>1. PICK target \in Node \ {Root} :
            target = Lookup(p) /\ Used(p) /\ DeleteNode(Parent(p), target, Item(p))
      BY <1>3, <2>2 DEF RemoveFile, Removable, DeleteNode
    <3>2. /\ Parent(p) \in Node /\ kind[Parent(p)] = "dir"
          /\ Item(p) \in DOMAIN kids[Parent(p)] /\ kids[Parent(p)][Item(p)] = target
      BY <3>1, LookupFound
    <3>3. PICK base \in Node, item \in Nat :
            /\ base = Parent(p) /\ item = Item(p)
            /\ DeleteNode(base, target, item)
      <4>1. kids[Parent(p)] \in Seq(Node)
        BY <3>2 DEF TreeInv, TreeType
      <4>2. Item(p) \in Nat
        BY <3>2, <4>1
      <4>3. QED
        BY <3>1, <3>2, <4>2 DEF DeleteNode
    <3>4. Directories!Prune(target)
      BY <3>1, <3>2, <3>3, DeletePrunes
    <3>5. QED
      BY <3>4 DEF Directories!Next
  <2>3. QED
    BY <2>1, <2>2
<1>4. ASSUME NEW t \in Task, NEW p \in Path, NEW nm \in Name, Rename(t, p, nm)
      PROVE  UNCHANGED <<kind, kids>>
  BY <1>4 DEF Rename
<1>5. UNCHANGED tree => UNCHANGED <<kind, kids>>
  BY DEF tree
<1>6. QED
  BY <1>1, <1>2, <1>3, <1>4, <1>5, DirectoriesStay
  DEF Next, Open, OpenRefused, OpenFails, Opened, OpenedInVain, Close, Enter, Leave, vars, tree

(* Whatever is made, renamed, removed, opened and closed, the directories  *)
(* are a tree: a node comes into a living directory and stays in it under  *)
(* every name, and goes when nothing is in it (ramfs.c: new_node,          *)
(* API_FS_RENAME, delete_node).                                            *)
THEOREM RamfsKeepsTree == ASSUME ThroughFiles = FALSE PROVE Spec => KeepsTree
<1>1. ASSUME Init PROVE Directories!Init
  <2>1. TreeInv /\ Alive = {Root}
    BY <1>1, TreeInit, RootAssumption DEF Init, Alive, Living
  <2>2. \A n \in Node : Directory(n) = NoNode
    BY <2>1, InDirectory
  <2>3. QED
    BY <2>1, <2>2, RootAssumption DEF Directories!Init
<1>2. TreeInv /\ [Next]_vars => [Directories!Next]_(Directories!vars)
  BY KeepsTreeStep
<1>3. TreeInv /\ [Next]_vars => TreeInv'
  BY TreeStepHolds
<1>4. QED
  BY <1>1, <1>2, <1>3, TreeInit, PTL DEF Spec, KeepsTree, Directories!Spec

-----------------------------------------------------------------------------
(* What a tree is good for: from every node the root is reached. *)

UpOf == [n \in Node |-> Directory(n)]

LEMMA LeadsUpStep ==
    ASSUME TreeInv, Directories!LeadsUp, [Directories!Next]_(Directories!vars)
    PROVE  Directories!LeadsUp'
<1> SUFFICES ASSUME NEW S \in SUBSET Alive', S # {}
             PROVE  \E n \in S : UpOf'[n] \notin S /\ UpOf'[n] \in Alive' \union {NoNode}
  BY DEF Directories!LeadsUp, UpOf
<1>0. \A T \in SUBSET Alive : T # {} =>
         \E n \in T : UpOf[n] \notin T /\ UpOf[n] \in Alive \union {NoNode}
  BY DEF Directories!LeadsUp, UpOf
<1>1. ASSUME NEW n \in Node, NEW d \in Node, Directories!Grow(n, d)
      PROVE  \E m \in S : UpOf'[m] \notin S /\ UpOf'[m] \in Alive' \union {NoNode}
  <2>1. /\ n \notin Alive /\ d \in Alive /\ Alive' = Alive \union {n}
        /\ UpOf' = [UpOf EXCEPT ![n] = d]
    BY <1>1 DEF Directories!Grow, UpOf
  <2>2. UpOf'[n] = d /\ \A m \in Node \ {n} : UpOf'[m] = UpOf[m]
    BY <2>1 DEF UpOf
  <2>3. Alive \subseteq Node
    BY DEF Alive
  <2> HIDE DEF UpOf, Alive
  <2>4. CASE S = {n}
    BY <2>1, <2>2, <2>4
  <2>5. CASE S # {n}
    <3>1. S \ {n} \in SUBSET Alive /\ S \ {n} # {}
      BY <2>1, <2>5
    <3>2. PICK m \in S \ {n} : UpOf[m] \notin S \ {n} /\ UpOf[m] \in Alive \union {NoNode}
      BY <1>0, <3>1
    <3>3. UpOf'[m] = UpOf[m] /\ UpOf[m] # n
      BY <2>1, <2>2, <2>3, <3>1, <3>2, RootAssumption
    <3>4. QED
      BY <2>1, <3>2, <3>3
  <2>6. QED
    BY <2>4, <2>5
<1>2. ASSUME NEW n \in Node, Directories!Prune(n)
      PROVE  \E m \in S : UpOf'[m] \notin S /\ UpOf'[m] \in Alive' \union {NoNode}
  <2>1. /\ Alive' = Alive \ {n} /\ UpOf' = [UpOf EXCEPT ![n] = NoNode]
        /\ \A m \in Alive : UpOf[m] # n
    BY <1>2 DEF Directories!Prune, Directories!Below, UpOf
  <2>2. \A m \in Node \ {n} : UpOf'[m] = UpOf[m]
    BY <2>1 DEF UpOf
  <2>3. Alive \subseteq Node
    BY DEF Alive
  <2> HIDE DEF UpOf, Alive
  <2>4. PICK m \in S : UpOf[m] \notin S /\ UpOf[m] \in Alive \union {NoNode}
    BY <1>0, <2>1
  <2>5. UpOf'[m] = UpOf[m] /\ UpOf[m] # n
    BY <2>1, <2>2, <2>3, <2>4
  <2>6. QED
    BY <2>1, <2>4, <2>5
<1>3. ASSUME NEW n \in Node, Directories!Plant(n) PROVE FALSE
  BY <1>3, RootAssumption DEF Directories!Plant, TreeInv, TreeType, Alive, Living
<1>4. CASE UNCHANGED Directories!vars
  BY <1>0, <1>4 DEF Directories!vars, UpOf
<1>5. QED
  BY <1>1, <1>2, <1>3, <1>4 DEF Directories!Next

(* No node gets out of reach: going up from any living node, one comes to  *)
(* the root, and never in a circle (ramfs.c: new_node, delete_node).       *)
THEOREM RootIsReached ==
    ASSUME ThroughFiles = FALSE PROVE Spec => [](Directories!OneRoot /\ Directories!LeadsUp)
<1>1. Directories!Init => Directories!LeadsUp
  BY RootAssumption DEF Directories!Init, Directories!LeadsUp, Alive
<1>2. TreeInv /\ Directories!LeadsUp /\ [Directories!Next]_(Directories!vars)
        => Directories!LeadsUp'
  BY LeadsUpStep
<1>3. TreeInv => Directories!OneRoot
  BY InDirectory DEF Directories!OneRoot, Alive
<1>4. TreeInv /\ [Next]_vars => TreeInv'
  BY TreeStepHolds
<1>5. QED
  BY <1>1, <1>2, <1>3, <1>4, TreeInit, RamfsKeepsTree, PTL DEF Spec, KeepsTree, Directories!Spec
=============================================================================
