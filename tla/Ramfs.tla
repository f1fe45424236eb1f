------------------------------- MODULE Ramfs -------------------------------
(***************************************************************************)
(* The RAM file system (fs/ramfs/ramfs.c) and what fopen and fclose of the *)
(* VFS do around it: the tree of nodes, the list of open files, files      *)
(* removed while they are open, and the pipes and devices behind nodes.    *)
(*                                                                         *)
(* Every operation runs under resource_mtx, so it is one step; a read, a   *)
(* write or an ioctl of a FIFO or a device drops the mutex and then goes   *)
(* into the pipe or the driver, for as long as it likes, with the pointer  *)
(* it took.  fopen asks for the attributes of the file after the file      *)
(* system has opened it: a second step.                                    *)
(*                                                                         *)
(* A deleted node gives back its name and its data, and the list it is     *)
(* erased from frees it (_llist_erase): the next node may be created at    *)
(* its address.  The data of regular files is left out.                    *)
(***************************************************************************)
EXTENDS Naturals, FiniteSets, SequencesExt

CONSTANTS
    Task,
    Node, Root,         \* the nodes there is memory for, and root_dir
    Name,
    Path,               \* paths programs use: sequences of names
    Handle,             \* struct opened_file_info there is memory for
    NoNode, NoName, NoHandle,
    ThroughFiles,       \* do programs use paths that go through a file?
    Lends               \* do programs use FILEs that others opened?

ASSUME RootAssumption == IsFiniteSet(Node) /\ Root \in Node /\ NoNode \notin Node
ASSUME NameAssumption == Path \subseteq Seq(Name) /\ NoName \notin Name
ASSUME HandleAssumption == NoHandle \notin Handle
ASSUME FlagsAssumption == {ThroughFiles, Lends} \subseteq BOOLEAN

Living == {"dir", "reg", "fifo", "dev"}
Kind   == Living \union {"free", "deleted"}

VARIABLES
    kind,       \* what a node is
    name,       \* node->name
    kids,       \* the list of a directory
    count,      \* hdl->file_count
    files,      \* hdl->opended_files
    file,       \* the entries of that list
    held,       \* the FILEs a task has opened
    opening,    \* the file a task is about to fstat in fopen
    lost,       \* the files left open by an fopen that failed
    busy        \* the node whose pipe or device a task is in

vars == <<kind, name, kids, count, files, file, held, opening, lost, busy>>
tree == <<kind, name, kids, count>>
use  == <<files, file, held, opening, lost, busy>>

OpenFile == [child: Node, removeAtClose: BOOLEAN]
NoFile   == [child |-> Root, removeAtClose |-> FALSE]

TypeOK ==
    /\ kind \in [Node -> Kind] /\ kind[Root] = "dir"
    /\ name \in [Node -> Name \union {NoName}]
    /\ kids \in [Node -> Seq(Node \ {Root})]
    /\ count \in Nat
    /\ files \subseteq Handle
    /\ file \in [Handle -> OpenFile]
    /\ held \in [Task -> SUBSET Handle]
    /\ opening \in [Task -> Handle \union {NoHandle}]
    /\ lost \subseteq Handle
    /\ busy \in [Task -> Node \union {NoNode}]

(* API_FS_INIT. *)
Init ==
    /\ kind    = [n \in Node |-> IF n = Root THEN "dir" ELSE "free"]
    /\ name    = [n \in Node |-> NoName]
    /\ kids    = [n \in Node |-> <<>>]
    /\ count   = 0
    /\ files   = {}
    /\ file    = [h \in Handle |-> NoFile]
    /\ held    = [t \in Task |-> {}]
    /\ opening = [t \in Task |-> NoHandle]
    /\ lost    = {}
    /\ busy    = [t \in Task |-> NoNode]

-----------------------------------------------------------------------------
(* Paths. *)

(* The first entry of a directory with this name; 0 when there is none. *)
Position(d, nm) == SelectInSeq(kids[d], LAMBDA n : name[n] = nm)

(* The size of the list of something that is not a directory is -1, and    *)
(* get_node then stays where it is.                                        *)
Descend(at, nm) ==
    CASE at \notin Node      -> NoNode
      [] kind[at] # "dir"    -> at
      [] Position(at, nm) = 0 -> NoNode
      [] OTHER               -> kids[at][Position(at, nm)]

(* The node that all but the last name of a path lead to. *)
Parent(p) ==
    LET at[i \in 0 .. Len(p)] == IF i = 0 THEN Root ELSE Descend(at[i - 1], p[i])
    IN  at[IF p = <<>> THEN 0 ELSE Len(p) - 1]
Lookup(p) == IF p = <<>> THEN Root ELSE Descend(Parent(p), Last(p))

ThroughFile(p) == LET d == Parent(p) IN d \in Node /\ kind[d] # "dir"
Used(p)        == ThroughFiles \/ ~ ThroughFile(p)

(* Where get_node found the last name; the root is found nowhere. *)
ItemMutant(p) == 1
Item(p) == IF p = <<>> THEN 0 ELSE Position(Parent(p), Last(p))

Idle(t)     == opening[t] = NoHandle /\ busy[t] = NoNode
Openings(n) == {h \in files : file[h].child = n}

-----------------------------------------------------------------------------
(* Nodes. *)

NewNode(parent, nm, k) ==
    \E n \in Node :
        /\ kind[n] = "free"
        /\ parent \in Node /\ kind[parent] = "dir"
        /\ Position(parent, nm) = 0
        /\ kind'  = [kind EXCEPT ![n] = k]
        /\ name'  = [name EXCEPT ![n] = nm]
        /\ kids'  = [kids EXCEPT ![parent] = Append(@, n)]
        /\ count' = count + 1

MayDeleteMutant(n) == TRUE
MayDelete(n)       == kind[n] = "dir" => kids[n] = <<>>

(* base->data is the list of a directory, or nothing is erased and freed. *)
DeleteNode(base, target, item) ==
    /\ MayDelete(target)
    /\ name'  = [name EXCEPT ![target] = NoName]
    /\ IF kind[base] = "dir"
       THEN /\ kids' = [kids EXCEPT ![base] = RemoveAt(@, item)]
            /\ kind' = [kind EXCEPT ![target] = "free"]
       ELSE kids' = kids /\ kind' = [kind EXCEPT ![target] = "deleted"]
    /\ count' = count - 1

(* mkdir, mkfifo and mknod. *)
Make(t, p, k) ==
    /\ Idle(t) /\ Used(p)
    /\ p # <<>> /\ k \in {"dir", "fifo", "dev"}
    /\ NewNode(Parent(p), Last(p), k)
    /\ UNCHANGED use

(* Only the name changes: the directory of the new path is not looked at,  *)
(* nor are the names that are there.                                       *)
Rename(t, p, nm) ==
    /\ Idle(t) /\ Used(p)
    /\ p # <<>> /\ Lookup(p) \in Node
    /\ name' = [name EXCEPT ![Lookup(p)] = nm]
    /\ UNCHANGED <<kind, kids, count, use>>

IsOpenMutant(n) == Cardinality(Openings(n)) > 1
IsOpen(n)       == kind[n] # "dir" /\ Openings(n) # {}

RemovableMutant(n) == n \in Node
Removable(n)       == n \in Node \ {Root}

(* Something that is open is only marked. *)
RemoveFile(t, p) ==
    LET child == Lookup(p) IN
    /\ Idle(t) /\ Used(p)
    /\ Removable(child)
    /\ IF IsOpen(child)
       THEN /\ file' = [h \in Handle |->
                          IF h \in Openings(child)
                          THEN [file[h] EXCEPT !.removeAtClose = TRUE] ELSE file[h]]
            /\ UNCHANGED <<tree, files>>
       ELSE /\ DeleteNode(Parent(p), child, Item(p))
            /\ UNCHANGED <<files, file>>
    /\ UNCHANGED <<held, opening, lost, busy>>

-----------------------------------------------------------------------------
(* Open files. *)

(* add_node_to_open_files_list: what was removed stays removed. *)
InheritsMutant(child) == FALSE
Inherits(child)       == \E g \in Openings(child) : file[g].removeAtClose

Adds(t, h, child) ==
    /\ h \notin files
    /\ files' = files \union {h}
    /\ file' = [file EXCEPT ![h] = [child |-> child, removeAtClose |-> Inherits(child)]]
    /\ opening' = [opening EXCEPT ![t] = h]
    /\ UNCHANGED <<held, lost, busy>>

Open(t, p, h) ==
    /\ Idle(t) /\ Used(p)
    /\ Lookup(p) \in Node /\ kind[Lookup(p)] # "dir"
    /\ Adds(t, h, Lookup(p))
    /\ UNCHANGED tree

(* fopen for writing, of a file that is not there. *)
OpenCreates(t, p, h) ==
    /\ Idle(t) /\ Used(p)
    /\ Lookup(p) = NoNode
    /\ NewNode(Parent(p), Last(p), "reg")
    /\ \/ \E n \in Node : kind[n] = "free" /\ kind'[n] = "reg" /\ Adds(t, h, n)
       \/ UNCHANGED use        \* no memory for the entry: the file stays

(* The driver does not open: the entry that was just added is erased. *)
OpenRefusedMutant(t, p, h) ==
    /\ Idle(t) /\ Used(p) /\ h \notin files
    /\ Lookup(p) \in Node /\ kind[Lookup(p)] = "dev"
    /\ files' = files \union {h}
    /\ file' = [file EXCEPT ![h] = [child |-> Lookup(p),
                                    removeAtClose |-> Inherits(Lookup(p))]]
    /\ UNCHANGED <<tree, held, opening, lost, busy>>
OpenRefused(t, p, h) ==
    /\ Idle(t) /\ Used(p) /\ h \notin files
    /\ Lookup(p) \in Node /\ kind[Lookup(p)] = "dev"
    /\ UNCHANGED vars

(* ENOENT or EISDIR. *)
OpenFails(t, p) ==
    /\ Idle(t) /\ Used(p)
    /\ Lookup(p) \in Node => kind[Lookup(p)] = "dir"
    /\ UNCHANGED vars

(* The fstat of _vfs_fopen; when the driver fails it the FILE is freed, and *)
(* the file system is not told.                                            *)
Opened(t) ==
    /\ opening[t] # NoHandle
    /\ held' = [held EXCEPT ![t] = @ \union {opening[t]}]
    /\ opening' = [opening EXCEPT ![t] = NoHandle]
    /\ UNCHANGED <<tree, files, file, lost, busy>>

OpenedInVain(t) ==
    /\ opening[t] # NoHandle
    /\ kind[file[opening[t]].child] = "dev"
    /\ opening' = [opening EXCEPT ![t] = NoHandle]
    /\ lost' = lost \union {opening[t]}
    /\ UNCHANGED <<tree, files, file, held, busy>>

(* An entry that keeps a removed file from being deleted: the one that is  *)
(* being closed is such an entry, so the file never is.                    *)
Spares(h) == \E g \in files : file[g].child = file[h].child

(* A driver may refuse; the FILE and its entry then stay. *)
Close(t, h) ==
    /\ Idle(t)
    /\ h \in held[t] /\ h \in files
    /\ kind[file[h].child] = "reg" /\ file[h].removeAtClose => Spares(h)
    /\ files' = files \ {h}
    /\ file' = [file EXCEPT ![h] = NoFile]
    /\ held' = [held EXCEPT ![t] = @ \ {h}]
    /\ UNCHANGED <<tree, opening, lost, busy>>

(* Read, write, ioctl or flush of a FIFO or a device. *)
Enter(t, h) ==
    /\ Idle(t)
    /\ h \in UNION {held[u] : u \in IF Lends THEN Task ELSE {t}}
    /\ kind[file[h].child] \in {"fifo", "dev"}
    /\ busy' = [busy EXCEPT ![t] = file[h].child]
    /\ UNCHANGED <<tree, files, file, held, opening, lost>>

Leave(t) ==
    /\ busy[t] # NoNode
    /\ busy' = [busy EXCEPT ![t] = NoNode]
    /\ UNCHANGED <<tree, files, file, held, opening, lost>>

-----------------------------------------------------------------------------

Next ==
    \E t \in Task :
        \/ \E p \in Path :
              \/ \E k \in Kind : Make(t, p, k)
              \/ \E nm \in Name : Rename(t, p, nm)
              \/ RemoveFile(t, p)
              \/ \E h \in Handle :
                    Open(t, p, h) \/ OpenCreates(t, p, h) \/ OpenRefused(t, p, h)
              \/ OpenFails(t, p)
        \/ \E h \in Handle : Close(t, h) \/ Enter(t, h)
        \/ Opened(t) \/ OpenedInVain(t) \/ Leave(t)

Spec == Init /\ [][Next]_vars

-----------------------------------------------------------------------------
(* Properties. *)

Alive == {n \in Node : kind[n] \in Living}

(* Whatever is created, renamed and removed, every living node is in one   *)
(* place of one living directory, a deleted one in none, and file_count,   *)
(* which statfs reports, is their number.                                  *)
TreeIsWhole ==
    /\ \A n \in Alive \ {Root} : \E d \in Node : \E i \in DOMAIN kids[d] : kids[d][i] = n
    /\ \A d \in Node : \A i \in DOMAIN kids[d] :
          /\ kind[d] = "dir" /\ kids[d][i] \in Alive \ {Root}
          /\ \A e \in Node : \A j \in DOMAIN kids[e] :
                kids[e][j] = kids[d][i] => d = e /\ i = j
    /\ count = Cardinality(Alive \ {Root})

(* The directories are a tree: a node is created in a directory and stays  *)
(* in it under any name, and only a directory with nothing in it, or a     *)
(* file, is removed.  So no living node is out of the reach of the root.   *)
Holds(d, n)  == \E i \in DOMAIN kids[d] : kids[d][i] = n
Directory(n) == IF \E d \in Node : Holds(d, n)
                THEN CHOOSE d \in Node : Holds(d, n)
                ELSE NoNode

Directories == INSTANCE Tree WITH
    Nothing <- NoNode,
    nodes   <- Alive,
    above   <- [n \in Node |-> Directory(n)]

KeepsTree == Directories!Spec

(* The node of an open file, and the one whose pipe or device a task is in *)
(* without the mutex, is never deleted under it: remove only marks it.     *)
InUseAlive ==
    /\ \A h \in files : kind[file[h].child] \in Living \ {"dir"}
    /\ \A t \in Task : busy[t] # NoNode => kind[busy[t]] \in Living

(* A file is removed for all who have it open or for none, those who       *)
(* opened it after the removal included.                                   *)
HandlesAgree ==
    \A g, h \in files :
        file[g].child = file[h].child => file[g].removeAtClose = file[h].removeAtClose

(* The file system's list of open files is what programs hold, or are just *)
(* opening, or lost to a failed fstat: nothing else stays open that nobody *)
(* can close, and no FILE refers to an entry that is gone.                 *)
HandlesOwned ==
    files = lost \union (UNION {held[t] : t \in Task})
                 \union ({opening[t] : t \in Task} \ {NoHandle})

(* sysfunc.h of remove: "if the removed name was the last link to a file   *)
(* and no processes have the file open, the file is deleted".  When the    *)
(* last one closes a removed file, it is deleted.                          *)
RemovedIsGone ==
    [][\A h \in files :
          /\ kind[file[h].child] = "reg" /\ file[h].removeAtClose
          /\ \A g \in files' : file'[g].child # file[h].child
          => kind'[file[h].child] \notin Living]_vars
=============================================================================
