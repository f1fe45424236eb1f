--------------------------------- MODULE Vfs ---------------------------------
(***************************************************************************)
(* The table of mounted file systems, fs/vfs.c: mount, umount, the look-up *)
(* of the file system of a path, and the calls that look one up and then   *)
(* use it (fopen, opendir, mkdir, stat...).                                *)
(*                                                                         *)
(* The table is changed and searched under VFS.resource_mtx, so a mount,   *)
(* an umount and a look-up are one step each; what a look-up has found is  *)
(* used after the mutex is released.                                       *)
(*                                                                         *)
(* A path is the sequence of its names; a mount point ends with a slash,   *)
(* a path of a file does not.                                              *)
(***************************************************************************)
EXTENDS Naturals, Sequences, FiniteSets, SequencesExt

CONSTANTS
    FS,             \* file system instances (FS_entry_t with its handle)
    None,           \* no file system
    Task,
    Points,         \* directories that are used as mount points
    Files,          \* paths of files and directories that are used
    CountLimit,     \* children_cnt is counted modulo this (u8_t: 256)
    MaxFailures     \* bound: mounts that fail in the new file system

Root == <<>>

ASSUME NoneAssumption  == None \notin FS
ASSUME FSAssumption    == IsFiniteSet(FS)
ASSUME PathsAssumption ==
    Points \subseteq Seq(STRING) /\ Files \subseteq Seq(STRING) \ {Root}
ASSUME CountAssumption == CountLimit \in Nat \ {0} /\ MaxFailures \in Nat

VARIABLES
    list,       \* VFS.mnt_list
    point,      \* where a file system was mounted
    parent,     \* the file system it was mounted in
    children,   \* children_cnt
    unused,     \* instances that do not exist yet
    looked,     \* the file system a task has looked up and not used yet
    file,       \* the file system of the file a task has open
    lost,       \* file systems with an open file that has no FILE
    failures

entryVars == <<list, point, parent, children, unused, failures>>
vars == <<entryVars, looked, file, lost>>

TypeOK ==
    /\ list     \in Seq(FS)
    /\ point    \in [FS -> Points \union {Root}]
    /\ parent   \in [FS -> FS \union {None}]
    /\ children \in [FS -> 0 .. CountLimit - 1]
    /\ unused   \in SUBSET FS
    /\ looked   \in [Task -> FS \union {None}]
    /\ file     \in [Task -> FS \union {None}]
    /\ lost     \in SUBSET FS
    /\ failures \in 0 .. MaxFailures

Init ==
    /\ list     = <<>>
    /\ point    = [f \in FS |-> Root]
    /\ parent   = [f \in FS |-> None]
    /\ children = [f \in FS |-> 0]
    /\ unused   = FS
    /\ looked   = [t \in Task |-> None]
    /\ file     = [t \in Task |-> None]
    /\ lost     = {}
    /\ failures = 0

-----------------------------------------------------------------------------
(* Look-ups. *)

Mounted == {list[i] : i \in 1 .. Len(list)}

(* get_path_FS with the whole path. *)
MountedAt(p) == {f \in Mounted : point[f] = p}

(* get_path_FS with the first k names of a path and the slash after them:  *)
(* strncmp compares as many characters of the mount point, which may go on. *)
Matches(p, k) == {i \in 1 .. Len(list) : IsPrefix(SubSeq(p, 1, k), point[list[i]])}

First(S) == CHOOSE i \in S : \A j \in S : i <= j

(* get_path_base_FS: the longest beginning of the path, up to its last      *)
(* slash (the first depth names), that matches some mount point.           *)
BaseMutant(p, depth) ==
    LET longest == CHOOSE k \in 0 .. depth :
                      /\ Matches(p, k) # {}
                      /\ \A l \in k + 1 .. depth : Matches(p, l) = {}
    IN  list[CHOOSE i \in Matches(p, longest) : \A j \in Matches(p, longest) : i >= j]
Base(p, depth) ==
    LET longest == CHOOSE k \in 0 .. depth :
                      /\ Matches(p, k) # {}
                      /\ \A l \in k + 1 .. depth : Matches(p, l) = {}
    IN  list[First(Matches(p, longest))]

BaseOfPoint(p) == Base(p, Len(p))

-----------------------------------------------------------------------------
(* _vfs_mount. *)

(* new_FS_entry and _llist_push_back. *)
Adds(f, p, base) ==
    /\ list' = Append(list, f)
    /\ point' = [point EXCEPT ![f] = p]
    /\ parent' = [parent EXCEPT ![f] = base]

MountFirst(f) ==
    /\ list = <<>>
    /\ f \in unused
    /\ Adds(f, Root, None)
    /\ unused' = unused \ {f}
    /\ UNCHANGED <<children, failures, looked, file, lost>>

(* The directory is there: the child is counted before it is made. *)
CountsChildMutant(base) == UNCHANGED children
CountsChild(base) == children' = [children EXCEPT ![base] = (@ + 1) % CountLimit]

Mount(f, p) ==
    /\ list # <<>>
    /\ MountedAt(p) = {}
    /\ f \in unused
    /\ LET base == BaseOfPoint(p)
       IN  Adds(f, p, base) /\ CountsChild(base)
    /\ unused' = unused \ {f}
    /\ UNCHANGED <<failures, looked, file, lost>>

(* fs_closedir or fs_init fails, and the count stays. *)
MountFails(p) ==
    /\ list # <<>>
    /\ MountedAt(p) = {}
    /\ failures < MaxFailures
    /\ failures' = failures + 1
    /\ CountsChild(BaseOfPoint(p))
    /\ UNCHANGED <<list, point, parent, unused, looked, file, lost>>

-----------------------------------------------------------------------------
(* _vfs_umount. *)

(* fs_release refuses while a file is open. *)
InUse(f) == f \in lost \/ \E t \in Task : file[t] = f

(* delete_FS_entry, with the parent's count. *)
ForgetsMutant(f) ==
    IF parent[f] # None
    THEN children' = [children EXCEPT ![f] = @ - 1]
    ELSE UNCHANGED children
Forgets(f) ==
    IF parent[f] # None /\ children[parent[f]] # 0
    THEN children' = [children EXCEPT ![parent[f]] = @ - 1]
    ELSE UNCHANGED children

UmountMutant(i) ==
    /\ ~ InUse(list[i])
    /\ Forgets(list[i])
    /\ list' = RemoveAt(list, i)
    /\ UNCHANGED <<point, parent, unused, failures, looked, file, lost>>
Umount(i) ==
    /\ children[list[i]] = 0
    /\ ~ InUse(list[i])
    /\ Forgets(list[i])
    /\ list' = RemoveAt(list, i)
    /\ UNCHANGED <<point, parent, unused, failures, looked, file, lost>>

-----------------------------------------------------------------------------
(* _vfs_fopen; _vfs_opendir, _vfs_mkdir and the others are alike.  What a  *)
(* task has found is used even when it has been released since.            *)

LookUp(t, p, depth) ==
    /\ looked[t] = None /\ file[t] = None
    /\ list # <<>>
    /\ looked' = [looked EXCEPT ![t] = Base(p, depth)]
    /\ UNCHANGED <<entryVars, file, lost>>

LookUpFile(t, p)      == LookUp(t, p, Len(p) - 1)
LookUpDirectory(t, p) == LookUp(t, p, Len(p))

(* fs_open refuses, or the call was one that opens nothing. *)
UseEnds(t) ==
    /\ looked[t] # None
    /\ looked' = [looked EXCEPT ![t] = None]
    /\ UNCHANGED <<entryVars, file, lost>>

Open(t) ==
    /\ looked[t] # None
    /\ file' = [file EXCEPT ![t] = looked[t]]
    /\ looked' = [looked EXCEPT ![t] = None]
    /\ UNCHANGED <<entryVars, lost>>

(* fs_open succeeds and fs_fstat does not: nobody closes the file. *)
OpenLosesFile(t) ==
    /\ looked[t] # None
    /\ lost' = lost \union {looked[t]}
    /\ looked' = [looked EXCEPT ![t] = None]
    /\ UNCHANGED <<entryVars, file>>

Close(t) ==
    /\ file[t] # None
    /\ file' = [file EXCEPT ![t] = None]
    /\ UNCHANGED <<entryVars, looked, lost>>

-----------------------------------------------------------------------------

Next ==
    \/ \E f \in FS : MountFirst(f)
    \/ \E i \in 1 .. Len(list) : Umount(i)
    \/ \E f \in FS, p \in Points : Mount(f, p)
    \/ \E p \in Points : MountFails(p)
    \/ \E t \in Task, p \in Files : LookUpFile(t, p)
    \/ \E t \in Task, p \in Points : LookUpDirectory(t, p)
    \/ \E t \in Task : UseEnds(t) \/ Open(t) \/ OpenLosesFile(t) \/ Close(t)

Spec == Init /\ [][Next]_vars
-----------------------------------------------------------------------------
(* Properties. *)

(* Each directory carries at most one file system, and a file system stays *)
(* mounted as long as others are mounted in it: the one that it was        *)
(* mounted in comes before it in the list, and the root before all.  An    *)
(* umount looks at a count only, which mounts that fail leave too high.    *)
TreeIsWhole ==
    \A i \in 1 .. Len(list) :
        /\ \A j \in 1 .. Len(list) : point[list[i]] = point[list[j]] => i = j
        /\ parent[list[i]] = None <=> i = 1
        /\ i > 1 => \E j \in 1 .. i - 1 : list[j] = parent[list[i]]
        /\ i = 1 => point[list[i]] = Root

(* A count is never too low: it is the number of file systems mounted in   *)
(* this one, and of the mounts that failed.                                *)
ChildrenCounted ==
    \A f \in Mounted :
        LET mounted == Cardinality({g \in Mounted : parent[g] = f})
        IN  children[f] \in mounted .. mounted + failures

(* The mounted file systems are a tree: an umount takes away one in which  *)
(* no other is mounted, and a mount puts one below another that is there.  *)
Mounts == INSTANCE Tree WITH
    Node    <- FS,
    Nothing <- None,
    nodes   <- Mounted,
    above   <- [f \in FS |-> IF f \in Mounted THEN parent[f] ELSE None]

KeepsTree == Mounts!Spec

(* The file system of a path is the one mounted in the nearest directory   *)
(* above it. *)
Above(f, p)   == IsPrefix(point[f], p) /\ point[f] # p
Nearest(f, p) == Above(f, p) /\ \A g \in Mounted : Above(g, p) => Len(point[g]) <= Len(point[f])

NearestFound == list # <<>> => \A p \in Files : Nearest(Base(p, Len(p) - 1), p)

(* It is found when every directory on the way to a mount point is the     *)
(* root of a file system that was mounted before.                          *)
DirectoriesMountedFirst ==
    \A i \in 1 .. Len(list) : \A k \in 0 .. Len(point[list[i]]) - 1 :
        \E j \in 1 .. i - 1 : point[list[j]] = SubSeq(point[list[i]], 1, k)

NearestFoundThen == DirectoriesMountedFirst => NearestFound

(* A file system in which a file is open is mounted (sys/mount.h: "To      *)
(* unmount file system, all files of unmounting file system shall be       *)
(* closed").                                                               *)
OpenFilesMounted == \A t \in Task : file[t] # None => file[t] \in Mounted
=============================================================================
