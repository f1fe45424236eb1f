------------------------------ MODULE Lifecycle ------------------------------
(***************************************************************************)
(* What the process table promises (kernel/process.c), whoever creates,    *)
(* kills, ends or waits for whom: a program runs from its creation to one  *)
(* end, when all its threads stop at once; what it owns is destroyed once, *)
(* by the thread that releases it or after the end; and only then does it  *)
(* become a zombie.  An object that a thread is making or releasing when   *)
(* it is stopped is lost: no one destroys it.                              *)
(***************************************************************************)

CONSTANTS
    Proc, Tid,          \* programs, and the slots of their threads
    Res,                \* kernel objects
    Status, NoStatus,   \* what exit() passes
    NoProc, Nobody      \* no program, no thread

VARIABLES
    life,       \* where a program is in its life
    threads,    \* the threads it runs
    status,     \* its status
    fate,       \* what has become of an object
    maker,      \* the program that made it
    holder      \* the thread that makes or releases it

vars    == <<life, threads, status, fate, maker, holder>>
objects == <<fate, maker, holder>>

Thread == Proc \X Tid

TypeOK ==
    /\ life    \in [Proc -> {"absent", "running", "ended", "zombie", "gone"}]
    /\ threads \in [Proc -> SUBSET Tid]
    /\ status  \in [Proc -> Status \union {NoStatus}]
    /\ fate    \in [Res -> {"new", "made", "owned", "taken", "lost", "gone"}]
    /\ maker   \in [Res -> Proc \union {NoProc}]
    /\ holder  \in [Res -> Thread \union {Nobody}]

(* One program runs, with its main thread. *)
Init ==
    /\ \E p \in Proc :
          /\ life    = [q \in Proc |-> IF q = p THEN "running" ELSE "absent"]
          /\ threads = [q \in Proc |-> IF q = p THEN {0} ELSE {}]
    /\ status  = [p \in Proc |-> NoStatus]
    /\ fate    = [r \in Res |-> "new"]
    /\ maker   = [r \in Res |-> NoProc]
    /\ holder  = [r \in Res |-> Nobody]

-----------------------------------------------------------------------------
Becomes(p, stage) == life' = [life EXCEPT ![p] = stage]

(* These threads hold their objects no more. *)
Loses(gone) ==
    /\ fate'   = [r \in Res |-> IF holder[r] \in gone THEN "lost" ELSE fate[r]]
    /\ holder' = [r \in Res |-> IF holder[r] \in gone THEN Nobody ELSE holder[r]]
    /\ maker'  = maker

(* Everything a program owns is destroyed. *)
DestroysAll(p) ==
    /\ fate' = [r \in Res |-> IF fate[r] = "owned" /\ maker[r] = p THEN "gone" ELSE fate[r]]
    /\ UNCHANGED <<maker, holder>>

-----------------------------------------------------------------------------
(* Programs and threads. *)

Begin(p) ==
    /\ life[p] = "absent"
    /\ Becomes(p, "running")
    /\ threads' = [threads EXCEPT ![p] = {0}]
    /\ UNCHANGED <<status, objects>>

(* There is no memory or no PID for it. *)
NeverBegins(p) ==
    /\ life[p] = "absent"
    /\ Becomes(p, "gone")
    /\ UNCHANGED <<threads, status, objects>>

StartThread(p, i) ==
    /\ threads[p] # {} /\ i \notin threads[p]
    /\ threads' = [threads EXCEPT ![p] = @ \union {i}]
    /\ UNCHANGED <<life, status, objects>>

(* Threads return or are deleted, and the program goes on. *)
StopThreads(p, S) ==
    /\ S \subseteq threads[p]
    /\ threads' = [threads EXCEPT ![p] = @ \ S]
    /\ Loses({p} \X S)
    /\ UNCHANGED <<life, status>>

SetStatus(p, s) ==
    /\ threads[p] # {}
    /\ status' = [status EXCEPT ![p] = s]
    /\ UNCHANGED <<life, threads, objects>>

(* exit(), abort() or a kill. *)
End(p) ==
    /\ life[p] = "running"
    /\ Becomes(p, "ended")
    /\ threads' = [threads EXCEPT ![p] = {}]
    /\ Loses({p} \X Tid)
    /\ UNCHANGED status

(* The clean-up of an ended program ... *)
CleanUp(p) ==
    /\ life[p] = "ended"
    /\ DestroysAll(p)
    /\ UNCHANGED <<life, threads, status>>

(* ... which then is a zombie ... *)
Settle(p) ==
    /\ life[p] = "ended"
    /\ \A r \in Res : ~ (fate[r] = "owned" /\ maker[r] = p)
    /\ Becomes(p, "zombie")
    /\ UNCHANGED <<threads, status, objects>>

(* ... until somebody has waited for it; nobody waits for a detached one. *)
Forget(p) ==
    /\ life[p] \in {"ended", "zombie"}
    /\ Becomes(p, "gone")
    /\ DestroysAll(p)
    /\ UNCHANGED <<threads, status>>

-----------------------------------------------------------------------------
(* Objects.  Only a thread that runs works on one. *)

Holds(c, r, at) == c[2] \in threads[c[1]] /\ holder[r] = c /\ fate[r] = at

Make(c, r) ==
    /\ c[2] \in threads[c[1]] /\ fate[r] = "new"
    /\ fate'   = [fate EXCEPT ![r] = "made"]
    /\ maker'  = [maker EXCEPT ![r] = c[1]]
    /\ holder' = [holder EXCEPT ![r] = c]
    /\ UNCHANGED <<life, threads, status>>

(* The object is the program's from now on. *)
Own(c, r) ==
    /\ Holds(c, r, "made")
    /\ fate'   = [fate EXCEPT ![r] = "owned"]
    /\ holder' = [holder EXCEPT ![r] = Nobody]
    /\ UNCHANGED <<life, threads, status, maker>>

Take(c, r) ==
    /\ c[2] \in threads[c[1]] /\ fate[r] = "owned" /\ maker[r] = c[1]
    /\ fate'   = [fate EXCEPT ![r] = "taken"]
    /\ holder' = [holder EXCEPT ![r] = c]
    /\ UNCHANGED <<life, threads, status, maker>>

Destroy(c, r) ==
    /\ Holds(c, r, "taken")
    /\ fate'   = [fate EXCEPT ![r] = "gone"]
    /\ holder' = [holder EXCEPT ![r] = Nobody]
    /\ UNCHANGED <<life, threads, status, maker>>

-----------------------------------------------------------------------------
ProgramNext(p) ==
    \/ Begin(p) \/ NeverBegins(p) \/ End(p) \/ CleanUp(p) \/ Settle(p) \/ Forget(p)
    \/ \E i \in Tid : StartThread(p, i)
    \/ \E S \in SUBSET Tid : StopThreads(p, S)
    \/ \E s \in Status : SetStatus(p, s)

ObjectNext(c, r) == Make(c, r) \/ Own(c, r) \/ Take(c, r) \/ Destroy(c, r)

Next ==
    \/ \E p \in Proc : ProgramNext(p)
    \/ \E c \in Thread, r \in Res : ObjectNext(c, r)

Spec == Init /\ [][Next]_vars
-----------------------------------------------------------------------------
(* What follows: threads run only in a program that runs, an object in     *)
(* somebody's hands is in those of a thread that runs and of its program,  *)
(* and nothing is owned by a program that was cleaned up.                  *)
NothingOrphaned ==
    /\ \A p \in Proc : threads[p] # {} => life[p] = "running"
    /\ \A r \in Res : fate[r] \in {"made", "taken"} =>
           \E c \in Thread : holder[r] = c /\ maker[r] = c[1] /\ c[2] \in threads[c[1]]
    /\ \A r \in Res : fate[r] = "owned" =>
           maker[r] \in Proc /\ life[maker[r]] \in {"running", "ended"}
=============================================================================
