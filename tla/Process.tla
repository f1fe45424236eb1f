------------------------------- MODULE Process -------------------------------
(***************************************************************************)
(* The process table of the dnx RTOS kernel: kernel/process.c, the system  *)
(* calls of kernel/syscall.c that drive it, and the library calls of       *)
(* libc/dnx/thread.h made of several of them (process_wait, process_kill,  *)
(* thread_join2).                                                          *)
(*                                                                         *)
(* A system call runs in the task of its caller.  Its critical sections    *)
(* under process_mtx are single actions, except that process_move_list is  *)
(* two (unlink, then link), because _process_get_container reads the lists *)
(* under the scheduler lock and not under the mutex: it can see a process  *)
(* that is on no list.  What a task does between two critical sections is  *)
(* a step of its own, so every other task can run there, kill included.    *)
(***************************************************************************)
EXTENDS Integers, FiniteSets

CONSTANTS
    Proc,           \* process containers; one is allocated at most once
    NoProc,         \* no container
    Initd,          \* the program the kernel starts
    PidMax,         \* PID_MAX
    MaxThreads,     \* __OS_TASK_MAX_USER_THREADS__
    Res,            \* kernel objects a process can own (files, mutexes, ...)
    Status,         \* values exit() passes
    Calls,          \* the calls each program makes in this instance
    Timeouts,       \* whether waits have a finite timeout
    SelfEnd         \* whether a task may end the process it belongs to by
                    \* process_kill(), by exit() outside the main thread, by
                    \* closing an object of the wrong type, or cancel itself

Tid  == 0 .. (MaxThreads - 1)
Task == Proc \X Tid
Pid  == 1 .. PidMax
Free == <<NoProc, 0>>       \* process_mtx has no owner

ASSUME ProcAssumption    == NoProc \notin Proc /\ Initd \in Proc
ASSUME PidMaxAssumption  == PidMax \in Nat \ {0}
ASSUME ThreadsAssumption == MaxThreads \in Nat \ {0}
ASSUME FlagAssumption    == Timeouts \in BOOLEAN /\ SelfEnd \in BOOLEAN

NoStatus == "unset"         \* the zero of _kzalloc
ASSUME StatusAssumption == NoStatus \notin Status

Op == {"create", "kill", "wait", "reap", "exit",
       "thread", "cancel", "join", "open", "close", "none"}
ASSUME CallsAssumption == Calls \in [Proc -> SUBSET (Op \ {"none", "reap"})]

List == {"unborn",    \* not allocated yet
         "creating",  \* in _process_create, on no list
         "active",    \* active_process_list
         "moving",    \* inside process_move_list, on no list
         "destroy",   \* destroy_process_list
         "zombie",    \* zombie_process_list
         "freed"}     \* _kfree of the container

PC == {"none",        \* no such task
       "user",        \* in the program
       "cleaning",    \* in _process_clean_up_killed_processes, owns process_mtx
       "handler",     \* about to run the handler of call[c].op
       "allocated",   \* _process_create, before get_pid
       "numbered",    \* _process_create, has a PID and is not listed
       "ending",      \* _process_exit, before it takes the mutex
       "moving",      \* _process_kill inside process_move_list
       "leaving",     \* _process_exit inside process_move_list
       "exiting",     \* _process_exit after the mutex, before vTaskDelete
       "starting",    \* _process_thread_create, owns process_mtx; the new
                      \* thread already runs
       "flagread",    \* has the container, about to read its event flag
       "flagwait",    \* back in the program, about to call flag_wait
       "waiting",     \* blocked in xEventGroupWaitBits
       "woken",       \* about to call SYSCALL_PROCESSCLEANZOMBIE
       "removing",    \* between _process_get_container and _process_remove_zombie
       "holding",     \* created an object, has not registered it
       "unlinked"}    \* unlinked an object, has not destroyed it

ResState == {"none", "made", "listed", "unlinked", "gone"}

NoCall == [op |-> "none", arg |-> 0, obj |-> NoProc]
Call   == [op: Op, arg: Nat, obj: Proc \union {NoProc}]

VARIABLES
    list,       \* where a container is
    pid,        \* _process_t.pid
    pidCnt,     \* PID_cnt
    detached,   \* FLAG_DETACHED
    status,     \* _process_t.status
    event,      \* whether the event flag object exists
    exitBit,    \* _PROCESS_EXIT_FLAG bits set in it
    pc,         \* where a task is
    call,       \* the call a task is in: operation, PID or thread, container
    mtx,        \* owner of process_mtx
    rstate,     \* state of a kernel object
    rproc,      \* the process that made it
    rtask       \* the task creating or releasing it, Free if none

procVars == <<list, pid, pidCnt, detached, status>>
flagVars == <<event, exitBit>>
resVars  == <<rstate, rproc, rtask>>
vars     == <<list, pid, pidCnt, detached, status, event, exitBit, pc, call,
              mtx, rstate, rproc, rtask>>

TypeOK ==
    /\ list     \in [Proc -> List]
    /\ pid      \in [Proc -> 0 .. PidMax]
    /\ pidCnt   \in 0 .. PidMax
    /\ detached \in [Proc -> BOOLEAN]
    /\ status   \in [Proc -> Status \union {NoStatus}]
    /\ event    \in [Proc -> BOOLEAN]
    /\ exitBit  \in [Proc -> SUBSET Tid]
    /\ pc       \in [Task -> PC]
    /\ call     \in [Task -> Call]
    /\ mtx      \in Task \union {Free}
    /\ rstate   \in [Res -> ResState]
    /\ rproc    \in [Res -> Proc \union {NoProc}]
    /\ rtask    \in [Res -> Task \union {Free}]

(* The kernel started kworker, which makes no system call and is left out, *)
(* and initd, detached, with no thread but its main one.                   *)
Init ==
    /\ list     = [p \in Proc |-> IF p = Initd THEN "active" ELSE "unborn"]
    /\ pid      = [p \in Proc |-> IF p = Initd THEN 1 ELSE 0]
    /\ pidCnt   = 1
    /\ detached = [p \in Proc |-> p = Initd]
    /\ status   = [p \in Proc |-> NoStatus]
    /\ event    = [p \in Proc |-> p = Initd]
    /\ exitBit  = [p \in Proc |-> {}]
    /\ pc       = [c \in Task |-> IF c = <<Initd, 0>> THEN "user" ELSE "none"]
    /\ call     = [c \in Task |-> NoCall]
    /\ mtx      = Free
    /\ rstate   = [r \in Res |-> "none"]
    /\ rproc    = [r \in Res |-> NoProc]
    /\ rtask    = [r \in Res |-> Free]

-----------------------------------------------------------------------------
(* Helpers.  An operator whose name ends in Mutant is the one after it with *)
(* a plausible mistake in it: no specification uses it, and a property is  *)
(* worth checking when it fails with the mistake in place.                 *)

(* _flag_set wakes every task blocked on the bit; as each of them waits    *)
(* with clear-on-exit, the bit stays set only when nobody waited.          *)
AwaitedBit(c)    == IF call[c].op = "join" THEN call[c].arg ELSE 0
WaitersOf(q)     == {c \in Task : pc[c] = "waiting" /\ call[c].obj = q}
WaitersForMutant(q, i) == {}
WaitersFor(q, i) == {c \in WaitersOf(q) : AwaitedBit(c) = i}
SetExitBit(q, i) == IF WaitersFor(q, i) = {}
                    THEN [exitBit EXCEPT ![q] = @ \union {i}]
                    ELSE exitBit

(* Where a task goes when flag_wait returned ESUCC: process_wait goes on   *)
(* to SYSCALL_PROCESSCLEANZOMBIE, thread_join2 returns.                    *)
Released(c) == IF call[c].op = "join" THEN "user" ELSE "woken"

(* The tasks gone are deleted, those of woken resume, c goes to at.        *)
Moves(gone, woken, c, at) ==
    /\ pc' = [d \in Task |-> IF d \in gone       THEN "none"
                             ELSE IF d = c       THEN at
                             ELSE IF d \in woken THEN Released(d)
                             ELSE pc[d]]
    /\ call' = [d \in Task |->
                  IF \/ d \in gone
                     \/ d = c /\ at \in {"user", "leaving", "none"}
                     \/ d \in woken /\ Released(d) = "user"
                  THEN NoCall ELSE call[d]]

(* c alone goes to at. *)
Goes(c, at) == Moves({}, {}, c, at)

(* _task_destroy of every task in the table of q. *)
TasksOfMutant(q) == {<<q, 0>>}
TasksOf(q)       == {c \in Task : c[1] = q}

(* The threads _process_exit destroys: all but the main one. *)
ThreadsOfMutant(q) == {}
ThreadsOf(q)       == {c \in TasksOf(q) : c[2] # 0}

(* A task deleted in the middle of creating or releasing an object leaves  *)
(* it to nobody.                                                           *)
ForgottenBy(gone) ==
    /\ rtask' = [r \in Res |-> IF rtask[r] \in gone THEN Free ELSE rtask[r]]
    /\ UNCHANGED <<rstate, rproc>>

(* _process_get_container: the running process if its PID matches, else    *)
(* the first match on the active, the destroy and the zombie list.         *)
WithPid(k, l) == {q \in Proc : list[q] = l /\ pid[q] = k}
Container(c, k) ==
    IF pid[c[1]] = k                  THEN {c[1]}
    ELSE IF WithPid(k, "active")  # {} THEN WithPid(k, "active")
    ELSE IF WithPid(k, "destroy") # {} THEN WithPid(k, "destroy")
    ELSE WithPid(k, "zombie")

-----------------------------------------------------------------------------
(* syscall(): a task enters the kernel.  Every call first cleans up the    *)
(* destroy list; _task_get_process_container and the statistics also take  *)
(* process_mtx, so no call starts while another task owns it.              *)

CallOf(o, k) == [op |-> o, arg |-> k, obj |-> NoProc]

MustCleanUpMutant == FALSE
MustCleanUp       == \E q \in Proc : list[q] = "destroy"

EnterKernel(c, new) ==
    /\ mtx = Free
    /\ call' = [call EXCEPT ![c] = new]
    /\ IF MustCleanUp
       THEN mtx' = c /\ pc' = [pc EXCEPT ![c] = "cleaning"]
       ELSE mtx' = mtx /\ pc' = [pc EXCEPT ![c] = "handler"]
    /\ UNCHANGED <<procVars, flagVars, resVars>>

(* The program has been given the object, and may have released it since.  *)
Known(r, p) == rproc[r] = p /\ rstate[r] \in {"listed", "unlinked", "gone"}

(* A program calls. *)
PidCall(c) ==
    /\ pc[c] = "user"
    /\ \E o \in {"kill", "wait"} \intersect Calls[c[1]], k \in Pid :
          /\ o = "kill" /\ k = pid[c[1]] => SelfEnd
          /\ EnterKernel(c, CallOf(o, k))

ThreadCall(c) ==
    /\ pc[c] = "user"
    /\ \E o \in {"cancel", "join"} \intersect Calls[c[1]], i \in 1 .. MaxThreads :
          /\ o = "cancel" /\ i = c[2] => SelfEnd
          /\ EnterKernel(c, CallOf(o, i))

PlainCall(c) ==
    /\ pc[c] = "user"
    /\ \E o \in {"create", "thread", "open", "close"} \intersect Calls[c[1]] :
          /\ o = "close" => \E r \in Res : Known(r, c[1])
          /\ EnterKernel(c, CallOf(o, 0))

(* process_wait() after the flag, process_kill() after the kill: both pass  *)
(* the PID again.  The container process_wait waited on stays in call[c]   *)
(* for the properties; the code has forgotten it.                          *)
ReapCall(c) ==
    /\ pc[c] = "woken"
    /\ EnterKernel(c, [call[c] EXCEPT !.op = "reap"])

(* process_destroy_all_resources: every object on the list of q. *)
DestroyResourcesMutant(q) ==
    rstate' = [r \in Res |-> IF rstate[r] = "listed" THEN "gone" ELSE rstate[r]]
DestroyResources(q) ==
    rstate' = [r \in Res |-> IF rstate[r] = "listed" /\ rproc[r] = q
                             THEN "gone" ELSE rstate[r]]

(* _process_clean_up_killed_processes, one turn of its loop. *)
CleanDetached(c) ==
    /\ pc[c] = "cleaning"
    /\ \A q \in Proc : list[q] # "moving"
    /\ \E q \in Proc :
          /\ list[q] = "destroy" /\ detached[q]
          /\ list' = [list EXCEPT ![q] = "freed"]
          /\ event' = [event EXCEPT ![q] = FALSE]
          /\ DestroyResources(q)
          /\ pc'   = [d \in Task |-> IF d \in WaitersOf(q) THEN "user" ELSE pc[d]]
          /\ call' = [d \in Task |-> IF d \in WaitersOf(q) THEN NoCall ELSE call[d]]
    /\ UNCHANGED <<pid, pidCnt, detached, status, exitBit, mtx, rproc, rtask>>

CleanToZombie(c) ==
    /\ pc[c] = "cleaning"
    /\ \A q \in Proc : list[q] # "moving"
    /\ \E q \in Proc :
          /\ list[q] = "destroy" /\ ~ detached[q]
          /\ list' = [list EXCEPT ![q] = "moving"]
          /\ DestroyResources(q)
    /\ UNCHANGED <<pid, pidCnt, detached, status, flagVars, pc, call, mtx, rproc, rtask>>

LinkZombie(c) ==
    /\ pc[c] = "cleaning"
    /\ \E q \in Proc :
          /\ list[q] = "moving"
          /\ list' = [list EXCEPT ![q] = "zombie"]
    /\ UNCHANGED <<pid, pidCnt, detached, status, flagVars, pc, call, mtx, resVars>>

CleanedUp(c) ==
    /\ pc[c] = "cleaning"
    /\ \A q \in Proc : list[q] \notin {"destroy", "moving"}
    /\ mtx' = Free
    /\ Goes(c, "handler")
    /\ UNCHANGED <<procVars, flagVars, resVars>>

InHandler(c, o) == pc[c] = "handler" /\ call[c].op = o

-----------------------------------------------------------------------------
(* _process_create. *)

CreateAlloc(c) ==
    /\ InHandler(c, "create")
    /\ \E q \in Proc, d \in BOOLEAN :
          /\ list[q] = "unborn"
          /\ list' = [list EXCEPT ![q] = "creating"]
          /\ detached' = [detached EXCEPT ![q] = d]
          /\ pc' = [pc EXCEPT ![c] = "allocated"]
          /\ call' = [call EXCEPT ![c].obj = q]
    /\ UNCHANGED <<pid, pidCnt, status, flagVars, mtx, resVars>>

FollowingMutant(k) == pidCnt + k
FollowingLowest(k) == ((k - 1) % PidMax) + 1

(* get_pid: the first PID after PID_cnt, cyclically, that no process on    *)
(* the active list has.  The code scans that list three times and never    *)
(* the destroy and the zombie list.                                        *)
Following(k) == ((pidCnt + k - 1) % PidMax) + 1
TakenPid(n)  == \E q \in Proc : list[q] = "active" /\ pid[q] = n

GetPid(c) ==
    /\ pc[c] = "allocated"
    /\ mtx = Free
    /\ \E k \in 1 .. PidMax :
          /\ ~ TakenPid(Following(k))
          /\ \A j \in 1 .. (k - 1) : TakenPid(Following(j))
          /\ pidCnt' = Following(k)
          /\ pid' = [pid EXCEPT ![call[c].obj] = Following(k)]
    /\ event' = [event EXCEPT ![call[c].obj] = TRUE]
    /\ Goes(c, "numbered")
    /\ UNCHANGED <<list, detached, status, exitBit, mtx, resVars>>

NoPidLeft(c) ==
    /\ pc[c] = "allocated"
    /\ mtx = Free
    /\ \A n \in Pid : TakenPid(n)
    /\ pidCnt' = Following(PidMax + 1)
    /\ list' = [list EXCEPT ![call[c].obj] = "freed"]
    /\ Goes(c, "user")
    /\ UNCHANGED <<pid, detached, status, flagVars, mtx, resVars>>

(* No memory for a container, or no object. *)
OutOfMemory(c) ==
    /\ InHandler(c, "create") \/ InHandler(c, "open")
    /\ Goes(c, "user")
    /\ UNCHANGED <<procVars, flagVars, mtx, resVars>>

(* Any allocation before the last critical section can fail.  The error    *)
(* path frees the container and not the event flag, which is lost unless   *)
(* it is the flag itself that could not be made.                           *)
CreateFail(c) ==
    /\ pc[c] \in {"allocated", "numbered"}
    /\ list' = [list EXCEPT ![call[c].obj] = "freed"]
    /\ \E made \in BOOLEAN :
          event' = [event EXCEPT ![call[c].obj] = @ /\ made]
    /\ Goes(c, "user")
    /\ UNCHANGED <<pid, pidCnt, detached, status, exitBit, mtx, resVars>>

CreateInsert(c) ==
    /\ pc[c] = "numbered"
    /\ mtx = Free
    /\ list' = [list EXCEPT ![call[c].obj] = "active"]
    /\ pc' = [pc EXCEPT ![c] = "user", ![<<call[c].obj, 0>>] = "user"]
    /\ call' = [call EXCEPT ![c] = NoCall]
    /\ UNCHANGED <<pid, pidCnt, detached, status, flagVars, mtx, resVars>>

-----------------------------------------------------------------------------
(* _process_kill. *)

KillUnlink(c) ==
    /\ InHandler(c, "kill")
    /\ mtx = Free
    /\ \E q \in WithPid(call[c].arg, "active") :
          /\ q # c[1]
          /\ list' = [list EXCEPT ![q] = "moving"]
          /\ exitBit' = SetExitBit(q, 0)
          /\ Moves(TasksOf(q), WaitersFor(q, 0), c, "moving")
          /\ ForgottenBy(TasksOf(q))
    /\ mtx' = c
    /\ UNCHANGED <<pid, pidCnt, detached, status, event>>

KillLinkMutant(c) ==
    /\ pc[c] = "moving"
    /\ list' = [q \in Proc |-> IF list[q] = "moving" THEN "active" ELSE list[q]]
    /\ mtx' = Free
    /\ Goes(c, "woken")
    /\ UNCHANGED <<pid, pidCnt, detached, status, flagVars, resVars>>

KillLink(c) ==
    /\ pc[c] = "moving"
    /\ list' = [q \in Proc |-> IF list[q] = "moving" THEN "destroy" ELSE list[q]]
    /\ mtx' = Free
    /\ Goes(c, "woken")
    /\ UNCHANGED <<pid, pidCnt, detached, status, flagVars, resVars>>

KillNotFoundMutant(c) ==
    /\ InHandler(c, "kill")
    /\ mtx = Free
    /\ mtx' = c
    /\ WithPid(call[c].arg, "active") = {}
    /\ Goes(c, "woken")
    /\ UNCHANGED <<procVars, flagVars, resVars>>

KillNotFound(c) ==
    /\ InHandler(c, "kill")
    /\ mtx = Free
    /\ WithPid(call[c].arg, "active") = {}
    /\ Goes(c, "woken")
    /\ UNCHANGED <<procVars, flagVars, mtx, resVars>>

(* A task that destroys the tasks of its own process in table order, from  *)
(* thread first on, gets no further than itself: vTaskDelete does not      *)
(* return.  process_mtx stays owned and the process stays listed.          *)
DeletesItself(c, first) ==
    LET gone == {d \in TasksOf(c[1]) : first <= d[2] /\ d[2] <= c[2]} IN
    /\ mtx = Free
    /\ mtx' = c
    /\ exitBit' = SetExitBit(c[1], 0)
    /\ Moves(gone, WaitersFor(c[1], 0) \ gone, c, "none")
    /\ ForgottenBy(gone)
    /\ UNCHANGED <<list, pid, pidCnt, detached, status, event>>

(* process_kill() of oneself; and closedir() and fclose() kill the program  *)
(* that passes them an object of another type.                             *)
KillSelf(c) ==
    /\ \/ /\ InHandler(c, "kill")
          /\ c[1] \in WithPid(call[c].arg, "active")
       \/ /\ InHandler(c, "close")
          /\ SelfEnd
          /\ \E r \in Res : rstate[r] = "listed" /\ rproc[r] = c[1]
    /\ DeletesItself(c, 0)

-----------------------------------------------------------------------------
(* _process_exit and _process_abort. *)

(* The status is set, and the terminal modes reset, before the mutex.      *)
Exit(c) ==
    /\ "exit" \in Calls[c[1]]
    /\ c[2] # 0 => SelfEnd
    /\ pc[c] = "user"
    /\ \E s \in Status : status' = [status EXCEPT ![c[1]] = s]
    /\ Goes(c, "ending")
    /\ UNCHANGED <<list, pid, pidCnt, detached, flagVars, mtx, resVars>>

ExitUnlink(c) ==
    /\ pc[c] = "ending"
    /\ c[2] = 0
    /\ mtx = Free
    /\ mtx' = c
    /\ list' = [list EXCEPT ![c[1]] = "moving"]
    /\ exitBit' = SetExitBit(c[1], 0)
    /\ Moves(ThreadsOf(c[1]), WaitersFor(c[1], 0), c, "leaving")
    /\ ForgottenBy(ThreadsOf(c[1]))
    /\ UNCHANGED <<pid, pidCnt, detached, status, event>>

ExitLink(c) ==
    /\ pc[c] = "leaving"
    /\ list' = [list EXCEPT ![c[1]] = "destroy"]
    /\ mtx' = Free
    /\ Goes(c, "exiting")
    /\ UNCHANGED <<pid, pidCnt, detached, status, flagVars, resVars>>

(* _task_exit. *)
TaskExit(c) ==
    /\ pc[c] = "exiting"
    /\ Goes(c, "none")
    /\ UNCHANGED <<procVars, flagVars, mtx, resVars>>

(* exit() in a thread: the loop from 1 on meets the calling thread. *)
ExitInThread(c) ==
    /\ pc[c] = "ending"
    /\ c[2] # 0
    /\ DeletesItself(c, 1)

-----------------------------------------------------------------------------
(* process_wait() and thread_join2(). *)

(* SYSCALL_PROCESSGETSYNCFLAG: the container, without process_mtx ... *)
SyncFind(c) ==
    /\ \/ /\ InHandler(c, "wait")
          /\ \E q \in Container(c, call[c].arg) : call' = [call EXCEPT ![c].obj = q]
       \/ /\ InHandler(c, "join")
          /\ call' = [call EXCEPT ![c].obj = c[1]]
    /\ pc' = [pc EXCEPT ![c] = "flagread"]
    /\ UNCHANGED <<procVars, flagVars, mtx, resVars>>

SyncNotFound(c) ==
    /\ InHandler(c, "wait")
    /\ Container(c, call[c].arg) = {}
    /\ Goes(c, "user")
    /\ UNCHANGED <<procVars, flagVars, mtx, resVars>>

(* ... and its event flag, under it. *)
SyncFlag(c) ==
    /\ pc[c] = "flagread"
    /\ mtx = Free
    /\ Goes(c, "flagwait")
    /\ UNCHANGED <<procVars, flagVars, mtx, resVars>>

(* flag_wait, called by the program outside the kernel. *)
FlagInvalid(c) ==
    /\ pc[c] = "flagwait"
    /\ ~ event[call[c].obj]
    /\ Goes(c, "user")
    /\ UNCHANGED <<procVars, flagVars, mtx, resVars>>

FlagTaken(c) ==
    /\ pc[c] = "flagwait"
    /\ event[call[c].obj]
    /\ AwaitedBit(c) \in exitBit[call[c].obj]
    /\ exitBit' = [exitBit EXCEPT ![call[c].obj] = @ \ {AwaitedBit(c)}]
    /\ Goes(c, Released(c))
    /\ UNCHANGED <<procVars, event, mtx, resVars>>

FlagBlock(c) ==
    /\ pc[c] = "flagwait"
    /\ event[call[c].obj]
    /\ AwaitedBit(c) \notin exitBit[call[c].obj]
    /\ Goes(c, "waiting")
    /\ UNCHANGED <<procVars, flagVars, mtx, resVars>>

(* xEventGroupWaitBits then returns the bits as they are, and _flag_wait   *)
(* makes ESUCC of any that is set.                                         *)
FlagTimeout(c) ==
    /\ Timeouts
    /\ pc[c] = "waiting"
    /\ Goes(c, IF exitBit[call[c].obj] # {} THEN Released(c) ELSE "user")
    /\ UNCHANGED <<procVars, flagVars, mtx, resVars>>

(* SYSCALL_PROCESSCLEANZOMBIE. *)
ReapFind(c) ==
    /\ InHandler(c, "reap")
    /\ \E q \in Container(c, call[c].arg) : call' = [call EXCEPT ![c].obj = q]
    /\ pc' = [pc EXCEPT ![c] = "removing"]
    /\ UNCHANGED <<procVars, flagVars, mtx, resVars>>

ReapNotFound(c) ==
    /\ InHandler(c, "reap")
    /\ Container(c, call[c].arg) = {}
    /\ Goes(c, "user")
    /\ UNCHANGED <<procVars, flagVars, mtx, resVars>>

(* _process_remove_zombie. *)
RemoveZombie(c) ==
    LET q == call[c].obj IN
    /\ pc[c] = "removing"
    /\ mtx = Free
    /\ list[q] = "zombie"
    /\ list' = [list EXCEPT ![q] = "freed"]
    /\ event' = [event EXCEPT ![q] = FALSE]
    /\ pc'   = [d \in Task |-> IF d = c \/ d \in WaitersOf(q) THEN "user" ELSE pc[d]]
    /\ call' = [d \in Task |-> IF d = c \/ d \in WaitersOf(q) THEN NoCall ELSE call[d]]
    /\ UNCHANGED <<pid, pidCnt, detached, status, exitBit, mtx, resVars>>

RemoveNothing(c) ==
    /\ pc[c] = "removing"
    /\ mtx = Free
    /\ list[call[c].obj] # "zombie"
    /\ Goes(c, "user")
    /\ UNCHANGED <<procVars, flagVars, mtx, resVars>>

-----------------------------------------------------------------------------
(* Threads. *)

ClearedBitMutant(q, i) == exitBit
ClearedBit(q, i)       == [exitBit EXCEPT ![q] = @ \ {i}]

(* _process_thread_create puts the task in the first free slot, and        *)
(* _task_create lets it run before it returns ...                          *)
ThreadCreate(c) ==
    /\ InHandler(c, "thread")
    /\ mtx = Free
    /\ mtx' = c
    /\ \E i \in Tid \ {0} :
          /\ pc[<<c[1], i>>] = "none"
          /\ \A j \in 1 .. (i - 1) : pc[<<c[1], j>>] # "none"
          /\ pc' = [pc EXCEPT ![c] = "starting", ![<<c[1], i>>] = "user"]
          /\ call' = [call EXCEPT ![c].arg = i]
    /\ UNCHANGED <<procVars, flagVars, resVars>>

(* ... and only then is the exit flag of the last thread of the slot       *)
(* cleared, still under the mutex, which a joiner does not take.           *)
ThreadClear(c) ==
    /\ pc[c] = "starting"
    /\ exitBit' = ClearedBit(c[1], call[c].arg)
    /\ mtx' = Free
    /\ Goes(c, "user")
    /\ UNCHANGED <<procVars, event, resVars>>

(* No slot is free, or no memory is. *)
ThreadFail(c) ==
    /\ InHandler(c, "thread")
    /\ mtx = Free
    /\ Goes(c, "user")
    /\ UNCHANGED <<procVars, flagVars, mtx, resVars>>

(* _process_thread_kill sets the flag whether or not the thread exists. *)
ThreadKill(c) ==
    LET i == call[c].arg
        t == <<c[1], i>> IN
    /\ InHandler(c, "cancel")
    /\ i \in Tid \ {0} /\ i # c[2]
    /\ mtx = Free
    /\ exitBit' = SetExitBit(c[1], i)
    /\ Moves({t}, WaitersFor(c[1], i) \ {t}, c, "user")
    /\ ForgottenBy({t})
    /\ UNCHANGED <<procVars, event, mtx>>

(* is_tid_in_range; thread_join2 takes the same number for a thread. *)
ThreadKillInvalid(c) ==
    /\ InHandler(c, "cancel")
    /\ call[c].arg \notin Tid \ {0}
    /\ Goes(c, "user")
    /\ UNCHANGED <<procVars, flagVars, mtx, resVars>>

(* A thread that cancels itself is deleted before it sets its exit flag.   *)
ThreadKillSelf(c) ==
    /\ InHandler(c, "cancel")
    /\ call[c].arg = c[2]
    /\ mtx = Free
    /\ mtx' = c
    /\ Goes(c, "none")
    /\ UNCHANGED <<procVars, flagVars, resVars>>

(* thread_code after the thread function returned.  The task deletes       *)
(* itself after the mutex; it touches no shared state in between.          *)
ThreadReturn(c) ==
    /\ pc[c] = "user"
    /\ c[2] # 0
    /\ mtx = Free
    /\ exitBit' = SetExitBit(c[1], c[2])
    /\ Moves({c}, WaitersFor(c[1], c[2]), c, "none")
    /\ UNCHANGED <<procVars, event, mtx, resVars>>

-----------------------------------------------------------------------------
(* Kernel objects a process owns. *)

ObjectCreate(c) ==
    /\ InHandler(c, "open")
    /\ \E r \in Res :
          /\ rstate[r] = "none"
          /\ rstate' = [rstate EXCEPT ![r] = "made"]
          /\ rproc' = [rproc EXCEPT ![r] = c[1]]
          /\ rtask' = [rtask EXCEPT ![r] = c]
    /\ Goes(c, "holding")
    /\ UNCHANGED <<procVars, flagVars, mtx>>

(* _process_register_resource. *)
Register(c) ==
    /\ pc[c] = "holding"
    /\ mtx = Free
    /\ \E r \in Res :
          /\ rtask[r] = c
          /\ rstate' = [rstate EXCEPT ![r] = "listed"]
          /\ rtask' = [rtask EXCEPT ![r] = Free]
    /\ Goes(c, "user")
    /\ UNCHANGED <<procVars, flagVars, mtx, rproc>>

(* _process_release_resource unlinks under the mutex ... *)
OnListOfMutant(r, p) == rstate[r] \in {"listed", "unlinked"} /\ rproc[r] = p
OnListOf(r, p)       == rstate[r] = "listed" /\ rproc[r] = p

Unlink(c) ==
    /\ InHandler(c, "close")
    /\ mtx = Free
    /\ \E r \in Res :
          /\ OnListOf(r, c[1])
          /\ rstate' = [rstate EXCEPT ![r] = "unlinked"]
          /\ rtask' = [rtask EXCEPT ![r] = c]
    /\ Goes(c, "unlinked")
    /\ UNCHANGED <<procVars, flagVars, mtx, rproc>>

(* ... an object another thread released first is not found ... *)
UnlinkNotFound(c) ==
    /\ InHandler(c, "close")
    /\ mtx = Free
    /\ \E r \in Res : Known(r, c[1]) /\ rstate[r] # "listed"
    /\ Goes(c, "user")
    /\ UNCHANGED <<procVars, flagVars, mtx, resVars>>

(* ... and destroys the object after it. *)
ObjectDestroy(c) ==
    /\ pc[c] = "unlinked"
    /\ \E r \in Res :
          /\ rtask[r] = c
          /\ rstate' = [rstate EXCEPT ![r] = "gone"]
          /\ rtask' = [rtask EXCEPT ![r] = Free]
    /\ Goes(c, "user")
    /\ UNCHANGED <<procVars, flagVars, mtx, rproc>>

-----------------------------------------------------------------------------
(* What a task does once it is inside a call ... *)
KernelStep(c) ==
    \/ ReapCall(c)
    \/ CleanDetached(c) \/ CleanToZombie(c) \/ LinkZombie(c) \/ CleanedUp(c)
    \/ CreateAlloc(c) \/ GetPid(c) \/ NoPidLeft(c) \/ CreateInsert(c) \/ CreateFail(c)
    \/ OutOfMemory(c)
    \/ KillUnlink(c) \/ KillLink(c) \/ KillNotFound(c) \/ KillSelf(c)
    \/ ExitUnlink(c) \/ ExitInThread(c) \/ ExitLink(c) \/ TaskExit(c)
    \/ SyncFind(c) \/ SyncNotFound(c) \/ SyncFlag(c)
    \/ FlagInvalid(c) \/ FlagTaken(c) \/ FlagBlock(c)
    \/ ReapFind(c) \/ ReapNotFound(c) \/ RemoveZombie(c) \/ RemoveNothing(c)
    \/ ThreadCreate(c) \/ ThreadClear(c) \/ ThreadFail(c) \/ ThreadKill(c) \/ ThreadKillSelf(c)
    \/ ThreadKillInvalid(c)
    \/ ObjectCreate(c) \/ Register(c) \/ Unlink(c) \/ UnlinkNotFound(c) \/ ObjectDestroy(c)

(* ... and what it decides itself, or time does. *)
ProgramStep(c) ==
    \/ PidCall(c) \/ ThreadCall(c) \/ PlainCall(c)
    \/ Exit(c) \/ ThreadReturn(c)
    \/ FlagTimeout(c)

Next == \E c \in Task : KernelStep(c) \/ ProgramStep(c)

Spec == Init /\ [][Next]_vars

(* A task inside the kernel is scheduled; one that asks for process_mtx    *)
(* again and again while it is free in between gets it.                    *)
FairSpec == Spec /\ \A c \in Task : SF_vars(pc[c] \notin {"user", "none", "waiting"} /\ KernelStep(c))
-----------------------------------------------------------------------------
(* Properties. *)

Ended == {"destroy", "zombie", "freed"}

(* A task of a process runs only while the process is on the active list.  *)
(* The exceptions are the main thread that is taking the process off it,   *)
(* and the same thread on its way from the mutex to vTaskDelete.           *)
RunsOnlyWhileActive ==
    \A c \in Task : \/ pc[c] = "none"
                    \/ list[c[1]] = "active"
                    \/ c[2] = 0 /\ pc[c] = "leaving" /\ list[c[1]] = "moving"
                    \/ c[2] = 0 /\ pc[c] = "exiting" /\ list[c[1]] \in Ended \union {"moving"}

(* A process on the zombie list, and a freed one, owns no kernel object:   *)
(* none was registered after process_destroy_all_resources went over the   *)
(* list.                                                                   *)
EndedOwnsNothing ==
    \A r \in Res : rstate[r] = "listed" =>
        list[rproc[r]] \in {"active", "moving", "destroy"}

(* An object is destroyed by one task only: while one is between unlinking *)
(* and destroying it, no other thread of the process has it too.           *)
DestroyedOnce ==
    \A c \in Task : pc[c] = "unlinked" =>
        \E r \in Res : rtask[r] = c /\ rstate[r] = "unlinked"

(* When process_wait has been woken and looks its process up again, the    *)
(* process is on the zombie list (or somebody else has already removed     *)
(* it): the clean-up at the entry of the second call saw it on the destroy *)
(* list.  process_wait then returns its status.                            *)
WokenWaiterFindsZombie ==
    \A c \in Task : InHandler(c, "reap") /\ call[c].obj \in Proc =>
        list[call[c].obj] \in {"zombie", "freed"}

(* A task runs before _process_thread_create has returned to its creator.  *)
BeingCreated(t) ==
    \E c \in TasksOf(t[1]) : pc[c] = "starting" /\ call[c].arg = t[2]

(* A thread that runs has a clear exit flag once it has been created:      *)
(* thread_join2 does not take the end of an earlier thread of that slot    *)
(* for the end of this one, whatever is joined, cancelled and created      *)
(* again meanwhile.  While it is being created the flag may still be the   *)
(* one the last thread left.                                               *)
RunningThreadNotJoined ==
    \A t \in Task : t[2] # 0 /\ pc[t] # "none" /\ ~ BeingCreated(t)
                      => t[2] \notin exitBit[t[1]]

(* process_mtx is owned by a task that is going to release it, and only    *)
(* its owner has a process off the lists, one at a time.                   *)
MovesUnderMutex ==
    /\ mtx # Free => pc[mtx] \in {"cleaning", "moving", "leaving", "starting"}
    /\ \A p, q \in Proc : list[p] = "moving" =>
           mtx # Free /\ (list[q] = "moving" => p = q)

(* A process moves along its life and never back, and once it has left the *)
(* active list the status its parent will read does not change.            *)
Stage(l) == CASE l = "unborn" -> 0 [] l = "creating" -> 1 [] l = "active" -> 2
              [] l = "moving" -> 3 [] l = "destroy" -> 3 [] l = "zombie" -> 4
              [] l = "freed" -> 5
LifeGoesOn ==
    [][\A q \in Proc : /\ Stage(list[q]) <= Stage(list'[q])
                       /\ list[q] \in Ended => status'[q] = status[q]]_vars

(* thread_join2() without a timeout returns when the thread has ended: the *)
(* bit it found, or was woken by, is not the one of an earlier thread of   *)
(* the slot, nor set while the thread runs on.  Only a call that returns   *)
(* while the slot is being used again can find a thread in it: the one     *)
(* under creation, which the creator cannot name yet.                      *)
JoinMeansEnded ==
    [][\A c \in Task :
          /\ pc[c] \in {"flagwait", "waiting"} /\ call[c].op = "join"
          /\ pc'[c] = "user" /\ ~ FlagTimeout(c)
          => \A t \in ThreadsOf(c[1]) :
                 t[2] = call[c].arg => pc'[t] = "none" \/ BeingCreated(t)]_vars

(* The table keeps what Lifecycle promises.  A process that is between two *)
(* lists has ended, a main thread in _process_exit has stopped once it has *)
(* taken the process off the active list, and an object somebody was       *)
(* working on is lost when nobody has it any more.                         *)
LifeOf(q) ==
    CASE list[q] \in {"unborn", "creating"} -> "absent"
      [] list[q] = "active"                 -> "running"
      [] list[q] \in {"moving", "destroy"}  -> "ended"
      [] list[q] = "zombie"                 -> "zombie"
      [] list[q] = "freed"                  -> "gone"
Runs(c)   == pc[c] \notin {"none", "leaving", "exiting"}
FateOf(r) ==
    CASE rstate[r] = "none"                       -> "new"
      [] rstate[r] = "listed"                     -> "owned"
      [] rstate[r] = "gone"                       -> "gone"
      [] rstate[r] \in {"made", "unlinked"} /\ rtask[r] = Free -> "lost"
      [] rstate[r] = "made"     /\ rtask[r] # Free -> "made"
      [] rstate[r] = "unlinked" /\ rtask[r] # Free -> "taken"

Promised == INSTANCE Lifecycle WITH
    life    <- [q \in Proc |-> LifeOf(q)],
    threads <- [q \in Proc |-> {i \in Tid : Runs(<<q, i>>)}],
    fate    <- [r \in Res |-> FateOf(r)],
    maker   <- rproc,
    holder  <- rtask,
    Nobody  <- Free

KeepsLifecycle == Promised!Spec

(* A PID names one process (thread.h: process_wait and process_kill find a *)
(* process by it).  get_pid looks at the active list only.                 *)
PidNamesOneProcess ==
    \A p, q \in Proc :
        /\ {list[p], list[q]} \subseteq {"active", "destroy", "zombie"}
        /\ pid[p] = pid[q]
        => p = q

(* exit() kills the program that executes it, process_kill() deletes the   *)
(* process: when a task has been deleted on the way, its program is off    *)
(* the active list.                                                        *)
EndTakesEffect ==
    mtx # Free /\ pc[mtx] = "none" => list[mtx[1]] # "active"

(* A task blocked in process_wait or thread_join2 on a process that has    *)
(* ended is released, when nobody kills the tasks that consume its flag.   *)
WaiterReleased ==
    \A c \in Task :
        (pc[c] = "waiting" /\ AwaitedBit(c) = 0 /\ list[call[c].obj] \in Ended)
            ~> pc[c] # "waiting"

(* A process that ended gives its objects back as soon as some task enters *)
(* the kernel: nothing else does it, and a woken task is about to.         *)
EndedIsCleaned ==
    \A q \in Proc :
        (list[q] = "destroy" /\ \E c \in Task : pc[c] \in {"woken", "cleaning"})
            ~> list[q] \in {"zombie", "freed"}
=============================================================================
