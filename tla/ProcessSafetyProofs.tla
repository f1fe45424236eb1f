------------------------- MODULE ProcessSafetyProofs -------------------------
(***************************************************************************)
(* More theorems about Process, for every value of the constants: a        *)
(* process goes along its life only forward, its threads are joined once,  *)
(* its objects go with it and are destroyed by one task, and a waiter that *)
(* was woken finds its zombie.  The table implements Lifecycle; a join     *)
(* returns for a thread that has ended; and a PID names one process until  *)
(* PID_cnt comes round.                                                    *)
(***************************************************************************)
EXTENDS ProcessProofs, FiniteSetTheorems

-----------------------------------------------------------------------------
(* The actions that leave the lists alone. *)
ListsStay(c) ==
    \/ QuietStep(c) \/ PidCall(c) \/ ThreadCall(c) \/ PlainCall(c) \/ ReapCall(c)
    \/ CleanedUp(c) \/ KillSelf(c) \/ ExitInThread(c) \/ ThreadKillSelf(c)
    \/ SyncFind(c) \/ ReapFind(c) \/ ThreadCreate(c) \/ ThreadClear(c) \/ ThreadKill(c)
    \/ ThreadReturn(c)

LEMMA ListsStayHolds ==
    ASSUME NEW c \in Task, ListsStay(c)
    PROVE  list' = list
<1>1. CASE QuietStep(c)
  BY <1>1 DEF QuietStep, procVars, resVars, KillNotFound, SyncNotFound, SyncFlag,
     FlagInvalid, FlagBlock, FlagTaken, FlagTimeout, ReapNotFound, RemoveNothing,
     ThreadFail, OutOfMemory, ThreadKillInvalid, ObjectCreate, Register, Unlink,
     UnlinkNotFound, ObjectDestroy, TaskExit, GetPid, Exit
<1>2. CASE PidCall(c) \/ ThreadCall(c) \/ PlainCall(c) \/ ReapCall(c)
  BY <1>2 DEF PidCall, ThreadCall, PlainCall, ReapCall, EnterKernel, procVars
<1>3. CASE \/ CleanedUp(c) \/ KillSelf(c) \/ ExitInThread(c) \/ ThreadKillSelf(c)
           \/ SyncFind(c) \/ ReapFind(c) \/ ThreadCreate(c) \/ ThreadClear(c)
           \/ ThreadKill(c) \/ ThreadReturn(c)
  BY <1>3 DEF CleanedUp, KillSelf, ExitInThread, DeletesItself, ThreadKillSelf, SyncFind,
     ReapFind, ThreadCreate, ThreadClear, ThreadKill, ThreadReturn, procVars
<1>4. QED
  BY <1>1, <1>2, <1>3 DEF ListsStay

(* How a step moves one process. *)
Passes(from, to) ==
    \/ from = "unborn"   /\ to = "creating"
    \/ from = "creating" /\ to \in {"active", "freed"}
    \/ from = "active"   /\ to = "moving"
    \/ from = "moving"   /\ to \in {"destroy", "zombie"}
    \/ from = "destroy"  /\ to \in {"moving", "freed"}
    \/ from = "zombie"   /\ to = "freed"

LEMMA ListStep ==
    ASSUME Inv, [Next]_vars, NEW q \in Proc, list'[q] # list[q]
    PROVE  Passes(list[q], list'[q])
<1>1. CASE UNCHANGED vars
  BY <1>1 DEF vars
<1>2. SUFFICES ASSUME NEW c \in Task, KernelStep(c) \/ ProgramStep(c)
               PROVE  Passes(list[q], list'[q])
  BY <1>1 DEF Next
<1>3. list \in [Proc -> List] /\ c[1] \in Proc
  BY TaskIsNotFree DEF Inv, TypeOK
<1>4. CASE ListsStay(c)
  BY <1>4, ListsStayHolds
<1>5. CASE CleanDetached(c)
  BY <1>3, <1>5 DEF CleanDetached, Passes
<1>6. CASE CleanToZombie(c)
  BY <1>3, <1>6 DEF CleanToZombie, Passes
<1>7. CASE LinkZombie(c)
  BY <1>3, <1>7 DEF LinkZombie, Passes
<1>8. CASE CreateAlloc(c)
  BY <1>3, <1>8 DEF CreateAlloc, Passes
<1>9. CASE NoPidLeft(c) \/ CreateFail(c) \/ CreateInsert(c)
  <2>1. pc[c] \in Creating
    BY <1>9 DEF NoPidLeft, CreateFail, CreateInsert, Creating
  <2>2. list[call[c].obj] = "creating"
    BY <2>1 DEF Inv, RunInv
  <2>3. QED
    BY <1>3, <1>9, <2>2 DEF NoPidLeft, CreateFail, CreateInsert, Passes
<1>10. CASE KillUnlink(c)
  BY <1>3, <1>10 DEF KillUnlink, WithPid, Passes
<1>11. CASE ExitUnlink(c)
  <2>1. list[c[1]] = "active"
    BY <1>11 DEF ExitUnlink, Inv, RunInv, RunsOnlyWhileActive
  <2>2. QED
    BY <1>3, <1>11, <2>1 DEF ExitUnlink, Passes
<1>12. CASE KillLink(c)
  BY <1>3, <1>12 DEF KillLink, Passes
<1>13. CASE ExitLink(c)
  <2>1. list[c[1]] = "moving"
    BY <1>13 DEF ExitLink, Inv, MutexInv
  <2>2. QED
    BY <1>3, <1>13, <2>1 DEF ExitLink, Passes
<1>14. CASE RemoveZombie(c)
  BY <1>3, <1>14 DEF RemoveZombie, Passes
<1>15. QED
  BY <1>2, <1>4, <1>5, <1>6, <1>7, <1>8, <1>9, <1>10, <1>11, <1>12, <1>13, <1>14
  DEF KernelStep, ProgramStep, ListsStay, QuietStep

-----------------------------------------------------------------------------
(* LifeGoesOn. *)

(* Only a program that calls exit() sets a status. *)
LEMMA StatusStep ==
    ASSUME NEW c \in Task, KernelStep(c) \/ ProgramStep(c), ~ Exit(c)
    PROVE  status' = status
<1>1. CASE QuietStep(c)
  BY <1>1 DEF QuietStep, procVars, resVars, KillNotFound, SyncNotFound, SyncFlag,
     FlagInvalid, FlagBlock, FlagTaken, FlagTimeout, ReapNotFound, RemoveNothing,
     ThreadFail, OutOfMemory, ThreadKillInvalid, ObjectCreate, Register, Unlink,
     UnlinkNotFound, ObjectDestroy, TaskExit, GetPid
<1>2. CASE PidCall(c) \/ ThreadCall(c) \/ PlainCall(c) \/ ReapCall(c)
  BY <1>2 DEF PidCall, ThreadCall, PlainCall, ReapCall, EnterKernel, procVars
<1>3. CASE \/ CleanedUp(c) \/ KillSelf(c) \/ ExitInThread(c) \/ ThreadKillSelf(c)
           \/ SyncFind(c) \/ ReapFind(c) \/ ThreadCreate(c) \/ ThreadClear(c)
           \/ ThreadKill(c) \/ ThreadReturn(c)
  BY <1>3 DEF CleanedUp, KillSelf, ExitInThread, DeletesItself, ThreadKillSelf, SyncFind,
     ReapFind, ThreadCreate, ThreadClear, ThreadKill, ThreadReturn, procVars
<1>4. CASE \/ CleanDetached(c) \/ CleanToZombie(c) \/ LinkZombie(c) \/ CreateAlloc(c)
           \/ NoPidLeft(c) \/ CreateFail(c) \/ CreateInsert(c) \/ KillUnlink(c)
           \/ KillLink(c) \/ ExitUnlink(c) \/ ExitLink(c) \/ RemoveZombie(c)
  BY <1>4 DEF CleanDetached, CleanToZombie, LinkZombie, CreateAlloc, NoPidLeft,
     CreateFail, CreateInsert, KillUnlink, KillLink, ExitUnlink, ExitLink, RemoveZombie
<1>5. QED
  BY <1>1, <1>2, <1>3, <1>4 DEF KernelStep, ProgramStep, QuietStep

LEMMA LifeStep ==
    ASSUME Inv, [Next]_vars, NEW q \in Proc
    PROVE  /\ Stage(list[q]) <= Stage(list'[q])
           /\ list[q] \in Ended => status'[q] = status[q]
<1>1. list[q] \in List
  BY DEF Inv, TypeOK
<1>2. Stage(list[q]) <= Stage(list'[q])
  <2>1. CASE list'[q] = list[q]
    BY <1>1, <2>1 DEF Stage, List
  <2>2. CASE Passes(list[q], list'[q])
    BY <2>2 DEF Stage, Passes
  <2>3. QED
    BY <2>1, <2>2, ListStep
<1>3. ASSUME list[q] \in Ended PROVE status'[q] = status[q]
  <2>1. CASE UNCHANGED vars
    BY <2>1 DEF vars
  <2>2. SUFFICES ASSUME NEW c \in Task, Exit(c) PROVE status'[q] = status[q]
    BY <2>1, StatusStep DEF Next
  <2>3. list[c[1]] = "active"
    BY <2>2 DEF Exit, Inv, RunInv, RunsOnlyWhileActive
  <2>4. QED
    BY <1>3, <2>2, <2>3, TaskIsNotFree DEF Exit, Ended, Inv, TypeOK
<1>4. QED
  BY <1>2, <1>3
-----------------------------------------------------------------------------
(* The exit bits of threads. *)

(* The actions that leave the exit bits alone. *)
BitsStay(c) ==
    \/ QuietStep(c) /\ ~ FlagTaken(c)
    \/ PidCall(c) \/ ThreadCall(c) \/ PlainCall(c) \/ ReapCall(c)
    \/ CleanDetached(c) \/ CleanToZombie(c) \/ LinkZombie(c) \/ CleanedUp(c)
    \/ CreateAlloc(c) \/ NoPidLeft(c) \/ CreateFail(c) \/ CreateInsert(c)
    \/ KillLink(c) \/ ExitLink(c) \/ SyncFind(c) \/ ReapFind(c) \/ RemoveZombie(c)
    \/ ThreadKillSelf(c) \/ ThreadCreate(c)

LEMMA BitsStayHolds ==
    ASSUME NEW c \in Task, BitsStay(c)
    PROVE  exitBit' = exitBit
<1>1. CASE QuietStep(c) /\ ~ FlagTaken(c)
  BY <1>1 DEF QuietStep, flagVars, KillNotFound, SyncNotFound, SyncFlag,
     FlagInvalid, FlagBlock, FlagTimeout, ReapNotFound, RemoveNothing,
     ThreadFail, OutOfMemory, ThreadKillInvalid, ObjectCreate, Register, Unlink,
     UnlinkNotFound, ObjectDestroy, TaskExit, GetPid, Exit
<1>2. CASE PidCall(c) \/ ThreadCall(c) \/ PlainCall(c) \/ ReapCall(c)
  BY <1>2 DEF PidCall, ThreadCall, PlainCall, ReapCall, EnterKernel, flagVars
<1>3. CASE \/ CleanDetached(c) \/ CleanToZombie(c) \/ LinkZombie(c) \/ CleanedUp(c)
           \/ CreateAlloc(c) \/ NoPidLeft(c) \/ CreateFail(c) \/ CreateInsert(c)
  BY <1>3 DEF CleanDetached, CleanToZombie, LinkZombie, CleanedUp, CreateAlloc, NoPidLeft,
     CreateFail, CreateInsert, flagVars
<1>4. CASE \/ KillLink(c) \/ ExitLink(c) \/ SyncFind(c) \/ ReapFind(c) \/ RemoveZombie(c)
           \/ ThreadKillSelf(c) \/ ThreadCreate(c)
  BY <1>4 DEF KillLink, ExitLink, SyncFind, ReapFind, RemoveZombie, ThreadKillSelf,
     ThreadCreate, flagVars
<1>5. QED
  BY <1>1, <1>2, <1>3, <1>4 DEF BitsStay

(* The bit of another thread, or of another process, stays as it is. *)
LEMMA OtherBit ==
    ASSUME Inv, NEW q \in Proc, NEW i \in Tid, exitBit' = SetExitBit(q, i),
           NEW p \in Proc, NEW j, j \in exitBit'[p]
    PROVE  j \in exitBit[p] \/ (j = i /\ p = q)
BY DEF SetExitBit, Inv, TypeOK

(* A step sets the exit bit of a thread only while it deletes the thread. *)
LEMMA ThreadBit ==
    ASSUME Inv, NEW c \in Task, KernelStep(c) \/ ProgramStep(c),
           NEW d \in Task, d[2] # 0, d[2] \notin exitBit[d[1]]
    PROVE  d[2] \notin exitBit'[d[1]] \/ pc'[d] = "none"
<1>1. /\ c[1] \in Proc /\ c[2] \in Tid /\ d[1] \in Proc /\ d[2] \in Tid /\ 0 \in Tid
      /\ c = <<c[1], c[2]>> /\ d = <<d[1], d[2]>>
  BY ThreadsAssumption DEF Task, Tid
<1>2. CASE BitsStay(c)
  BY <1>2, BitsStayHolds
<1>3. CASE FlagTaken(c)
  BY <1>3 DEF FlagTaken, Inv, TypeOK
<1>4. CASE KillUnlink(c) \/ ExitUnlink(c) \/ KillSelf(c) \/ ExitInThread(c)
  <2>1. \E q \in Proc : exitBit' = SetExitBit(q, 0)
    BY <1>1, <1>4 DEF KillUnlink, ExitUnlink, KillSelf, ExitInThread, DeletesItself, WithPid
  <2>2. QED
    BY <1>1, <2>1, OtherBit
<1>5. CASE ThreadClear(c)
  BY <1>1, <1>5 DEF ThreadClear, ClearedBit, Inv, TypeOK
<1>6. CASE ThreadKill(c)
  <2>1. call[c].arg \in Tid /\ exitBit' = SetExitBit(c[1], call[c].arg)
    BY <1>6 DEF ThreadKill
  <2>2. CASE d = <<c[1], call[c].arg>>
    BY <1>6, <2>2, MovesEach DEF ThreadKill
  <2>3. CASE d # <<c[1], call[c].arg>>
    BY <1>1, <2>1, <2>3, OtherBit
  <2>4. QED
    BY <2>2, <2>3
<1>7. CASE ThreadReturn(c)
  <2>1. exitBit' = SetExitBit(c[1], c[2])
    BY <1>7 DEF ThreadReturn
  <2>2. CASE d = c
    BY <1>7, <2>2, MovesEach DEF ThreadReturn
  <2>3. CASE d # c
    BY <1>1, <2>1, <2>3, OtherBit
  <2>4. QED
    BY <2>2, <2>3
<1>8. QED
  BY <1>2, <1>3, <1>4, <1>5, <1>6, <1>7 DEF KernelStep, ProgramStep, BitsStay, QuietStep

(* A task begins in two ways: as the main thread of a new process, and as  *)
(* a thread that is being created.                                         *)
LEMMA Begins ==
    ASSUME Inv, NEW c \in Task, KernelStep(c) \/ ProgramStep(c),
           NEW d \in Task, pc[d] = "none", pc'[d] # "none"
    PROVE  \/ CreateInsert(c) /\ d = <<call[c].obj, 0>>
           \/ ThreadCreate(c) /\ BeingCreated(d)'
<1>0. pc \in [Task -> PC] /\ exitBit \in [Proc -> SUBSET Tid] /\ d[1] \in Proc
  BY TaskIsNotFree DEF Inv, TypeOK
<1>1. ASSUME NEW gone, NEW woken, NEW at, Moves(gone, woken, c, at),
             woken \subseteq {e \in Task : pc[e] = "waiting"}, pc[c] # "none"
      PROVE  FALSE
  BY <1>1, MovesEach
<1>2. ASSUME NEW at, Goes(c, at), pc[c] # "none" PROVE FALSE
  <2>1. Moves({}, {}, c, at)
    BY <1>2 DEF Goes
  <2>2. QED
    BY <1>1, <1>2, <2>1
<1>3. CASE QuietStep(c)
  <2>1. PICK at : Moves({}, {}, c, at) /\ (at = "none" \/ pc[c] # "none")
    BY <1>3, QuietGoes DEF Goes
  <2>2. CASE at = "none"
    BY <2>1, <2>2, MovesEach
  <2>3. CASE pc[c] # "none"
    BY <1>1, <2>1, <2>3
  <2>4. QED
    BY <2>1, <2>2, <2>3
<1>4. CASE PidCall(c) \/ ThreadCall(c) \/ PlainCall(c) \/ ReapCall(c)
  <2>1. pc[c] \in {"user", "woken"} /\ \E new : EnterKernel(c, new)
    BY <1>4 DEF PidCall, ThreadCall, PlainCall, ReapCall
  <2>2. QED
    BY <1>0, <2>1 DEF EnterKernel
<1>5. CASE CleanDetached(c) \/ RemoveZombie(c)
  BY <1>5, WaitersWait DEF CleanDetached, RemoveZombie
<1>6. CASE CleanToZombie(c) \/ LinkZombie(c)
  BY <1>6 DEF CleanToZombie, LinkZombie
<1>7. CASE \/ CleanedUp(c) \/ NoPidLeft(c) \/ CreateFail(c) \/ KillLink(c) \/ ExitLink(c)
           \/ ThreadKillSelf(c) \/ ThreadClear(c)
  BY <1>2, <1>7 DEF CleanedUp, NoPidLeft, CreateFail, KillLink, ExitLink, ThreadKillSelf,
     ThreadClear, InHandler
<1>8. CASE CreateAlloc(c) \/ SyncFind(c) \/ ReapFind(c)
  BY <1>0, <1>8 DEF CreateAlloc, SyncFind, ReapFind, InHandler
<1>9. CASE \/ KillUnlink(c) \/ ExitUnlink(c) \/ KillSelf(c) \/ ExitInThread(c)
           \/ ThreadKill(c) \/ ThreadReturn(c)
  <2>1. pc[c] # "none"
    BY <1>9 DEF KillUnlink, ExitUnlink, KillSelf, ExitInThread, ThreadKill, ThreadReturn,
       InHandler
  <2>2. \E gone, woken, at : /\ Moves(gone, woken, c, at)
                             /\ woken \subseteq {e \in Task : pc[e] = "waiting"}
    BY <1>9, WaitersWait DEF KillUnlink, ExitUnlink, KillSelf, ExitInThread, DeletesItself,
       ThreadKill, ThreadReturn
  <2>3. QED
    BY <1>1, <2>1, <2>2
<1>10. CASE CreateInsert(c)
  BY <1>0, <1>10 DEF CreateInsert
<1>11. CASE ThreadCreate(c)
  <2>1. PICK i \in Tid : /\ pc' = [pc EXCEPT ![c] = "starting", ![<<c[1], i>>] = "user"]
                         /\ pc[<<c[1], i>>] = "none"
                         /\ call' = [call EXCEPT ![c].arg = i]
    BY <1>11 DEF ThreadCreate
  <2>2. pc[c] # "none"
    BY <1>11 DEF ThreadCreate, InHandler
  <2>3. d = <<c[1], i>>
    BY <1>0, <2>1, <2>2
  <2>4. c[1] = d[1] /\ i = d[2] /\ c # <<c[1], i>>
    BY <2>1, <2>2, <2>3
  <2>5. pc'[c] = "starting" /\ call'[c].arg = i
    BY <1>0, <2>1, <2>4 DEF Inv, TypeOK, Call
  <2>6. QED
    BY <1>11, <2>4, <2>5 DEF BeingCreated, TasksOf
<1>12. QED
  BY <1>3, <1>4, <1>5, <1>6, <1>7, <1>8, <1>9, <1>10, <1>11
  DEF KernelStep, ProgramStep, QuietStep
-----------------------------------------------------------------------------
(* Objects. *)

(* EndedOwnsNothing made inductive: a task works on objects of its own     *)
(* process, and a process that the clean-up is moving owns none.           *)
ObjectInv ==
    /\ \A r \in Res : rtask[r] # Free => rproc[r] = rtask[r][1]
    /\ \A r \in Res : rstate[r] = "listed" =>
           rproc[r] \in Proc /\ list[rproc[r]] \in {"active", "moving", "destroy"}
    /\ \A r \in Res, c \in Task : rstate[r] = "listed" /\ pc[c] = "cleaning" =>
           list[rproc[r]] # "moving"

(* The actions that leave the objects alone. *)
ObjectsStay(c) ==
    \/ KillNotFound(c) \/ SyncNotFound(c) \/ SyncFlag(c) \/ FlagInvalid(c)
    \/ FlagBlock(c) \/ FlagTaken(c) \/ FlagTimeout(c) \/ ReapNotFound(c)
    \/ RemoveNothing(c) \/ ThreadFail(c) \/ OutOfMemory(c) \/ ThreadKillInvalid(c)
    \/ UnlinkNotFound(c) \/ TaskExit(c) \/ GetPid(c) \/ Exit(c)
    \/ PidCall(c) \/ ThreadCall(c) \/ PlainCall(c) \/ ReapCall(c) \/ CleanedUp(c)
    \/ LinkZombie(c) \/ CreateAlloc(c) \/ NoPidLeft(c) \/ CreateFail(c) \/ CreateInsert(c)
    \/ KillLink(c) \/ ExitLink(c) \/ SyncFind(c) \/ ReapFind(c) \/ RemoveZombie(c)
    \/ ThreadCreate(c) \/ ThreadClear(c) \/ ThreadKillSelf(c) \/ ThreadReturn(c)

LEMMA ObjectsStayHolds ==
    ASSUME NEW c \in Task, ObjectsStay(c)
    PROVE  rstate' = rstate /\ rproc' = rproc /\ rtask' = rtask
<1>1. CASE \/ KillNotFound(c) \/ SyncNotFound(c) \/ SyncFlag(c) \/ FlagInvalid(c)
           \/ FlagBlock(c) \/ FlagTaken(c) \/ FlagTimeout(c) \/ ReapNotFound(c)
           \/ RemoveNothing(c) \/ ThreadFail(c) \/ OutOfMemory(c) \/ ThreadKillInvalid(c)
  BY <1>1 DEF KillNotFound, SyncNotFound, SyncFlag, FlagInvalid, FlagBlock, FlagTaken,
     FlagTimeout, ReapNotFound, RemoveNothing, ThreadFail, OutOfMemory,
     ThreadKillInvalid, resVars
<1>2. CASE \/ UnlinkNotFound(c) \/ TaskExit(c) \/ GetPid(c) \/ Exit(c)
           \/ PidCall(c) \/ ThreadCall(c) \/ PlainCall(c) \/ ReapCall(c) \/ CleanedUp(c)
  BY <1>2 DEF UnlinkNotFound, TaskExit, GetPid, Exit, PidCall, ThreadCall, PlainCall,
     ReapCall, EnterKernel, CleanedUp, resVars
<1>3. CASE \/ LinkZombie(c) \/ CreateAlloc(c) \/ NoPidLeft(c) \/ CreateFail(c)
           \/ CreateInsert(c) \/ KillLink(c) \/ ExitLink(c) \/ SyncFind(c) \/ ReapFind(c)
           \/ RemoveZombie(c) \/ ThreadCreate(c) \/ ThreadClear(c) \/ ThreadKillSelf(c)
           \/ ThreadReturn(c)
  BY <1>3 DEF LinkZombie, CreateAlloc, NoPidLeft, CreateFail, CreateInsert, KillLink,
     ExitLink, SyncFind, ReapFind, RemoveZombie, ThreadCreate, ThreadClear,
     ThreadKillSelf, ThreadReturn, resVars
<1>4. QED
  BY <1>1, <1>2, <1>3 DEF ObjectsStay

(* The actions that delete tasks, and take the objects they work on from   *)
(* them.                                                                   *)
Deletes(c) ==
    KillUnlink(c) \/ ExitUnlink(c) \/ KillSelf(c) \/ ExitInThread(c) \/ ThreadKill(c)

LEMMA DeletesObjects ==
    ASSUME NEW c \in Task, Deletes(c)
    PROVE  \E gone, woken, at :
              /\ Moves(gone, woken, c, at) /\ ForgottenBy(gone)
              /\ woken \subseteq {d \in Task : pc[d] = "waiting"}
              /\ at \in {"moving", "leaving", "none", "user"}
              /\ pc[c] \in {"handler", "ending"}
<1>1. CASE KillUnlink(c)
  BY <1>1, WaitersWait DEF KillUnlink, InHandler
<1>2. CASE ExitUnlink(c)
  BY <1>2, WaitersWait DEF ExitUnlink
<1>3. CASE KillSelf(c) \/ ExitInThread(c)
  BY <1>3, WaitersWait DEF KillSelf, ExitInThread, DeletesItself, InHandler
<1>4. CASE ThreadKill(c)
  BY <1>4, WaitersWait DEF ThreadKill, InHandler
<1>5. QED
  BY <1>1, <1>2, <1>3, <1>4 DEF Deletes

(* A task starts cleaning up with no process off the lists. *)
LEMMA StartsCleaning ==
    ASSUME Inv, NEW c \in Task, KernelStep(c) \/ ProgramStep(c),
           NEW d \in Task, pc'[d] = "cleaning"
    PROVE  \/ pc[d] = "cleaning"
           \/ \A q \in Proc : list'[q] # "moving"
<1>0. pc \in [Task -> PC]
  BY DEF Inv, TypeOK
<1>1. ASSUME NEW gone, NEW woken, NEW at, Moves(gone, woken, c, at), at # "cleaning"
      PROVE  pc[d] = "cleaning"
  BY <1>1, MovesEach, SMTT(30) DEF Released
<1>2. CASE QuietStep(c)
  <2>1. PICK at : Goes(c, at) /\ at \notin Critical
    BY <1>2, QuietGoes
  <2>2. QED
    BY <1>1, <2>1 DEF Goes, Critical
<1>3. CASE PidCall(c) \/ ThreadCall(c) \/ PlainCall(c) \/ ReapCall(c)
  <2>1. mtx = Free /\ list' = list
    BY <1>3 DEF PidCall, ThreadCall, PlainCall, ReapCall, EnterKernel, procVars
  <2>2. QED
    BY <2>1, FreeMutex DEF Inv
<1>4. CASE CleanDetached(c) \/ RemoveZombie(c)
  BY <1>4 DEF CleanDetached, RemoveZombie
<1>5. CASE CleanToZombie(c) \/ LinkZombie(c)
  BY <1>5 DEF CleanToZombie, LinkZombie
<1>6. CASE \/ CleanedUp(c) \/ NoPidLeft(c) \/ CreateFail(c) \/ KillLink(c) \/ ExitLink(c)
           \/ ThreadKillSelf(c) \/ ThreadClear(c)
  BY <1>1, <1>6 DEF CleanedUp, NoPidLeft, CreateFail, KillLink, ExitLink, ThreadKillSelf,
     ThreadClear, Goes
<1>7. CASE CreateAlloc(c) \/ SyncFind(c) \/ ReapFind(c)
  BY <1>0, <1>7 DEF CreateAlloc, SyncFind, ReapFind
<1>8. CASE Deletes(c) \/ ThreadReturn(c)
  <2>1. \E gone, woken, at : Moves(gone, woken, c, at) /\ at # "cleaning"
    BY <1>8, DeletesObjects DEF ThreadReturn
  <2>2. QED
    BY <1>1, <2>1
<1>9. CASE CreateInsert(c) \/ ThreadCreate(c)
  BY <1>0, <1>9 DEF CreateInsert, ThreadCreate
<1>10. QED
  BY <1>2, <1>3, <1>4, <1>5, <1>6, <1>7, <1>8, <1>9
  DEF KernelStep, ProgramStep, QuietStep, Deletes

(* What a step does to an object: it is listed only by a task of its       *)
(* process that has made it, and it is unlinked or destroyed only when it  *)
(* is listed, or by the task that has it.                                  *)
LEMMA ObjectStep ==
    ASSUME Inv, ObjectInv, NEW c \in Task, KernelStep(c) \/ ProgramStep(c), NEW r \in Res
    PROVE  /\ rtask'[r] # Free => rproc'[r] = rtask'[r][1]
           /\ rstate'[r] = "listed" =>
                \/ rstate[r] = "listed" /\ rproc'[r] = rproc[r]
                \/ Register(c) /\ rproc'[r] = c[1] /\ list[c[1]] = "active"
<1>0. /\ rstate \in [Res -> ResState] /\ rproc \in [Res -> Proc \union {NoProc}]
      /\ rtask \in [Res -> Task \union {Free}] /\ c # Free
  BY TaskIsNotFree DEF Inv, TypeOK
<1>1. rtask[r] # Free => rproc[r] = rtask[r][1]
  BY DEF ObjectInv
<1>2. CASE ObjectsStay(c)
  BY <1>1, <1>2, ObjectsStayHolds
<1>3. CASE Deletes(c)
  <2>1. PICK gone : ForgottenBy(gone)
    BY <1>3, DeletesObjects
  <2>2. QED
    BY <1>1, <2>1 DEF ForgottenBy
<1>4. CASE CleanDetached(c) \/ CleanToZombie(c)
  BY <1>1, <1>4 DEF CleanDetached, CleanToZombie, DestroyResources
<1>5. CASE ObjectCreate(c)
  BY <1>0, <1>1, <1>5 DEF ObjectCreate
<1>6. CASE Register(c)
  <2>1. PICK s \in Res : /\ rtask[s] = c
                         /\ rstate' = [rstate EXCEPT ![s] = "listed"]
                         /\ rtask' = [rtask EXCEPT ![s] = Free]
                         /\ rproc' = rproc
    BY <1>6 DEF Register
  <2>2. rproc[s] = c[1]
    BY <1>0, <2>1 DEF ObjectInv
  <2>3. list[c[1]] = "active"
    BY <1>6 DEF Register, Inv, RunInv, RunsOnlyWhileActive
  <2>4. QED
    BY <1>0, <1>1, <1>6, <2>1, <2>2, <2>3
<1>7. CASE Unlink(c)
  BY <1>0, <1>1, <1>7 DEF Unlink, OnListOf
<1>8. CASE ObjectDestroy(c)
  BY <1>0, <1>1, <1>8 DEF ObjectDestroy
<1>9. QED
  BY <1>2, <1>3, <1>4, <1>5, <1>6, <1>7, <1>8
  DEF KernelStep, ProgramStep, ObjectsStay, Deletes

(* Only the clean-up takes a process off the destroy list, and only the    *)
(* two halves of process_move_list take one to where it is on no list, and *)
(* back.                                                                   *)
LEMMA WhoMoves ==
    ASSUME Inv, NEW c \in Task, KernelStep(c) \/ ProgramStep(c), NEW q \in Proc,
           list'[q] # list[q], ~ (CleanDetached(c) \/ CleanToZombie(c) \/ LinkZombie(c))
    PROVE  /\ list[q] # "destroy"
           /\ list[q] = "moving"  => list'[q] = "destroy"
           /\ list'[q] = "moving" => KillUnlink(c) \/ ExitUnlink(c)
<1>3. list \in [Proc -> List] /\ c[1] \in Proc
  BY TaskIsNotFree DEF Inv, TypeOK
<1>4. CASE ListsStay(c)
  BY <1>4, ListsStayHolds
<1>5. CASE CreateAlloc(c)
  BY <1>3, <1>5 DEF CreateAlloc
<1>6. CASE NoPidLeft(c) \/ CreateFail(c) \/ CreateInsert(c)
  <2>1. pc[c] \in Creating
    BY <1>6 DEF NoPidLeft, CreateFail, CreateInsert, Creating
  <2>2. list[call[c].obj] = "creating"
    BY <2>1 DEF Inv, RunInv
  <2>3. QED
    BY <1>3, <1>6, <2>2 DEF NoPidLeft, CreateFail, CreateInsert
<1>7. CASE KillUnlink(c)
  BY <1>3, <1>7 DEF KillUnlink, WithPid
<1>8. CASE ExitUnlink(c)
  <2>1. list[c[1]] = "active"
    BY <1>8 DEF ExitUnlink, Inv, RunInv, RunsOnlyWhileActive
  <2>2. QED
    BY <1>3, <1>8, <2>1 DEF ExitUnlink
<1>9. CASE KillLink(c)
  BY <1>3, <1>9 DEF KillLink
<1>10. CASE ExitLink(c)
  <2>1. list[c[1]] = "moving"
    BY <1>10 DEF ExitLink, Inv, MutexInv
  <2>2. QED
    BY <1>3, <1>10, <2>1 DEF ExitLink
<1>11. CASE RemoveZombie(c)
  BY <1>3, <1>11 DEF RemoveZombie
<1>12. QED
  BY <1>4, <1>5, <1>6, <1>7, <1>8, <1>9, <1>10, <1>11
  DEF KernelStep, ProgramStep, ListsStay, QuietStep

LEMMA ObjectInvStep ==
    ASSUME Inv, ObjectInv, [Next]_vars
    PROVE  ObjectInv'
<1>1. CASE UNCHANGED vars
  BY <1>1 DEF vars, ObjectInv
<1>2. SUFFICES ASSUME NEW c \in Task, KernelStep(c) \/ ProgramStep(c)
               PROVE  ObjectInv'
  BY <1>1 DEF Next
<1>3. (\A r \in Res : rtask[r] # Free => rproc[r] = rtask[r][1])'
  BY <1>2, ObjectStep
<1>4. ASSUME NEW r \in Res, rstate'[r] = "listed"
      PROVE  /\ rproc'[r] \in Proc
             /\ list'[rproc'[r]] \in {"active", "moving", "destroy"}
             /\ \A d \in Task : pc'[d] = "cleaning" => list'[rproc'[r]] # "moving"
  <2>1. CASE Register(c) /\ rproc'[r] = c[1] /\ list[c[1]] = "active"
    <3>1. list' = list
      BY <2>1 DEF Register, procVars
    <3>2. QED
      BY <2>1, <3>1, TaskIsNotFree
  <2>2. CASE rstate[r] = "listed" /\ rproc'[r] = rproc[r]
    <3> DEFINE q == rproc[r]
    <3>1. /\ q \in Proc /\ list[q] \in {"active", "moving", "destroy"}
          /\ \A d \in Task : pc[d] = "cleaning" => list[q] # "moving"
      BY <2>2 DEF ObjectInv
    <3>2. CASE CleanDetached(c) \/ CleanToZombie(c)
      <4>1. PICK p \in Proc : /\ list[p] = "destroy"
                              /\ \E l : list' = [list EXCEPT ![p] = l]
                              /\ DestroyResources(p)
        BY <3>2 DEF CleanDetached, CleanToZombie
      <4>2. p # q
        BY <1>4, <2>2, <4>1 DEF DestroyResources
      <4>3. list'[q] = list[q] /\ list[q] # "moving"
        BY <3>1, <3>2, <4>1, <4>2 DEF CleanDetached, CleanToZombie
      <4>4. QED
        BY <2>2, <3>1, <4>3
    <3>3. CASE LinkZombie(c)
      <4>1. list'[q] = list[q] /\ list[q] # "moving"
        BY <3>1, <3>3 DEF LinkZombie, Inv, TypeOK
      <4>2. QED
        BY <2>2, <3>1, <4>1
    <3>4. CASE ~ (CleanDetached(c) \/ CleanToZombie(c) \/ LinkZombie(c))
      <4>1. list'[q] \in {"active", "moving", "destroy"}
        <5>1. CASE list'[q] = list[q]
          BY <3>1, <5>1
        <5>2. CASE list'[q] # list[q]
          <6>1. Passes(list[q], list'[q])
            BY <1>2, <3>1, <5>2, ListStep DEF Next
          <6>2. CASE list[q] = "active"
            BY <6>1, <6>2 DEF Passes
          <6>3. CASE list[q] = "moving"
            BY <1>2, <3>1, <3>4, <5>2, <6>3, WhoMoves
          <6>4. CASE list[q] = "destroy"
            BY <1>2, <3>1, <3>4, <5>2, <6>4, WhoMoves
          <6>5. QED
            BY <3>1, <6>2, <6>3, <6>4
        <5>3. QED
          BY <5>1, <5>2
      <4>2. ASSUME NEW d \in Task, pc'[d] = "cleaning" PROVE list'[q] # "moving"
        <5>1. CASE \A p \in Proc : list'[p] # "moving"
          BY <3>1, <5>1
        <5>2. CASE pc[d] = "cleaning"
          <6>1. list[q] # "moving"
            BY <3>1, <5>2
          <6>2. mtx = d /\ d # Free
            BY <5>2, TaskIsNotFree DEF Inv, MutexInv, Critical
          <6>3. ~ (KillUnlink(c) \/ ExitUnlink(c))
            BY <6>2 DEF KillUnlink, ExitUnlink
          <6>4. QED
            BY <1>2, <3>1, <3>4, <6>1, <6>3, WhoMoves
        <5>3. QED
          BY <1>2, <4>2, <5>1, <5>2, StartsCleaning
      <4>3. QED
        BY <2>2, <3>1, <4>1, <4>2
    <3>5. QED
      BY <3>2, <3>3, <3>4
  <2>3. QED
    BY <1>2, <1>4, <2>1, <2>2, ObjectStep
<1>5. QED
  BY <1>3, <1>4 DEF ObjectInv
-----------------------------------------------------------------------------
(* DestroyedOnce. *)

(* The actions that only send their task somewhere, Unlink apart. *)
LEMMA GoesElsewhere ==
    ASSUME NEW c \in Task, QuietStep(c), ~ Unlink(c)
    PROVE  \E at : Goes(c, at) /\ at # "unlinked"
<1>1. CASE \/ KillNotFound(c) \/ SyncNotFound(c) \/ SyncFlag(c) \/ FlagInvalid(c)
           \/ FlagBlock(c) \/ FlagTaken(c) \/ FlagTimeout(c) \/ ReapNotFound(c)
  BY <1>1 DEF KillNotFound, SyncNotFound, SyncFlag, FlagInvalid, FlagBlock, FlagTaken,
     FlagTimeout, ReapNotFound, Released
<1>2. CASE \/ RemoveNothing(c) \/ ThreadFail(c) \/ OutOfMemory(c) \/ ThreadKillInvalid(c)
           \/ ObjectCreate(c) \/ Register(c) \/ UnlinkNotFound(c)
           \/ ObjectDestroy(c) \/ TaskExit(c) \/ GetPid(c) \/ Exit(c)
  BY <1>2 DEF RemoveNothing, ThreadFail, OutOfMemory, ThreadKillInvalid, ObjectCreate,
     Register, UnlinkNotFound, ObjectDestroy, TaskExit, GetPid, Exit
<1>3. QED
  BY <1>1, <1>2 DEF QuietStep

LEMMA HasUnlinked ==
    ASSUME Inv, NEW c \in Task, KernelStep(c) \/ ProgramStep(c),
           NEW d \in Task, pc'[d] = "unlinked"
    PROVE  pc[d] = "unlinked" \/ (Unlink(c) /\ d = c)
<1>0. pc \in [Task -> PC]
  BY DEF Inv, TypeOK
<1>1. ASSUME NEW gone, NEW woken, NEW at, Moves(gone, woken, c, at), at # "unlinked"
      PROVE  pc[d] = "unlinked"
  <2>1. pc'[d] \in {"none", at, "user", "woken", pc[d]}
    <3>1. CASE d \in gone
      BY <1>1, <3>1, MovesEach
    <3>2. CASE d \notin gone /\ d = c
      BY <1>1, <3>2, MovesEach
    <3>3. CASE d \notin gone /\ d # c /\ d \in woken
      BY <1>1, <3>3, MovesEach
    <3>4. CASE d \notin gone /\ d # c /\ d \notin woken
      BY <1>1, <3>4, MovesEach
    <3>5. QED
      BY <3>1, <3>2, <3>3, <3>4
  <2>2. QED
    BY <1>1, <2>1
<1>2. CASE QuietStep(c) /\ ~ Unlink(c)
  BY <1>1, <1>2, GoesElsewhere DEF Goes
<1>3. CASE PidCall(c) \/ ThreadCall(c) \/ PlainCall(c) \/ ReapCall(c)
  BY <1>0, <1>3 DEF PidCall, ThreadCall, PlainCall, ReapCall, EnterKernel
<1>4. CASE CleanDetached(c) \/ RemoveZombie(c)
  BY <1>4 DEF CleanDetached, RemoveZombie
<1>5. CASE CleanToZombie(c) \/ LinkZombie(c)
  BY <1>5 DEF CleanToZombie, LinkZombie
<1>6. CASE \/ CleanedUp(c) \/ NoPidLeft(c) \/ CreateFail(c) \/ KillLink(c) \/ ExitLink(c)
           \/ ThreadKillSelf(c) \/ ThreadClear(c)
  BY <1>1, <1>6 DEF CleanedUp, NoPidLeft, CreateFail, KillLink, ExitLink, ThreadKillSelf,
     ThreadClear, Goes
<1>7. CASE CreateAlloc(c) \/ SyncFind(c) \/ ReapFind(c)
  BY <1>0, <1>7 DEF CreateAlloc, SyncFind, ReapFind
<1>8. CASE Deletes(c) \/ ThreadReturn(c)
  <2>1. \E gone, woken, at : Moves(gone, woken, c, at) /\ at # "unlinked"
    BY <1>8, DeletesObjects DEF ThreadReturn
  <2>2. QED
    BY <1>1, <2>1
<1>9. CASE CreateInsert(c) \/ ThreadCreate(c)
  BY <1>0, <1>9 DEF CreateInsert, ThreadCreate
<1>10. CASE Unlink(c)
  <2>1. Moves({}, {}, c, "unlinked")
    BY <1>10 DEF Unlink, Goes
  <2>2. d # c => pc'[d] = pc[d]
    BY <2>1, MovesEach
  <2>3. QED
    BY <1>10, <2>2
<1>11. QED
  BY <1>2, <1>3, <1>4, <1>5, <1>6, <1>7, <1>8, <1>9, <1>10
  DEF KernelStep, ProgramStep, QuietStep, Deletes

(* The object a task has unlinked stays its own until it destroys it. *)
LEMMA UnlinkedStays ==
    ASSUME Inv, NEW c \in Task, KernelStep(c) \/ ProgramStep(c),
           NEW d \in Task, pc[d] = "unlinked", pc'[d] = "unlinked",
           NEW r \in Res, rtask[r] = d, rstate[r] = "unlinked"
    PROVE  rtask'[r] = d /\ rstate'[r] = "unlinked"
<1>0. /\ rstate \in [Res -> ResState] /\ rtask \in [Res -> Task \union {Free}]
  BY DEF Inv, TypeOK
<1>1. CASE ObjectsStay(c)
  BY <1>1, ObjectsStayHolds
<1>2. CASE Deletes(c)
  <2>1. PICK gone, woken, at : Moves(gone, woken, c, at) /\ ForgottenBy(gone)
    BY <1>2, DeletesObjects
  <2>2. d \notin gone
    BY <2>1, MovesEach
  <2>3. QED
    BY <2>1, <2>2 DEF ForgottenBy
<1>3. CASE CleanDetached(c) \/ CleanToZombie(c)
  BY <1>3 DEF CleanDetached, CleanToZombie, DestroyResources
<1>4. CASE ObjectCreate(c)
  BY <1>0, <1>4 DEF ObjectCreate
<1>5. CASE Register(c)
  BY <1>0, <1>5 DEF Register
<1>6. CASE Unlink(c)
  BY <1>0, <1>6 DEF Unlink, OnListOf
<1>7. CASE ObjectDestroy(c)
  <2>1. Goes(c, "user")
    BY <1>7 DEF ObjectDestroy
  <2>2. d # c
    BY <2>1, MovesEach DEF Goes
  <2>3. QED
    BY <1>0, <1>7, <2>2 DEF ObjectDestroy
<1>8. QED
  BY <1>1, <1>2, <1>3, <1>4, <1>5, <1>6, <1>7
  DEF KernelStep, ProgramStep, ObjectsStay, Deletes

LEMMA DestroyedStep ==
    ASSUME Inv, DestroyedOnce, [Next]_vars
    PROVE  DestroyedOnce'
<1>1. CASE UNCHANGED vars
  BY <1>1 DEF vars, DestroyedOnce
<1>2. SUFFICES ASSUME NEW c \in Task, KernelStep(c) \/ ProgramStep(c),
                      NEW d \in Task, pc'[d] = "unlinked"
               PROVE  \E r \in Res : rtask'[r] = d /\ rstate'[r] = "unlinked"
  BY <1>1 DEF Next, DestroyedOnce
<1>3. CASE Unlink(c) /\ d = c
  BY <1>3 DEF Unlink, Inv, TypeOK
<1>4. CASE pc[d] = "unlinked"
  <2>1. PICK r \in Res : rtask[r] = d /\ rstate[r] = "unlinked"
    BY <1>4 DEF DestroyedOnce
  <2>2. QED
    BY <1>2, <1>4, <2>1, UnlinkedStays
<1>5. QED
  BY <1>2, <1>3, <1>4, HasUnlinked
-----------------------------------------------------------------------------
(* WokenWaiterFindsZombie, when no wait times out. *)

(* A task ended itself and left process_mtx owned: no process is on its    *)
(* way any more, and no call starts.                                       *)
Stuck == mtx # Free /\ pc[mtx] = "none"
Left  == {"moving", "destroy", "zombie", "freed"}
Leaves(q) == list[q] \in Left \/ Stuck

(* A waiter is woken when its process leaves the active list, and cannot   *)
(* call again before the process is on the destroy list.                   *)
Wakes(d) ==
    /\ pc[d] = "woken" /\ call[d].obj \in Proc => Leaves(call[d].obj)
    /\ pc[d] = "cleaning" /\ call[d].op = "reap" /\ call[d].obj \in Proc =>
           list[call[d].obj] \in Left
    /\ InHandler(d, "reap") /\ call[d].obj \in Proc =>
           list[call[d].obj] \in {"zombie", "freed"}
    /\ call[d].op = "kill" => call[d].obj \notin Proc
    /\ pc[d] = "moving" => call[d].op = "kill"

WaitInv ==
    /\ \A q \in Proc : 0 \in exitBit[q] => Leaves(q)
    /\ \A d \in Task : Wakes(d)

LEMMA LeftStays ==
    ASSUME Inv, [Next]_vars, NEW q \in Proc
    PROVE  /\ list[q] \in Left => list'[q] \in Left
           /\ list[q] \in {"zombie", "freed"} => list'[q] \in {"zombie", "freed"}
<1>1. CASE list'[q] = list[q]
  BY <1>1
<1>2. CASE Passes(list[q], list'[q])
  BY <1>2 DEF Passes, Left
<1>3. QED
  BY <1>1, <1>2, ListStep

(* A step that changes the mutex takes it when it is free, or is its       *)
(* owner's.                                                                *)
LEMMA MutexChanges ==
    ASSUME Inv, NEW c \in Task, KernelStep(c) \/ ProgramStep(c), mtx' # mtx
    PROVE  mtx = Free \/ (mtx = c /\ pc[c] # "none")
<1>1. CASE QuietStep(c)
  BY <1>1 DEF QuietStep, procVars, resVars, KillNotFound, SyncNotFound, SyncFlag,
     FlagInvalid, FlagBlock, FlagTaken, FlagTimeout, ReapNotFound, RemoveNothing,
     ThreadFail, OutOfMemory, ThreadKillInvalid, ObjectCreate, Register, Unlink,
     UnlinkNotFound, ObjectDestroy, TaskExit, GetPid, Exit
<1>2. CASE PidCall(c) \/ ThreadCall(c) \/ PlainCall(c) \/ ReapCall(c)
  BY <1>2 DEF PidCall, ThreadCall, PlainCall, ReapCall, EnterKernel
<1>3. CASE CleanedUp(c) \/ KillLink(c) \/ ExitLink(c) \/ ThreadClear(c)
  BY <1>3 DEF CleanedUp, KillLink, ExitLink, ThreadClear, Inv, MutexInv, Critical
<1>4. CASE \/ KillSelf(c) \/ ExitInThread(c) \/ ThreadKillSelf(c) \/ SyncFind(c)
           \/ ReapFind(c) \/ ThreadCreate(c) \/ ThreadKill(c) \/ ThreadReturn(c)
  BY <1>4 DEF KillSelf, ExitInThread, DeletesItself, ThreadKillSelf, SyncFind,
     ReapFind, ThreadCreate, ThreadKill, ThreadReturn
<1>5. CASE \/ CleanDetached(c) \/ CleanToZombie(c) \/ LinkZombie(c) \/ CreateAlloc(c)
           \/ NoPidLeft(c) \/ CreateFail(c) \/ CreateInsert(c) \/ KillUnlink(c)
           \/ ExitUnlink(c) \/ RemoveZombie(c)
  BY <1>5 DEF CleanDetached, CleanToZombie, LinkZombie, CreateAlloc, NoPidLeft,
     CreateFail, CreateInsert, KillUnlink, ExitUnlink, RemoveZombie
<1>6. QED
  BY <1>1, <1>2, <1>3, <1>4, <1>5 DEF KernelStep, ProgramStep, QuietStep

LEMMA StuckStays ==
    ASSUME Inv, [Next]_vars, Stuck
    PROVE  Stuck'
<1>1. CASE UNCHANGED vars
  BY <1>1 DEF vars, Stuck
<1>2. SUFFICES ASSUME NEW c \in Task, KernelStep(c) \/ ProgramStep(c) PROVE Stuck'
  BY <1>1 DEF Next
<1>3. mtx \in Task /\ mtx # Free /\ pc[mtx] = "none"
  BY DEF Stuck, Inv, TypeOK
<1>4. mtx' = mtx
  BY <1>2, <1>3, MutexChanges
<1>5. pc'[mtx] = "none"
  <2>1. SUFFICES ASSUME pc'[mtx] # "none" PROVE FALSE
    OBVIOUS
  <2>2. CreateInsert(c) \/ ThreadCreate(c)
    BY <1>2, <1>3, <2>1, Begins
  <2>3. QED
    BY <1>3, <2>2 DEF CreateInsert, ThreadCreate
<1>6. QED
  BY <1>3, <1>4, <1>5 DEF Stuck

LEMMA LeavesStays ==
    ASSUME Inv, [Next]_vars, NEW q \in Proc, Leaves(q)
    PROVE  Leaves(q)'
BY LeftStays, StuckStays DEF Leaves

(* A task whose place does not change, or is none of the four, and whose   *)
(* call stays or ends.                                                     *)
LEMMA WakesStays ==
    ASSUME Inv, [Next]_vars, NEW d \in Task, Wakes(d),
           call'[d] \in {call[d], NoCall},
           \/ pc'[d] = pc[d] /\ call'[d] = call[d]
           \/ pc'[d] \notin {"woken", "cleaning", "handler", "moving"}
    PROVE  Wakes(d)'
<1>1. NoCall.op # "kill"
  BY DEF NoCall
<1>2. CASE pc'[d] = pc[d] /\ call'[d] = call[d]
  <2>1. ASSUME call[d].obj \in Proc
        PROVE  /\ Leaves(call[d].obj) => list'[call[d].obj] \in Left \/ Stuck'
               /\ list[call[d].obj] \in Left => list'[call[d].obj] \in Left
               /\ list[call[d].obj] \in {"zombie", "freed"} =>
                      list'[call[d].obj] \in {"zombie", "freed"}
    BY <2>1, LeftStays, StuckStays DEF Leaves
  <2>2. QED
    BY <1>2, <2>1 DEF Wakes, Leaves, InHandler
<1>3. CASE pc'[d] \notin {"woken", "cleaning", "handler", "moving"}
  BY <1>1, <1>3 DEF Wakes, InHandler
<1>4. QED
  BY <1>2, <1>3

Stops == {"woken", "cleaning", "handler", "moving"}

LEMMA WakesMoves ==
    ASSUME Inv, [Next]_vars, NEW gone, NEW woken, NEW c \in Task, NEW at,
           Moves(gone, woken, c, at), NEW d \in Task, Wakes(d),
           d \in gone \/ d \notin woken, d = c => at \notin Stops
    PROVE  Wakes(d)'
<1>1. call'[d] \in {call[d], NoCall}
  BY MovesCall
<1>2. CASE d \in gone
  <2>1. pc'[d] = "none"
    BY <1>2, MovesEach
  <2>2. QED
    BY <1>1, <2>1, WakesStays
<1>3. CASE d \notin gone /\ d = c
  <2>1. pc'[d] = at
    BY <1>3, MovesEach
  <2>2. QED
    BY <1>1, <1>3, <2>1, WakesStays DEF Stops
<1>4. CASE d \notin gone /\ d # c
  <2>1. pc'[d] = pc[d] /\ call'[d] = call[d]
    BY <1>4, MovesEach
  <2>2. QED
    BY <1>1, <2>1, WakesStays
<1>5. QED
  BY <1>2, <1>3, <1>4

LEMMA WakesGoes ==
    ASSUME Inv, [Next]_vars, NEW c \in Task, NEW at, Goes(c, at), NEW d \in Task,
           Wakes(d), d = c => at \notin Stops
    PROVE  Wakes(d)'
<1>1. Moves({}, {}, c, at)
  BY DEF Goes
<1>2. QED
  BY <1>1, WakesMoves

(* A woken task comes from process_wait with its process gone, or goes     *)
(* back to the program.                                                    *)
LEMMA WakesWoken ==
    ASSUME NEW gone, NEW woken, NEW c \in Task, NEW at, Moves(gone, woken, c, at),
           NEW d \in Task, Wakes(d), d \in woken, d \notin gone, d # c,
           call[d].op # "join" /\ call[d].obj \in Proc =>
               list'[call[d].obj] \in Left \/ Stuck'
    PROVE  Wakes(d)'
<1>1. call'[d] \in {call[d], NoCall}
  BY MovesCall
<1>2. pc'[d] = Released(d)
  BY DEF Moves
<1>3. NoCall.op # "kill" /\ NoCall.obj \notin Proc
  BY ProcAssumption DEF NoCall
<1>4. CASE call[d].op = "join"
  BY <1>1, <1>2, <1>3, <1>4 DEF Wakes, Released, InHandler
<1>5. CASE call[d].op # "join"
  BY <1>1, <1>2, <1>3, <1>5 DEF Wakes, Leaves, Released, InHandler
<1>6. QED
  BY <1>4, <1>5

LEMMA QuietElsewhere ==
    ASSUME NEW c \in Task, QuietStep(c), ~ KillNotFound(c), ~ FlagTaken(c), ~ Timeouts
    PROVE  \E at : Goes(c, at) /\ at \notin Stops
<1>1. CASE \/ SyncNotFound(c) \/ SyncFlag(c) \/ FlagInvalid(c)
           \/ FlagBlock(c) \/ FlagTimeout(c) \/ ReapNotFound(c)
  BY <1>1 DEF SyncNotFound, SyncFlag, FlagInvalid, FlagBlock, FlagTimeout, ReapNotFound, Stops
<1>2. CASE \/ RemoveNothing(c) \/ ThreadFail(c) \/ OutOfMemory(c) \/ ThreadKillInvalid(c)
           \/ ObjectCreate(c) \/ Register(c) \/ Unlink(c) \/ UnlinkNotFound(c)
           \/ ObjectDestroy(c) \/ TaskExit(c) \/ GetPid(c) \/ Exit(c)
  BY <1>2 DEF RemoveNothing, ThreadFail, OutOfMemory, ThreadKillInvalid, ObjectCreate,
     Register, Unlink, UnlinkNotFound, ObjectDestroy, TaskExit, GetPid, Exit, Stops
<1>3. QED
  BY <1>1, <1>2 DEF QuietStep

(* The steps that unlink a process, or delete or end threads. *)
LEMMA WakesDeletes ==
    ASSUME Inv, WaitInv, [Next]_vars, NEW c \in Task, NEW d \in Task,
           Deletes(c) \/ ThreadReturn(c)
    PROVE  Wakes(d)'
<1>0. Wakes(d) /\ c[1] \in Proc /\ c # Free
  BY TaskIsNotFree DEF WaitInv
<1>1. CASE KillUnlink(c)
  <2>1. PICK q \in Proc : /\ q # c[1] /\ list' = [list EXCEPT ![q] = "moving"]
                          /\ Moves(TasksOf(q), WaitersFor(q, 0), c, "moving")
    BY <1>1 DEF KillUnlink, WithPid
  <2>2. CASE d = c
    <3>1. c \notin TasksOf(q) /\ c \notin WaitersFor(q, 0)
      BY <1>1, <2>1 DEF KillUnlink, InHandler, TasksOf, WaitersFor, WaitersOf
    <3>2. pc'[c] = "moving" /\ call'[c] = call[c] /\ call[c].op = "kill"
      BY <1>1, <2>1, <3>1, MovesEach DEF KillUnlink, InHandler
    <3>3. QED
      BY <1>0, <2>2, <3>2 DEF Wakes, InHandler
  <2>3. CASE d # c /\ d \in WaitersFor(q, 0) /\ d \notin TasksOf(q)
    <3>1. call[d].obj = q /\ list'[q] \in Left
      BY <2>1, <2>3 DEF WaitersFor, WaitersOf, Left, Inv, TypeOK
    <3>2. QED
      BY <1>0, <2>1, <2>3, <3>1, WakesWoken
  <2>4. CASE d # c /\ (d \in TasksOf(q) \/ d \notin WaitersFor(q, 0))
    BY <1>0, <2>1, <2>4, WakesMoves
  <2>5. QED
    BY <2>2, <2>3, <2>4
<1>2. CASE ExitUnlink(c)
  <2>1. /\ list' = [list EXCEPT ![c[1]] = "moving"]
        /\ Moves(ThreadsOf(c[1]), WaitersFor(c[1], 0), c, "leaving")
        /\ c \notin WaitersFor(c[1], 0)
    BY <1>2 DEF ExitUnlink, WaitersFor, WaitersOf
  <2>2. CASE d \in WaitersFor(c[1], 0) /\ d \notin ThreadsOf(c[1])
    <3>1. call[d].obj = c[1] /\ list'[c[1]] \in Left /\ d # c
      BY <1>0, <2>1, <2>2 DEF WaitersFor, WaitersOf, Left, Inv, TypeOK
    <3>2. QED
      BY <1>0, <2>1, <2>2, <3>1, WakesWoken
  <2>3. CASE d \in ThreadsOf(c[1]) \/ d \notin WaitersFor(c[1], 0)
    <3>1. "leaving" \notin Stops
      BY DEF Stops
    <3>2. QED
      BY <1>0, <2>1, <2>3, <3>1, WakesMoves
  <2>4. QED
    BY <2>2, <2>3
<1>3. CASE KillSelf(c) \/ ExitInThread(c)
  <2>1. PICK gone, woken : /\ Moves(gone, woken, c, "none") /\ mtx' = c
                           /\ woken \subseteq {e \in Task : pc[e] = "waiting"}
                           /\ pc[c] # "waiting"
    BY <1>3, WaitersWait DEF KillSelf, ExitInThread, DeletesItself, InHandler
  <2>2. Stuck'
    <3>1. pc'[c] = "none"
      BY <2>1, MovesEach
    <3>2. QED
      BY <1>0, <2>1, <3>1 DEF Stuck
  <2>3. CASE d \in woken /\ d \notin gone
    BY <1>0, <2>1, <2>2, <2>3, WakesWoken
  <2>4. CASE d \in gone \/ d \notin woken
    <3>1. "none" \notin Stops
      BY DEF Stops
    <3>2. QED
      BY <1>0, <2>1, <2>4, <3>1, WakesMoves
  <2>5. QED
    BY <2>3, <2>4
<1>4. CASE ThreadKill(c) \/ ThreadReturn(c)
  <2>1. PICK gone, woken, at :
            /\ Moves(gone, woken, c, at) /\ at \notin Stops
            /\ \A e \in woken : e \in Task /\ pc[e] = "waiting" /\ call[e].op = "join"
            /\ pc[c] # "waiting"
    <3>1. CASE ThreadKill(c)
      <4>1. /\ Moves({<<c[1], call[c].arg>>},
                     WaitersFor(c[1], call[c].arg) \ {<<c[1], call[c].arg>>}, c, "user")
            /\ call[c].arg # 0 /\ pc[c] # "waiting"
        BY <3>1 DEF ThreadKill, InHandler
      <4>2. \A e \in WaitersFor(c[1], call[c].arg) :
                e \in Task /\ pc[e] = "waiting" /\ call[e].op = "join"
        BY <4>1 DEF WaitersFor, WaitersOf, AwaitedBit
      <4>3. QED
        BY <4>1, <4>2 DEF Stops
    <3>2. CASE ThreadReturn(c)
      <4>1. /\ Moves({c}, WaitersFor(c[1], c[2]), c, "none")
            /\ c[2] # 0 /\ pc[c] # "waiting"
        BY <3>2 DEF ThreadReturn
      <4>2. \A e \in WaitersFor(c[1], c[2]) :
                e \in Task /\ pc[e] = "waiting" /\ call[e].op = "join"
        BY <4>1 DEF WaitersFor, WaitersOf, AwaitedBit
      <4>3. QED
        BY <4>1, <4>2 DEF Stops
    <3>3. QED
      BY <1>4, <3>1, <3>2
  <2>2. CASE d \in woken /\ d \notin gone
    BY <1>0, <2>1, <2>2, WakesWoken
  <2>3. CASE d \in gone \/ d \notin woken
    BY <1>0, <2>1, <2>3, WakesMoves
  <2>4. QED
    BY <2>2, <2>3
<1>5. QED
  BY <1>1, <1>2, <1>3, <1>4 DEF Deletes

(* The steps by which a task goes on alone. *)
LEMMA WakesAlone ==
    ASSUME Inv, WaitInv, ~ Timeouts, [Next]_vars, NEW c \in Task, NEW d \in Task,
           \/ QuietStep(c) \/ CleanedUp(c) \/ NoPidLeft(c) \/ CreateFail(c)
           \/ KillLink(c) \/ ExitLink(c) \/ ThreadKillSelf(c) \/ ThreadClear(c)
    PROVE  Wakes(d)'
<1>0. Wakes(d) /\ Wakes(c)
  BY DEF WaitInv
<1>1. ASSUME NEW at, Goes(c, at), at \notin Stops PROVE Wakes(d)'
  BY <1>0, <1>1, WakesGoes
<1>2. ASSUME NEW at, Goes(c, at), d # c PROVE Wakes(d)'
  BY <1>0, <1>2, WakesGoes
<1>3. ASSUME NEW at, Goes(c, at), at \in {"woken", "handler"}
      PROVE  pc'[c] = at /\ call'[c] = call[c]
  <2>1. Moves({}, {}, c, at)
    BY <1>3 DEF Goes
  <2>2. QED
    BY <1>3, <2>1, MovesEach
<1>4. CASE \/ NoPidLeft(c) \/ CreateFail(c) \/ ExitLink(c) \/ ThreadKillSelf(c)
           \/ ThreadClear(c)
           \/ QuietStep(c) /\ ~ KillNotFound(c) /\ ~ FlagTaken(c)
  <2>1. \E at : Goes(c, at) /\ at \notin Stops
    BY <1>4, QuietElsewhere DEF NoPidLeft, CreateFail, ExitLink, ThreadKillSelf,
       ThreadClear, Stops
  <2>2. QED
    BY <1>1, <2>1
<1>5. CASE KillNotFound(c) \/ KillLink(c)
  <2>1. Goes(c, "woken") /\ call[c].op = "kill"
    BY <1>0, <1>5 DEF KillNotFound, KillLink, InHandler, Wakes
  <2>2. CASE d = c
    BY <1>0, <1>3, <2>1, <2>2 DEF Wakes, InHandler
  <2>3. QED
    BY <1>2, <2>1, <2>2
<1>6. CASE FlagTaken(c)
  <2>1. Goes(c, Released(c))
    BY <1>6 DEF FlagTaken
  <2>2. CASE call[c].op = "join"
    <3>1. Released(c) \notin Stops
      BY <2>2 DEF Released, Stops
    <3>2. QED
      BY <1>1, <2>1, <3>1
  <2>3. CASE d = c /\ call[c].op # "join"
    <3>1. pc'[c] = "woken" /\ call'[c] = call[c]
      BY <1>3, <2>1, <2>3 DEF Released
    <3>2. ASSUME call[c].obj \in Proc PROVE list'[call[c].obj] \in Left \/ Stuck'
      <4>1. Leaves(call[c].obj)
        BY <1>6, <2>3, <3>2 DEF FlagTaken, AwaitedBit, WaitInv
      <4>2. QED
        BY <3>2, <4>1, LeftStays, StuckStays DEF Leaves
    <3>3. QED
      BY <1>0, <2>3, <3>1, <3>2 DEF Wakes, Leaves, InHandler
  <2>4. QED
    BY <1>2, <2>1, <2>2, <2>3
<1>7. CASE CleanedUp(c)
  <2>1. /\ Goes(c, "handler") /\ pc[c] = "cleaning" /\ list' = list
        /\ \A q \in Proc : list[q] \notin {"destroy", "moving"}
    BY <1>7 DEF CleanedUp, procVars
  <2>2. CASE d = c
    <3>1. pc'[c] = "handler" /\ call'[c] = call[c]
      BY <1>3, <2>1
    <3>2. QED
      BY <1>0, <2>1, <2>2, <3>1 DEF Wakes, InHandler, Left
  <2>3. QED
    BY <1>2, <2>1, <2>2
<1>8. QED
  BY <1>4, <1>5, <1>6, <1>7

LEMMA WakesStep ==
    ASSUME Inv, WaitInv, ~ Timeouts, NEW c \in Task, KernelStep(c) \/ ProgramStep(c),
           NEW d \in Task
    PROVE  Wakes(d)'
<1>0. [Next]_vars
  BY DEF Next
<1>1. Wakes(d) /\ Wakes(c) /\ NoCall.obj \notin Proc /\ NoCall.op # "kill"
  BY ProcAssumption DEF WaitInv, NoCall
<1>2. pc \in [Task -> PC] /\ call \in [Task -> Call]
  BY DEF Inv, TypeOK
<1>3. CASE Deletes(c) \/ ThreadReturn(c)
  BY <1>0, <1>3, WakesDeletes
<1>4. CASE \/ QuietStep(c) \/ CleanedUp(c) \/ NoPidLeft(c) \/ CreateFail(c)
           \/ KillLink(c) \/ ExitLink(c) \/ ThreadKillSelf(c) \/ ThreadClear(c)
  BY <1>0, <1>4, WakesAlone
<1>5. ASSUME call'[d] \in {call[d], NoCall},
             \/ pc'[d] = pc[d] /\ call'[d] = call[d]
             \/ pc'[d] \notin {"woken", "cleaning", "handler", "moving"}
      PROVE  Wakes(d)'
  BY <1>0, <1>1, <1>5, WakesStays
<1>6. CASE PidCall(c) \/ ThreadCall(c) \/ PlainCall(c)
  <2>1. PICK new : EnterKernel(c, new) /\ new.obj = NoProc
    <3>1. \E o, k : EnterKernel(c, CallOf(o, k))
      BY <1>6 DEF PidCall, ThreadCall, PlainCall
    <3>2. \A o, k : CallOf(o, k).obj = NoProc
      BY DEF CallOf
    <3>3. QED
      BY <3>1, <3>2
  <2>2. CASE d = c
    <3>1. call'[c].obj \notin Proc /\ pc'[c] \in {"cleaning", "handler"}
      BY <1>2, <2>1, ProcAssumption DEF EnterKernel
    <3>2. QED
      BY <2>2, <3>1 DEF Wakes
  <2>3. CASE d # c
    BY <1>2, <1>5, <2>1, <2>3 DEF EnterKernel
  <2>4. QED
    BY <2>2, <2>3
<1>7. CASE ReapCall(c)
  <2>1. /\ mtx = Free /\ list' = list /\ pc[c] = "woken"
        /\ call' = [call EXCEPT ![c] = [call[c] EXCEPT !.op = "reap"]]
        /\ \/ MustCleanUp /\ pc' = [pc EXCEPT ![c] = "cleaning"]
           \/ ~ MustCleanUp /\ pc' = [pc EXCEPT ![c] = "handler"]
    BY <1>7 DEF ReapCall, EnterKernel, procVars
  <2>2. CASE d = c
    <3>1. call'[c].obj = call[c].obj /\ call'[c].op = "reap"
      BY <1>2, <2>1 DEF Call
    <3>2. ASSUME call[c].obj \in Proc
          PROVE  /\ list[call[c].obj] \in Left /\ list[call[c].obj] # "moving"
                 /\ ~ MustCleanUp => list[call[c].obj] # "destroy"
      <4>1. ~ Stuck
        BY <2>1 DEF Stuck
      <4>2. QED
        BY <1>1, <2>1, <3>2, <4>1, FreeMutex DEF Wakes, Leaves, Inv, MustCleanUp
    <3>3. CASE MustCleanUp /\ pc' = [pc EXCEPT ![c] = "cleaning"]
      <4>1. pc'[c] = "cleaning"
        BY <1>2, <3>3
      <4>2. QED
        BY <2>1, <2>2, <3>1, <3>2, <4>1 DEF Wakes, InHandler
    <3>4. CASE ~ MustCleanUp /\ pc' = [pc EXCEPT ![c] = "handler"]
      <4>1. pc'[c] = "handler"
        BY <1>2, <3>4
      <4>2. QED
        BY <2>1, <2>2, <3>1, <3>2, <3>4, <4>1 DEF Wakes, InHandler, Left
    <3>5. QED
      BY <2>1, <3>3, <3>4
  <2>3. CASE d # c
    BY <1>2, <1>5, <2>1, <2>3
  <2>4. QED
    BY <2>2, <2>3
<1>8. CASE CleanDetached(c) \/ RemoveZombie(c)
  <2>1. \/ pc'[d] = "user" /\ call'[d] = NoCall
        \/ pc'[d] = pc[d] /\ call'[d] = call[d]
    BY <1>8 DEF CleanDetached, RemoveZombie
  <2>2. QED
    BY <1>5, <2>1
<1>9. CASE CleanToZombie(c) \/ LinkZombie(c)
  BY <1>5, <1>9 DEF CleanToZombie, LinkZombie
<1>10. CASE CreateAlloc(c) \/ SyncFind(c) \/ ReapFind(c)
  <2>1. CASE d = c
    <3>1. pc'[c] \in {"allocated", "flagread", "removing"}
      BY <1>2, <1>10 DEF CreateAlloc, SyncFind, ReapFind
    <3>2. call'[c].op = call[c].op /\ call[c].op # "kill"
      BY <1>2, <1>10 DEF CreateAlloc, SyncFind, ReapFind, InHandler, Call
    <3>3. QED
      BY <2>1, <3>1, <3>2 DEF Wakes, InHandler
  <2>2. CASE d # c
    BY <1>2, <1>5, <1>10, <2>2 DEF CreateAlloc, SyncFind, ReapFind
  <2>3. QED
    BY <2>1, <2>2
<1>11. CASE CreateInsert(c)
  <2>1. /\ pc'[d] = "user" \/ (pc'[d] = pc[d] /\ d # c)
        /\ call'[d] = NoCall \/ call'[d] = call[d]
        /\ d # c => call'[d] = call[d]
    <3>1. PICK t : pc' = [pc EXCEPT ![c] = "user", ![t] = "user"]
      BY <1>11 DEF CreateInsert
    <3>2. call' = [call EXCEPT ![c] = NoCall]
      BY <1>11 DEF CreateInsert
    <3>3. CASE d = t \/ d = c
      <4>1. pc'[d] = "user"
        BY <1>2, <3>1, <3>3
      <4>2. d # c => call'[d] = call[d]
        BY <1>2, <3>2
      <4>3. d = c => call'[d] = NoCall
        BY <1>2, <3>2
      <4>4. QED
        BY <4>1, <4>2, <4>3
    <3>4. CASE d # t /\ d # c
      BY <1>2, <3>1, <3>2, <3>4
    <3>5. QED
      BY <3>3, <3>4
  <2>2. QED
    BY <1>5, <2>1
<1>12. CASE ThreadCreate(c)
  <2>1. PICK t, i : /\ pc' = [pc EXCEPT ![c] = "starting", ![t] = "user"]
                    /\ call' = [call EXCEPT ![c].arg = i]
                    /\ pc[t] = "none" /\ pc[c] = "handler" /\ call[c].op = "thread"
    BY <1>12 DEF ThreadCreate, InHandler
  <2>2. CASE d = c
    <3>1. pc'[c] = "starting" /\ call'[c].op = "thread"
      BY <1>2, <2>1 DEF Call
    <3>2. QED
      BY <2>2, <3>1 DEF Wakes, InHandler
  <2>3. CASE d # c
    <3>1. call'[d] = call[d] /\ (pc'[d] = pc[d] \/ pc'[d] = "user")
      BY <1>2, <2>1, <2>3
    <3>2. QED
      BY <1>5, <3>1
  <2>4. QED
    BY <2>2, <2>3
<1>13. QED
  BY <1>3, <1>4, <1>6, <1>7, <1>8, <1>9, <1>10, <1>11, <1>12
  DEF KernelStep, ProgramStep, QuietStep, Deletes

(* The exit bit of the main thread is set by what ends its process. *)
LEMMA MainBit ==
    ASSUME Inv, WaitInv, NEW c \in Task, KernelStep(c) \/ ProgramStep(c),
           NEW q \in Proc, 0 \in exitBit'[q]
    PROVE  list'[q] \in Left \/ Stuck'
<1>0. /\ [Next]_vars /\ c[1] \in Proc /\ c[2] \in Tid /\ c # Free /\ 0 \in Tid
      /\ list \in [Proc -> List] /\ exitBit \in [Proc -> SUBSET Tid]
  BY TaskIsNotFree, ThreadsAssumption DEF Next, Inv, TypeOK, Tid
<1>1. CASE 0 \in exitBit[q]
  <2>1. Leaves(q)
    BY <1>1 DEF WaitInv
  <2>2. QED
    BY <1>0, <2>1, LeftStays, StuckStays DEF Leaves
<1>2. CASE BitsStay(c) /\ 0 \notin exitBit[q]
  BY <1>2, BitsStayHolds
<1>3. CASE (FlagTaken(c) \/ ThreadClear(c)) /\ 0 \notin exitBit[q]
  BY <1>0, <1>3 DEF FlagTaken, ThreadClear, ClearedBit
<1>4. CASE (KillUnlink(c) \/ ExitUnlink(c)) /\ 0 \notin exitBit[q]
  <2>1. PICK p \in Proc : exitBit' = SetExitBit(p, 0) /\ list' = [list EXCEPT ![p] = "moving"]
    BY <1>0, <1>4 DEF KillUnlink, ExitUnlink, WithPid
  <2>2. q = p
    BY <1>0, <1>4, <2>1, OtherBit
  <2>3. QED
    BY <1>0, <2>1, <2>2 DEF Left
<1>5. CASE KillSelf(c) \/ ExitInThread(c)
  <2>1. PICK gone, woken : Moves(gone, woken, c, "none") /\ mtx' = c
    BY <1>5 DEF KillSelf, ExitInThread, DeletesItself
  <2>2. pc'[c] = "none"
    <3>1. CASE c \in gone
      BY <2>1, <3>1, MovesEach
    <3>2. CASE c \notin gone
      BY <2>1, <3>2, MovesEach
    <3>3. QED
      BY <3>1, <3>2
  <2>3. QED
    BY <1>0, <2>1, <2>2 DEF Stuck
<1>6. CASE (ThreadKill(c) \/ ThreadReturn(c)) /\ 0 \notin exitBit[q]
  <2>1. PICK i \in Tid : i # 0 /\ exitBit' = SetExitBit(c[1], i)
    BY <1>0, <1>6 DEF ThreadKill, ThreadReturn
  <2>2. QED
    BY <1>0, <1>6, <2>1, OtherBit
<1>7. QED
  BY <1>1, <1>2, <1>3, <1>4, <1>5, <1>6
  DEF KernelStep, ProgramStep, BitsStay, QuietStep

LEMMA WaitStep ==
    ASSUME Inv, WaitInv, ~ Timeouts, [Next]_vars
    PROVE  WaitInv'
<1>1. CASE UNCHANGED vars
  BY <1>1 DEF vars, WaitInv, Wakes, Leaves, Stuck, InHandler
<1>2. SUFFICES ASSUME NEW c \in Task, KernelStep(c) \/ ProgramStep(c) PROVE WaitInv'
  BY <1>1 DEF Next
<1>3. \A d \in Task : Wakes(d)'
  BY <1>2, WakesStep
<1>4. (\A q \in Proc : 0 \in exitBit[q] => Leaves(q))'
  BY <1>2, MainBit DEF Leaves
<1>5. QED
  BY <1>3, <1>4 DEF WaitInv

-----------------------------------------------------------------------------
LEMMA ObjectInit == Init => ObjectInv /\ DestroyedOnce
BY ProcAssumption DEF Init, ObjectInv, DestroyedOnce

LEMMA WaitInit == Init => WaitInv /\ RunningThreadNotJoined
BY ProcAssumption DEF Init, WaitInv, Wakes, InHandler, NoCall, RunningThreadNotJoined, Task

(* A process moves along its life and never back, and the status its       *)
(* parent will read does not change once it has left the active list       *)
(* (process.c: _process_exit sets it before it takes the mutex).           *)
THEOREM LifeGoesOnHolds == Spec => LifeGoesOn
<1>1. Inv /\ [Next]_vars =>
        \A q \in Proc : /\ Stage(list[q]) <= Stage(list'[q])
                        /\ list[q] \in Ended => status'[q] = status[q]
  BY LifeStep
<1>2. QED
  BY <1>1, Invariance, PTL DEF Spec, LifeGoesOn

(* No kernel object stays registered to a process that is on the zombie    *)
(* list or freed (process.c: process_destroy_all_resources).               *)
THEOREM EndedOwnsNothingHolds == Spec => []EndedOwnsNothing
<1>1. Inv /\ ObjectInv /\ [Next]_vars => ObjectInv'
  BY ObjectInvStep
<1>2. ObjectInv => EndedOwnsNothing
  BY DEF ObjectInv, EndedOwnsNothing
<1>3. QED
  BY <1>1, <1>2, ObjectInit, Invariance, PTL DEF Spec

(* An object is destroyed by the one task that has unlinked it             *)
(* (process.c: _process_release_resource).                                 *)
THEOREM DestroyedOnceHolds == Spec => []DestroyedOnce
<1>1. Inv /\ DestroyedOnce /\ [Next]_vars => DestroyedOnce'
  BY DestroyedStep
<1>2. QED
  BY <1>1, ObjectInit, Invariance, PTL DEF Spec

(* process_wait reads the status of its process when no wait has a         *)
(* timeout: the clean-up at the entry of its second call has put the       *)
(* process on the zombie list (syscall.c: SYSCALL_PROCESSCLEANZOMBIE).     *)
THEOREM WokenWaiterFindsZombieHolds ==
    ASSUME ~ Timeouts
    PROVE  Spec => []WokenWaiterFindsZombie
<1>1. Inv /\ WaitInv /\ [Next]_vars => WaitInv'
  BY WaitStep
<1>2. WaitInv => WokenWaiterFindsZombie
  BY DEF WaitInv, Wakes, WokenWaiterFindsZombie
<1>3. QED
  BY <1>1, <1>2, WaitInit, Invariance, PTL DEF Spec

-----------------------------------------------------------------------------
(* Who has an object.                                                      *)

(* An object is in the hands of a task that is making or releasing it, and *)
(* a task has one at a time.                                               *)
HeldInv ==
    /\ \A r \in Res : rtask[r] # Free =>
           \/ rstate[r] = "made" /\ pc[rtask[r]] = "holding"
           \/ rstate[r] = "unlinked" /\ pc[rtask[r]] = "unlinked"
    /\ \A r, s \in Res : rtask[r] # Free /\ rtask[r] = rtask[s] => r = s

(* A step of one task leaves another where it is, unless it starts, wakes  *)
(* or deletes it.                                                          *)
LEMMA OthersStay ==
    ASSUME Inv, NEW c \in Task, KernelStep(c) \/ ProgramStep(c),
           NEW d \in Task, d # c, pc[d] \notin {"none", "waiting"}
    PROVE  pc'[d] = pc[d] \/ (pc'[d] = "none" /\ Deletes(c))
<1>0. pc \in [Task -> PC] /\ c[1] \in Proc
  BY TaskIsNotFree DEF Inv, TypeOK
<1>1. ASSUME NEW gone, NEW woken, NEW at, Moves(gone, woken, c, at),
             woken \subseteq {e \in Task : pc[e] = "waiting"}
      PROVE  IF d \in gone THEN pc'[d] = "none" ELSE pc'[d] = pc[d]
  BY <1>1, MovesEach
<1>2. ASSUME NEW at, Goes(c, at) PROVE pc'[d] = pc[d]
  <2>1. Moves({}, {}, c, at)
    BY <1>2 DEF Goes
  <2>2. QED
    BY <1>1, <2>1
<1>3. CASE QuietStep(c)
  BY <1>2, <1>3, QuietGoes
<1>4. CASE PidCall(c) \/ ThreadCall(c) \/ PlainCall(c) \/ ReapCall(c)
  <2>1. \E new : EnterKernel(c, new)
    BY <1>4 DEF PidCall, ThreadCall, PlainCall, ReapCall
  <2>2. QED
    BY <1>0, <2>1 DEF EnterKernel
<1>5. CASE CleanDetached(c) \/ RemoveZombie(c)
  BY <1>5, WaitersWait DEF CleanDetached, RemoveZombie
<1>6. CASE CleanToZombie(c) \/ LinkZombie(c)
  BY <1>6 DEF CleanToZombie, LinkZombie
<1>7. CASE \/ CleanedUp(c) \/ NoPidLeft(c) \/ CreateFail(c) \/ KillLink(c) \/ ExitLink(c)
           \/ ThreadKillSelf(c) \/ ThreadClear(c)
  BY <1>2, <1>7 DEF CleanedUp, NoPidLeft, CreateFail, KillLink, ExitLink, ThreadKillSelf,
     ThreadClear
<1>8. CASE CreateAlloc(c) \/ SyncFind(c) \/ ReapFind(c)
  BY <1>0, <1>8 DEF CreateAlloc, SyncFind, ReapFind
<1>9. CASE Deletes(c)
  <2>1. PICK gone, woken, at : /\ Moves(gone, woken, c, at)
                               /\ woken \subseteq {e \in Task : pc[e] = "waiting"}
    BY <1>9, DeletesObjects
  <2>2. QED
    BY <1>1, <1>9, <2>1
<1>10. CASE ThreadReturn(c)
  BY <1>1, <1>10, WaitersWait DEF ThreadReturn
<1>11. CASE CreateInsert(c)
  <2>1. call[c].obj \in Proc /\ list[call[c].obj] = "creating"
    BY <1>11 DEF CreateInsert, Inv, RunInv, Creating
  <2>2. d[1] # call[c].obj
    BY <2>1 DEF Inv, RunInv, RunsOnlyWhileActive, Ended
  <2>3. pc' = [pc EXCEPT ![c] = "user", ![<<call[c].obj, 0>>] = "user"]
    BY <1>11 DEF CreateInsert
  <2>4. d # <<call[c].obj, 0>>
    BY <2>2
  <2>5. QED
    BY <1>0, <2>3, <2>4
<1>12. CASE ThreadCreate(c)
  BY <1>0, <1>12 DEF ThreadCreate
<1>13. QED
  BY <1>3, <1>4, <1>5, <1>6, <1>7, <1>8, <1>9, <1>10, <1>11, <1>12
  DEF KernelStep, ProgramStep, QuietStep, Deletes

(* What a task that has an object does next is to register or destroy it. *)
LEMMA HolderActs ==
    ASSUME NEW c \in Task, ObjectsStay(c) \/ CleanDetached(c) \/ CleanToZombie(c)
    PROVE  pc[c] \notin {"holding", "unlinked"}
<1>1. CASE \/ KillNotFound(c) \/ SyncNotFound(c) \/ SyncFlag(c) \/ FlagInvalid(c)
           \/ FlagBlock(c) \/ FlagTaken(c) \/ FlagTimeout(c) \/ ReapNotFound(c)
           \/ RemoveNothing(c) \/ ThreadFail(c) \/ OutOfMemory(c) \/ ThreadKillInvalid(c)
  BY <1>1 DEF KillNotFound, SyncNotFound, SyncFlag, FlagInvalid, FlagBlock, FlagTaken,
     FlagTimeout, ReapNotFound, RemoveNothing, ThreadFail, OutOfMemory,
     ThreadKillInvalid, InHandler
<1>2. CASE \/ UnlinkNotFound(c) \/ TaskExit(c) \/ GetPid(c) \/ Exit(c)
           \/ PidCall(c) \/ ThreadCall(c) \/ PlainCall(c) \/ ReapCall(c) \/ CleanedUp(c)
  BY <1>2 DEF UnlinkNotFound, TaskExit, GetPid, Exit, PidCall, ThreadCall, PlainCall,
     ReapCall, CleanedUp, InHandler
<1>3. CASE \/ LinkZombie(c) \/ CreateAlloc(c) \/ NoPidLeft(c) \/ CreateFail(c)
           \/ CreateInsert(c) \/ KillLink(c) \/ ExitLink(c) \/ SyncFind(c) \/ ReapFind(c)
           \/ RemoveZombie(c) \/ ThreadCreate(c) \/ ThreadClear(c) \/ ThreadKillSelf(c)
           \/ ThreadReturn(c)
  BY <1>3 DEF LinkZombie, CreateAlloc, NoPidLeft, CreateFail, CreateInsert, KillLink,
     ExitLink, SyncFind, ReapFind, RemoveZombie, ThreadCreate, ThreadClear,
     ThreadKillSelf, ThreadReturn, InHandler
<1>4. CASE CleanDetached(c) \/ CleanToZombie(c)
  BY <1>4 DEF CleanDetached, CleanToZombie
<1>5. QED
  BY <1>1, <1>2, <1>3, <1>4 DEF ObjectsStay

LEMMA HeldStep ==
    ASSUME Inv, HeldInv, [Next]_vars
    PROVE  HeldInv'
<1>1. CASE UNCHANGED vars
  BY <1>1 DEF vars, HeldInv
<1>2. SUFFICES ASSUME NEW c \in Task, KernelStep(c) \/ ProgramStep(c) PROVE HeldInv'
  BY <1>1 DEF Next
<1>0. /\ rstate \in [Res -> ResState] /\ rtask \in [Res -> Task \union {Free}]
      /\ pc \in [Task -> PC] /\ c # Free
  BY TaskIsNotFree DEF Inv, TypeOK
<1>3. ASSUME NEW r \in Res, rtask[r] # Free, rtask[r] # c, ~ Deletes(c)
      PROVE  pc'[rtask[r]] = pc[rtask[r]]
  <2>1. PICK d \in Task : d = rtask[r]
    BY <1>0, <1>3
  <2>2. pc[d] \in {"holding", "unlinked"}
    BY <1>3, <2>1 DEF HeldInv
  <2>3. QED
    BY <1>2, <1>3, <2>1, <2>2, OthersStay
<1>4. CASE ObjectsStay(c) /\ ~ Deletes(c)
  <2>1. rstate' = rstate /\ rtask' = rtask
    BY <1>4, ObjectsStayHolds
  <2>2. \A r \in Res : rtask[r] # c
    BY <1>0, <1>4, HolderActs DEF HeldInv
  <2>3. QED
    BY <1>3, <1>4, <2>1, <2>2 DEF HeldInv
<1>5. CASE Deletes(c)
  <2>1. PICK gone, woken, at :
          /\ Moves(gone, woken, c, at) /\ ForgottenBy(gone)
          /\ woken \subseteq {d \in Task : pc[d] = "waiting"}
          /\ pc[c] \in {"handler", "ending"}
    BY <1>5, DeletesObjects
  <2>2. rstate' = rstate /\ \A r \in Res : rtask'[r] = IF rtask[r] \in gone THEN Free ELSE rtask[r]
    BY <2>1 DEF ForgottenBy
  <2>3. ASSUME NEW r \in Res, rtask'[r] # Free PROVE pc'[rtask[r]] = pc[rtask[r]]
    <3>1. PICK d \in Task : d = rtask[r] /\ d \notin gone
      BY <1>0, <2>2, <2>3
    <3>2. pc[d] \in {"holding", "unlinked"}
      BY <1>0, <3>1, TaskIsNotFree DEF HeldInv
    <3>3. d # c /\ d \notin woken
      BY <2>1, <3>2
    <3>4. QED
      BY <2>1, <3>1, <3>3, MovesEach
  <2>4. QED
    BY <2>2, <2>3 DEF HeldInv
<1>6. CASE CleanDetached(c) \/ CleanToZombie(c)
  <2>1. rtask' = rtask /\ \A r \in Res : rstate[r] # "listed" => rstate'[r] = rstate[r]
    BY <1>6 DEF CleanDetached, CleanToZombie, DestroyResources
  <2>2. \A r \in Res : rtask[r] # c
    BY <1>0, <1>6, HolderActs DEF HeldInv
  <2>3. ~ Deletes(c)
    BY <1>6, DeletesObjects DEF CleanDetached, CleanToZombie
  <2>4. QED
    BY <1>3, <2>1, <2>2, <2>3 DEF HeldInv
<1>7. CASE ObjectCreate(c) \/ Unlink(c)
  <2>1. PICK s \in Res, at \in {"holding", "unlinked"}, st \in {"made", "unlinked"} :
          /\ rstate' = [rstate EXCEPT ![s] = st] /\ rtask' = [rtask EXCEPT ![s] = c]
          /\ Goes(c, at) /\ <<at, st>> \in {<<"holding", "made">>, <<"unlinked", "unlinked">>}
          /\ pc[c] = "handler"
    BY <1>7 DEF ObjectCreate, Unlink, InHandler
  <2>2. \A r \in Res : rtask[r] # c
    BY <1>0, <2>1 DEF HeldInv
  <2>3. pc'[c] = at /\ \A d \in Task : d # c => pc'[d] = pc[d]
    <3>1. Moves({}, {}, c, at)
      BY <2>1 DEF Goes
    <3>2. QED
      BY <3>1, MovesEach
  <2>4. \A r \in Res : r # s /\ rtask'[r] # Free => /\ rtask'[r] = rtask[r] /\ rtask[r] # c
                                                   /\ rstate'[r] = rstate[r]
                                                   /\ pc'[rtask[r]] = pc[rtask[r]]
    BY <1>0, <2>1, <2>2, <2>3
  <2>5. rtask'[s] = c /\ rstate'[s] = st
    BY <1>0, <2>1
  <2>6. QED
    BY <2>1, <2>3, <2>4, <2>5 DEF HeldInv
<1>8. CASE Register(c) \/ ObjectDestroy(c)
  <2>1. PICK s \in Res, st \in {"listed", "gone"} :
          /\ rtask[s] = c
          /\ rstate' = [rstate EXCEPT ![s] = st] /\ rtask' = [rtask EXCEPT ![s] = Free]
          /\ Goes(c, "user")
    BY <1>8 DEF Register, ObjectDestroy
  <2>2. \A r \in Res : r # s => rtask[r] # c
    BY <1>0, <2>1 DEF HeldInv
  <2>3. ~ Deletes(c)
    BY <1>8, DeletesObjects DEF Register, ObjectDestroy
  <2>4. \A r \in Res : rtask'[r] # Free => /\ rtask'[r] = rtask[r] /\ rtask[r] # c
                                         /\ rstate'[r] = rstate[r]
                                         /\ pc'[rtask[r]] = pc[rtask[r]]
    BY <1>0, <1>3, <2>1, <2>2, <2>3
  <2>5. QED
    BY <2>4 DEF HeldInv
<1>9. QED
  BY <1>2, <1>4, <1>5, <1>6, <1>7, <1>8 DEF KernelStep, ProgramStep, ObjectsStay, Deletes

LEMMA HeldInvariant == Spec => [](Inv /\ ObjectInv /\ HeldInv)
<1>1. Init => HeldInv
  BY DEF Init, HeldInv
<1>2. Inv /\ HeldInv /\ [Next]_vars => HeldInv'
  BY HeldStep
<1>3. Inv /\ ObjectInv /\ [Next]_vars => ObjectInv'
  BY ObjectInvStep
<1>4. QED
  BY <1>1, <1>2, <1>3, ObjectInit, Invariance, PTL DEF Spec

-----------------------------------------------------------------------------
(* KeepsLifecycle: what each step is in the life of a program, or of an    *)
(* object.                                                                 *)

LifeMap   == [q \in Proc |-> LifeOf(q)]
ThreadMap == [q \in Proc |-> {i \in Tid : Runs(<<q, i>>)}]
FateMap   == [r \in Res |-> FateOf(r)]

(* Two states with the same running tasks have the same threads. *)
LEMMA ThreadsStay ==
    ASSUME \A d \in Task : Runs(d)' <=> Runs(d)
    PROVE  ThreadMap' = ThreadMap
<1>1. \A q \in Proc, i \in Tid : <<q, i>> \in Task
  BY DEF Task
<1>2. \A q \in Proc : {i \in Tid : Runs(<<q, i>>)}' = {i \in Tid : Runs(<<q, i>>)}
  BY <1>1
<1>3. QED
  BY <1>2 DEF ThreadMap

(* The threads change in one program only. *)
LEMMA ThreadsChange ==
    ASSUME NEW p \in Proc, NEW S \in SUBSET Tid,
           \A d \in Task : d[1] # p => (Runs(d)' <=> Runs(d)),
           \A i \in Tid : Runs(<<p, i>>)' <=> i \in S
    PROVE  ThreadMap' = [ThreadMap EXCEPT ![p] = S]
<1>1. \A q \in Proc, i \in Tid : <<q, i>> \in Task /\ <<q, i>>[1] = q
  BY DEF Task
<1>2. \A q \in Proc \ {p} : {i \in Tid : Runs(<<q, i>>)}' = {i \in Tid : Runs(<<q, i>>)}
  BY <1>1
<1>3. {i \in Tid : Runs(<<p, i>>)}' = S
  OBVIOUS
<1>4. QED
  BY <1>2, <1>3 DEF ThreadMap

(* The life of one program changes. *)
LEMMA LifeChanges ==
    ASSUME NEW p \in Proc, NEW l, list \in [Proc -> List], list' = [list EXCEPT ![p] = l]
    PROVE  LifeMap' = [LifeMap EXCEPT ![p] = LifeOf(p)']
<1>1. \A q \in Proc \ {p} : LifeOf(q)' = LifeOf(q)
  BY DEF LifeOf
<1>2. QED
  BY <1>1 DEF LifeMap

(* Where the tasks run after Moves. *)
LEMMA MovesRuns ==
    ASSUME NEW gone, NEW woken, NEW c \in Task, NEW at, Moves(gone, woken, c, at),
           woken \subseteq {d \in Task : pc[d] = "waiting"}, NEW d \in Task
    PROVE  Runs(d)' <=> /\ d \notin gone
                        /\ IF d = c THEN at \notin {"none", "leaving", "exiting"} ELSE Runs(d)
<1>1. CASE d \in gone \/ d = c
  BY <1>1, MovesEach DEF Runs
<1>2. CASE d \notin gone /\ d # c /\ d \in woken
  BY <1>2, MovesEach DEF Runs
<1>3. CASE d \notin gone /\ d # c /\ d \notin woken
  BY <1>3, MovesEach DEF Runs
<1>4. QED
  BY <1>1, <1>2, <1>3

LEMMA GoesRuns ==
    ASSUME NEW c \in Task, NEW at, Goes(c, at), pc[c] \notin {"none", "leaving", "exiting"},
           at \notin {"none", "leaving", "exiting"}
    PROVE  ThreadMap' = ThreadMap
<1>1. PICK gone, woken : /\ Moves(gone, woken, c, at) /\ gone = {}
                         /\ woken \subseteq {d \in Task : pc[d] = "waiting"}
  BY DEF Goes
<1>2. Runs(c)
  BY DEF Runs
<1>3. \A d \in Task : Runs(d)' <=> Runs(d)
  BY <1>1, <1>2, MovesRuns
<1>4. QED
  BY <1>3, ThreadsStay

LEMMA LifeTable ==
    ASSUME NEW q \in Proc
    PROVE  /\ list[q] \in {"unborn", "creating"} => LifeOf(q) = "absent"
           /\ list[q] = "active"                 => LifeOf(q) = "running"
           /\ list[q] \in {"moving", "destroy"}  => LifeOf(q) = "ended"
           /\ list[q] = "zombie"                 => LifeOf(q) = "zombie"
           /\ list[q] = "freed"                  => LifeOf(q) = "gone"
<1>1. list[q] \in {"unborn", "creating"} => LifeOf(q) = "absent"
  BY DEF LifeOf
<1>2. list[q] = "active" => LifeOf(q) = "running"
  BY DEF LifeOf
<1>3. list[q] \in {"moving", "destroy"} => LifeOf(q) = "ended"
  BY DEF LifeOf
<1>4. list[q] = "zombie" => LifeOf(q) = "zombie"
  BY DEF LifeOf
<1>5. list[q] = "freed" => LifeOf(q) = "gone"
  BY DEF LifeOf
<1>6. QED
  BY <1>1, <1>2, <1>3, <1>4, <1>5

LEMMA FateTable ==
    ASSUME NEW r \in Res, rstate[r] \in ResState
    PROVE  /\ rstate[r] = "none"   => FateOf(r) = "new"
           /\ rstate[r] = "listed" <=> FateOf(r) = "owned"
           /\ rstate[r] = "gone"   => FateOf(r) = "gone"
           /\ rstate[r] \in {"made", "unlinked"} /\ rtask[r] = Free => FateOf(r) = "lost"
           /\ rstate[r] = "made" /\ rtask[r] # Free => FateOf(r) = "made"
           /\ rstate[r] = "unlinked" /\ rtask[r] # Free => FateOf(r) = "taken"
<1>1. rstate[r] = "none" => FateOf(r) = "new"
  BY DEF FateOf
<1>2. rstate[r] = "listed" => FateOf(r) = "owned"
  BY DEF FateOf
<1>3. rstate[r] = "gone" => FateOf(r) = "gone"
  BY DEF FateOf
<1>4. rstate[r] \in {"made", "unlinked"} /\ rtask[r] = Free => FateOf(r) = "lost"
  BY DEF FateOf
<1>5. rstate[r] = "made" /\ rtask[r] # Free => FateOf(r) = "made"
  BY DEF FateOf
<1>6. rstate[r] = "unlinked" /\ rtask[r] # Free => FateOf(r) = "taken"
  BY DEF FateOf
<1>7. rstate[r] # "listed" => FateOf(r) # "owned"
  BY <1>1, <1>3, <1>4, <1>5, <1>6 DEF ResState
<1>8. QED
  BY <1>1, <1>2, <1>3, <1>4, <1>5, <1>6, <1>7

(* An object keeps its fate, unless a task works on it or it is destroyed. *)
LEMMA FatesStay ==
    ASSUME rstate' = rstate, rtask' = rtask
    PROVE  FateMap' = FateMap
BY DEF FateMap, FateOf

LEMMA FateChanges ==
    ASSUME NEW s \in Res, NEW st, NEW d, rstate \in [Res -> ResState],
           rtask \in [Res -> Task \union {Free}],
           rstate' = [rstate EXCEPT ![s] = st], rtask' = [rtask EXCEPT ![s] = d]
    PROVE  /\ FateMap' = [FateMap EXCEPT ![s] = FateOf(s)']
           /\ rstate'[s] = st /\ rtask'[s] = d
<1>1. \A r \in Res \ {s} : rstate'[r] = rstate[r] /\ rtask'[r] = rtask[r]
  OBVIOUS
<1>2. \A r \in Res \ {s} : FateOf(r)' = FateOf(r)
  BY <1>1 DEF FateOf
<1>3. QED
  BY <1>2 DEF FateMap

-----------------------------------------------------------------------------
(* Steps in which nobody starts or stops running ... *)
RunsOn(c) ==
    \/ QuietStep(c) \/ PidCall(c) \/ ThreadCall(c) \/ PlainCall(c) \/ ReapCall(c)
    \/ CleanDetached(c) \/ CleanToZombie(c) \/ LinkZombie(c) \/ CleanedUp(c)
    \/ CreateAlloc(c) \/ NoPidLeft(c) \/ CreateFail(c) \/ KillLink(c) \/ ExitLink(c)
    \/ SyncFind(c) \/ ReapFind(c) \/ RemoveZombie(c) \/ ThreadClear(c)

LEMMA RunsOnHolds ==
    ASSUME TypeOK, NEW c \in Task, RunsOn(c)
    PROVE  ThreadMap' = ThreadMap
<1>0. pc \in [Task -> PC]
  BY DEF TypeOK
<1>1. CASE \/ KillNotFound(c) \/ SyncNotFound(c) \/ SyncFlag(c) \/ FlagInvalid(c)
           \/ FlagBlock(c) \/ ReapNotFound(c) \/ RemoveNothing(c) \/ ThreadFail(c)
           \/ OutOfMemory(c) \/ ThreadKillInvalid(c)
  <2>1. \E at \in {"woken", "user", "flagwait", "waiting"} : Goes(c, at)
    BY <1>1 DEF KillNotFound, SyncNotFound, SyncFlag, FlagInvalid, FlagBlock,
       ReapNotFound, RemoveNothing, ThreadFail, OutOfMemory, ThreadKillInvalid
  <2>2. pc[c] \in {"handler", "flagread", "flagwait", "removing"}
    BY <1>1 DEF KillNotFound, SyncNotFound, SyncFlag, FlagInvalid, FlagBlock,
       ReapNotFound, RemoveNothing, ThreadFail, OutOfMemory, ThreadKillInvalid, InHandler
  <2>3. QED
    BY <2>1, <2>2, GoesRuns
<1>2. CASE FlagTaken(c) \/ FlagTimeout(c)
  <2>1. \E at \in {"woken", "user"} : Goes(c, at)
    BY <1>2 DEF FlagTaken, FlagTimeout, Released
  <2>2. pc[c] \in {"flagwait", "waiting"}
    BY <1>2 DEF FlagTaken, FlagTimeout
  <2>3. QED
    BY <2>1, <2>2, GoesRuns
<1>3. CASE \/ ObjectCreate(c) \/ Register(c) \/ Unlink(c) \/ UnlinkNotFound(c)
           \/ ObjectDestroy(c) \/ GetPid(c) \/ Exit(c)
  <2>1. \E at \in {"holding", "user", "unlinked", "numbered", "ending"} : Goes(c, at)
    BY <1>3 DEF ObjectCreate, Register, Unlink, UnlinkNotFound, ObjectDestroy, GetPid, Exit
  <2>2. pc[c] \in {"handler", "holding", "unlinked", "allocated", "user"}
    BY <1>3 DEF ObjectCreate, Register, Unlink, UnlinkNotFound, ObjectDestroy, GetPid, Exit,
       InHandler
  <2>3. QED
    BY <2>1, <2>2, GoesRuns
<1>4. CASE CleanedUp(c) \/ NoPidLeft(c) \/ CreateFail(c) \/ KillLink(c) \/ ThreadClear(c)
  <2>1. \E at \in {"handler", "user", "woken"} : Goes(c, at)
    BY <1>4 DEF CleanedUp, NoPidLeft, CreateFail, KillLink, ThreadClear
  <2>2. pc[c] \in {"cleaning", "allocated", "numbered", "moving", "starting"}
    BY <1>4 DEF CleanedUp, NoPidLeft, CreateFail, KillLink, ThreadClear
  <2>3. QED
    BY <2>1, <2>2, GoesRuns
<1>5. CASE TaskExit(c) \/ ExitLink(c)
  <2>1. PICK gone, woken, at :
          /\ Moves(gone, woken, c, at) /\ gone = {} /\ at \in {"none", "exiting"}
          /\ woken \subseteq {d \in Task : pc[d] = "waiting"}
    BY <1>5 DEF TaskExit, ExitLink, Goes
  <2>2. ~ Runs(c)
    BY <1>5 DEF TaskExit, ExitLink, Runs
  <2>3. \A d \in Task : Runs(d)' <=> Runs(d)
    BY <2>1, <2>2, MovesRuns
  <2>4. QED
    BY <2>3, ThreadsStay
<1>6. CASE PidCall(c) \/ ThreadCall(c) \/ PlainCall(c) \/ ReapCall(c)
  <2>1. pc[c] \in {"user", "woken"} /\ \E new : EnterKernel(c, new)
    BY <1>6 DEF PidCall, ThreadCall, PlainCall, ReapCall
  <2>2. \A d \in Task : Runs(d)' <=> Runs(d)
    BY <1>0, <2>1 DEF EnterKernel, Runs
  <2>3. QED
    BY <2>2, ThreadsStay
<1>7. CASE CleanDetached(c) \/ RemoveZombie(c)
  <2>1. \A d \in Task : Runs(d)' <=> Runs(d)
    BY <1>7, WaitersWait DEF CleanDetached, RemoveZombie, Runs
  <2>2. QED
    BY <2>1, ThreadsStay
<1>8. CASE \/ CleanToZombie(c) \/ LinkZombie(c) \/ CreateAlloc(c) \/ SyncFind(c)
           \/ ReapFind(c)
  <2>1. \A d \in Task : Runs(d)' <=> Runs(d)
    BY <1>0, <1>8 DEF CleanToZombie, LinkZombie, CreateAlloc, SyncFind, ReapFind, Runs,
       InHandler
  <2>2. QED
    BY <2>1, ThreadsStay
<1>9. QED
  BY <1>1, <1>2, <1>3, <1>4, <1>5, <1>6, <1>7, <1>8 DEF RunsOn, QuietStep

(* ... and of those, the ones in which nothing happens to a program or an  *)
(* object.                                                                 *)
Unnoticed(c) ==
    \/ KillNotFound(c) \/ SyncNotFound(c) \/ SyncFlag(c) \/ FlagInvalid(c)
    \/ FlagBlock(c) \/ FlagTaken(c) \/ FlagTimeout(c) \/ ReapNotFound(c)
    \/ RemoveNothing(c) \/ ThreadFail(c) \/ OutOfMemory(c) \/ ThreadKillInvalid(c)
    \/ UnlinkNotFound(c) \/ TaskExit(c) \/ GetPid(c)
    \/ PidCall(c) \/ ThreadCall(c) \/ PlainCall(c) \/ ReapCall(c) \/ CleanedUp(c)
    \/ CreateAlloc(c) \/ KillLink(c) \/ ExitLink(c) \/ SyncFind(c) \/ ReapFind(c)
    \/ ThreadClear(c)

LEMMA UnnoticedStutters ==
    ASSUME Inv, NEW c \in Task, Unnoticed(c)
    PROVE  UNCHANGED Promised!vars
<1>0. list \in [Proc -> List] /\ TypeOK
  BY DEF Inv, TypeOK
<1>1. ThreadMap' = ThreadMap
  BY <1>0, RunsOnHolds DEF Unnoticed, RunsOn, QuietStep
<1>2. rstate' = rstate /\ rproc' = rproc /\ rtask' = rtask
  BY ObjectsStayHolds DEF Unnoticed, ObjectsStay
<1>3. status' = status
  <2>1. KernelStep(c) \/ ProgramStep(c)
    BY DEF Unnoticed, KernelStep, ProgramStep
  <2>2. pc[c] # "user" \/ PidCall(c) \/ ThreadCall(c) \/ PlainCall(c)
    BY DEF Unnoticed, KillNotFound, SyncNotFound, SyncFlag, FlagInvalid, FlagBlock,
       FlagTaken, FlagTimeout, ReapNotFound, RemoveNothing, ThreadFail, OutOfMemory,
       ThreadKillInvalid, UnlinkNotFound, TaskExit, GetPid, ReapCall, CleanedUp,
       CreateAlloc, KillLink, ExitLink, SyncFind, ReapFind, ThreadClear, InHandler
  <2>3. CASE PidCall(c) \/ ThreadCall(c) \/ PlainCall(c)
    BY <2>3 DEF PidCall, ThreadCall, PlainCall, EnterKernel, procVars
  <2>4. QED
    BY <2>1, <2>2, <2>3, StatusStep DEF Exit
<1>4. LifeMap' = LifeMap
  <2>1. CASE ListsStay(c)
    <3>1. list' = list
      BY <2>1, ListsStayHolds
    <3>2. \A q \in Proc : LifeOf(q)' = LifeOf(q)
      BY <3>1 DEF LifeOf
    <3>3. QED
      BY <3>2 DEF LifeMap
  <2>2. CASE CreateAlloc(c)
    <3>1. PICK q \in Proc : list[q] = "unborn" /\ list' = [list EXCEPT ![q] = "creating"]
      BY <2>2 DEF CreateAlloc
    <3>2. LifeOf(q) = "absent" /\ LifeOf(q)' = "absent"
      BY <1>0, <3>1, LifeTable DEF LifeOf
    <3>3. QED
      BY <1>0, <3>1, <3>2, LifeChanges DEF LifeMap
  <2>3. CASE KillLink(c) \/ ExitLink(c)
    <3>1. \A q \in Proc : list'[q] = list[q] \/ (list[q] = "moving" /\ list'[q] = "destroy")
      <4>1. pc[c] = "leaving" => list[c[1]] = "moving"
        BY DEF Inv, MutexInv
      <4>2. QED
        BY <1>0, <2>3, <4>1 DEF KillLink, ExitLink
    <3>2. \A q \in Proc : LifeOf(q)' = LifeOf(q)
      BY <3>1 DEF LifeOf
    <3>3. QED
      BY <3>2 DEF LifeMap
  <2>4. QED
    BY <2>1, <2>2, <2>3 DEF Unnoticed, ListsStay, QuietStep
<1>5. QED
  BY <1>1, <1>2, <1>3, <1>4, FatesStay DEF Promised!vars, LifeMap, ThreadMap, FateMap

(* The life of one program goes on, and its threads stay. *)
LEMMA CleanUpKeeps ==
    ASSUME Inv, ObjectInv, NEW c \in Task,
           CleanDetached(c) \/ CleanToZombie(c) \/ LinkZombie(c) \/ RemoveZombie(c)
    PROVE  UNCHANGED Promised!vars \/ \E q \in Proc : Promised!ProgramNext(q)
<1>0. /\ list \in [Proc -> List] /\ rstate \in [Res -> ResState] /\ TypeOK
      /\ \A q \in Proc : LifeMap[q] = LifeOf(q)
      /\ \A r \in Res : FateMap[r] = FateOf(r)
  BY DEF Inv, TypeOK, LifeMap, FateMap
<1>1. ThreadMap' = ThreadMap
  BY <1>0, RunsOnHolds DEF RunsOn
<1>2. status' = status /\ rproc' = rproc /\ rtask' = rtask
  BY DEF CleanDetached, CleanToZombie, LinkZombie, RemoveZombie, resVars
<1>3. ASSUME NEW q \in Proc, DestroyResources(q)
      PROVE  FateMap' = [r \in Res |-> IF FateOf(r) = "owned" /\ rproc[r] = q
                                       THEN "gone" ELSE FateOf(r)]
  <2>1. ASSUME NEW r \in Res
        PROVE  FateOf(r)' = IF FateOf(r) = "owned" /\ rproc[r] = q THEN "gone" ELSE FateOf(r)
    <3>1. rstate'[r] = IF rstate[r] = "listed" /\ rproc[r] = q THEN "gone" ELSE rstate[r]
      BY <1>3 DEF DestroyResources
    <3>2. FateOf(r) = "owned" <=> rstate[r] = "listed"
      BY <1>0, FateTable
    <3>3. rstate'[r] = "gone" => FateOf(r)' = "gone"
      BY DEF FateOf
    <3>4. rstate'[r] = rstate[r] => FateOf(r)' = FateOf(r)
      BY <1>2 DEF FateOf
    <3>5. QED
      BY <3>1, <3>2, <3>3, <3>4
  <2>2. QED
    BY <2>1 DEF FateMap
<1>4. CASE CleanDetached(c)
  <2>1. PICK q \in Proc : /\ list[q] = "destroy" /\ list' = [list EXCEPT ![q] = "freed"]
                          /\ DestroyResources(q)
    BY <1>4 DEF CleanDetached
  <2>2. LifeOf(q) = "ended" /\ LifeOf(q)' = "gone"
    BY <1>0, <2>1, LifeTable DEF LifeOf
  <2>3. LifeMap' = [LifeMap EXCEPT ![q] = "gone"]
    BY <1>0, <2>1, <2>2, LifeChanges
  <2>4. Promised!Forget(q)
    BY <1>0, <1>1, <1>2, <1>3, <2>1, <2>2, <2>3
    DEF Promised!Forget, Promised!Becomes, Promised!DestroysAll, LifeMap, ThreadMap, FateMap
  <2>5. QED
    BY <2>4 DEF Promised!ProgramNext
<1>5. CASE CleanToZombie(c)
  <2>1. PICK q \in Proc : /\ list[q] = "destroy" /\ list' = [list EXCEPT ![q] = "moving"]
                          /\ DestroyResources(q)
    BY <1>5 DEF CleanToZombie
  <2>2. LifeOf(q) = "ended" /\ LifeOf(q)' = "ended"
    BY <1>0, <2>1, LifeTable DEF LifeOf
  <2>3. LifeMap' = LifeMap
    BY <1>0, <2>1, <2>2, LifeChanges DEF LifeMap
  <2>4. Promised!CleanUp(q)
    BY <1>0, <1>1, <1>2, <1>3, <2>1, <2>2, <2>3
    DEF Promised!CleanUp, Promised!DestroysAll, LifeMap, ThreadMap, FateMap
  <2>5. QED
    BY <2>4 DEF Promised!ProgramNext
<1>6. CASE LinkZombie(c)
  <2>1. PICK q \in Proc : list[q] = "moving" /\ list' = [list EXCEPT ![q] = "zombie"]
    BY <1>6 DEF LinkZombie
  <2>2. LifeOf(q) = "ended" /\ LifeOf(q)' = "zombie"
    BY <1>0, <2>1, LifeTable DEF LifeOf
  <2>3. LifeMap' = [LifeMap EXCEPT ![q] = "zombie"]
    BY <1>0, <2>1, <2>2, LifeChanges
  <2>4. FateMap' = FateMap
    BY <1>2, <1>6, FatesStay DEF LinkZombie, resVars
  <2>5. \A r \in Res : ~ (FateOf(r) = "owned" /\ rproc[r] = q)
    BY <1>0, <1>6, <2>1, FateTable DEF LinkZombie, ObjectInv
  <2>6. Promised!Settle(q)
    BY <1>0, <1>1, <1>2, <2>2, <2>3, <2>4, <2>5
    DEF Promised!Settle, Promised!Becomes, Promised!objects, LifeMap, ThreadMap, FateMap
  <2>7. QED
    BY <2>6 DEF Promised!ProgramNext
<1>7. CASE RemoveZombie(c)
  <2>0. FateMap' = FateMap
    BY <1>2, <1>7, FatesStay DEF RemoveZombie, resVars
  <2>1. CASE call[c].obj \notin Proc
    <3>1. list' = list
      BY <1>0, <1>7, <2>1 DEF RemoveZombie
    <3>2. LifeMap' = LifeMap
      BY <3>1 DEF LifeMap, LifeOf
    <3>3. QED
      BY <1>1, <1>2, <2>0, <3>2 DEF Promised!vars, LifeMap, ThreadMap, FateMap
  <2>2. CASE call[c].obj \in Proc
    <3>1. PICK q \in Proc : list[q] = "zombie" /\ list' = [list EXCEPT ![q] = "freed"]
      BY <1>7, <2>2 DEF RemoveZombie
    <3>2. LifeOf(q) = "zombie" /\ LifeOf(q)' = "gone"
      BY <1>0, <3>1, LifeTable DEF LifeOf
    <3>3. LifeMap' = [LifeMap EXCEPT ![q] = "gone"]
      BY <1>0, <3>1, <3>2, LifeChanges
    <3>4. \A r \in Res : ~ (FateOf(r) = "owned" /\ rproc[r] = q)
      BY <1>0, <3>1, FateTable DEF ObjectInv
    <3>5. FateMap' = [r \in Res |-> IF FateOf(r) = "owned" /\ rproc[r] = q
                                    THEN "gone" ELSE FateOf(r)]
      BY <2>0, <3>4 DEF FateMap
    <3>6. Promised!Forget(q)
      BY <1>0, <1>1, <1>2, <3>2, <3>3, <3>5
      DEF Promised!Forget, Promised!Becomes, Promised!DestroysAll, LifeMap, ThreadMap, FateMap
    <3>7. QED
      BY <3>6 DEF Promised!ProgramNext
  <2>3. QED
    BY <2>1, <2>2
<1>8. QED
  BY <1>4, <1>5, <1>6, <1>7

LEMMA CreateKeeps ==
    ASSUME Inv, NEW c \in Task, NoPidLeft(c) \/ CreateFail(c) \/ CreateInsert(c)
    PROVE  \E q \in Proc : Promised!ProgramNext(q)
<1>0. /\ list \in [Proc -> List] /\ pc \in [Task -> PC] /\ TypeOK
      /\ \A q \in Proc : LifeMap[q] = LifeOf(q) /\ ThreadMap[q] = {i \in Tid : Runs(<<q, i>>)}
  BY DEF Inv, TypeOK, LifeMap, ThreadMap
<1>1. PICK q \in Proc : q = call[c].obj /\ list[q] = "creating"
  BY DEF NoPidLeft, CreateFail, CreateInsert, Inv, RunInv, Creating
<1>2. LifeOf(q) = "absent"
  BY <1>1, LifeTable
<1>3. status' = status /\ rproc' = rproc /\ rtask' = rtask /\ rstate' = rstate
  BY DEF NoPidLeft, CreateFail, CreateInsert, resVars
<1>4. CASE NoPidLeft(c) \/ CreateFail(c)
  <2>1. list' = [list EXCEPT ![q] = "freed"]
    BY <1>1, <1>4 DEF NoPidLeft, CreateFail
  <2>2. LifeOf(q)' = "gone"
    BY <1>0, <2>1 DEF LifeOf
  <2>3. LifeMap' = [LifeMap EXCEPT ![q] = "gone"]
    BY <1>0, <2>1, <2>2, LifeChanges
  <2>4. ThreadMap' = ThreadMap
    BY <1>0, <1>4, RunsOnHolds DEF RunsOn
  <2>5. Promised!NeverBegins(q)
    BY <1>0, <1>2, <1>3, <2>3, <2>4, FatesStay
    DEF Promised!NeverBegins, Promised!Becomes, Promised!objects, LifeMap, ThreadMap, FateMap
  <2>6. QED
    BY <2>5 DEF Promised!ProgramNext
<1>5. CASE CreateInsert(c)
  <2>1. /\ list' = [list EXCEPT ![q] = "active"]
        /\ pc' = [pc EXCEPT ![c] = "user", ![<<q, 0>>] = "user"]
        /\ pc[c] = "numbered"
    BY <1>1, <1>5 DEF CreateInsert
  <2>2. LifeOf(q)' = "running"
    BY <1>0, <2>1 DEF LifeOf
  <2>3. LifeMap' = [LifeMap EXCEPT ![q] = "running"]
    BY <1>0, <2>1, <2>2, LifeChanges
  <2>4. \A d \in Task : d[1] = q => pc[d] = "none"
    BY <1>1 DEF Inv, RunInv, RunsOnlyWhileActive, Ended
  <2>5. 0 \in Tid /\ \A i \in Tid : <<q, i>> \in Task /\ <<q, i>> # c
    BY <2>1, <2>4, ThreadsAssumption DEF Tid, Task
  <2>6. \A i \in Tid : Runs(<<q, i>>)' <=> i \in {0}
    BY <1>0, <2>1, <2>4, <2>5 DEF Runs
  <2>7. \A d \in Task : d[1] # q => (Runs(d)' <=> Runs(d))
    BY <1>0, <2>1 DEF Runs
  <2>8. ThreadMap' = [ThreadMap EXCEPT ![q] = {0}]
    BY <2>5, <2>6, <2>7, ThreadsChange
  <2>9. Promised!Begin(q)
    BY <1>0, <1>2, <1>3, <2>3, <2>8, FatesStay
    DEF Promised!Begin, Promised!Becomes, Promised!objects, LifeMap, ThreadMap, FateMap
  <2>10. QED
    BY <2>9 DEF Promised!ProgramNext
<1>6. QED
  BY <1>4, <1>5

(* What a deleted task was working on is lost. *)
LEMMA FatesLost ==
    ASSUME HeldInv, NEW gone \in SUBSET Task, rstate' = rstate,
           \A r \in Res : rtask'[r] = IF rtask[r] \in gone THEN Free ELSE rtask[r]
    PROVE  FateMap' = [r \in Res |-> IF rtask[r] \in gone THEN "lost" ELSE FateOf(r)]
<1>1. ASSUME NEW r \in Res
      PROVE  FateOf(r)' = IF rtask[r] \in gone THEN "lost" ELSE FateOf(r)
  <2>1. CASE rtask[r] \in gone
    <3>1. rstate[r] \in {"made", "unlinked"}
      BY <2>1, TaskIsNotFree DEF HeldInv
    <3>2. rtask'[r] = Free /\ rstate'[r] = rstate[r]
      BY <2>1
    <3>3. FateOf(r)' = "lost"
      BY <3>1, <3>2 DEF FateOf
    <3>4. QED
      BY <2>1, <3>3
  <2>2. CASE rtask[r] \notin gone
    <3>1. rtask'[r] = rtask[r]
      BY <2>2
    <3>2. FateOf(r)' = FateOf(r)
      BY <3>1 DEF FateOf
    <3>3. QED
      BY <2>2, <3>2
  <2>3. QED
    BY <2>1, <2>2
<1>2. QED
  BY <1>1 DEF FateMap

(* A killed program, and one whose main thread calls exit(), stop at once, *)
(* and what their threads were working on is lost.                         *)
LEMMA EndKeeps ==
    ASSUME Inv, HeldInv, NEW c \in Task, KillUnlink(c) \/ ExitUnlink(c)
    PROVE  \E q \in Proc : Promised!ProgramNext(q)
<1>0. /\ list \in [Proc -> List] /\ rstate \in [Res -> ResState]
      /\ \A q \in Proc : LifeMap[q] = LifeOf(q)
      /\ \A r \in Res : FateMap[r] = FateOf(r)
  BY DEF Inv, TypeOK, LifeMap, FateMap
<1>0a. \A q \in Proc : /\ TasksOf(q) \in SUBSET Task /\ ThreadsOf(q) \in SUBSET Task
                     /\ WaitersFor(q, 0) \in SUBSET Task
  BY DEF TasksOf, ThreadsOf, WaitersFor, WaitersOf
<1>1. PICK q \in Proc, gone \in SUBSET Task, woken \in SUBSET Task, at \in {"moving", "leaving"} :
        /\ list[q] = "active" /\ list' = [list EXCEPT ![q] = "moving"]
        /\ Moves(gone, woken, c, at) /\ ForgottenBy(gone)
        /\ woken \subseteq {d \in Task : pc[d] = "waiting"}
        /\ gone \subseteq TasksOf(q) /\ (\A d \in TasksOf(q) \ gone : d = c /\ at = "leaving")
        /\ c \in TasksOf(q) \/ (at = "moving" /\ Runs(c))
        /\ c \notin gone /\ pc[c] \in {"handler", "ending"}
  <2>1. CASE KillUnlink(c)
    <3>1. PICK q \in Proc : /\ list[q] = "active" /\ list' = [list EXCEPT ![q] = "moving"]
                            /\ q # c[1]
                            /\ Moves(TasksOf(q), WaitersFor(q, 0), c, "moving")
                            /\ ForgottenBy(TasksOf(q))
      BY <2>1 DEF KillUnlink, WithPid
    <3>2. Runs(c) /\ pc[c] = "handler" /\ c \notin TasksOf(q)
      BY <2>1, <3>1 DEF KillUnlink, InHandler, Runs, TasksOf
    <3>3. QED
      BY <3>1, <3>2, WaitersWait, <1>0a
  <2>2. CASE ExitUnlink(c)
    <3>1. PICK q \in Proc : q = c[1]
      BY TaskIsNotFree
    <3>2. list[q] = "active"
      BY <2>2, <3>1 DEF ExitUnlink, Inv, RunInv, RunsOnlyWhileActive
    <3>3. /\ list' = [list EXCEPT ![q] = "moving"]
          /\ Moves(ThreadsOf(q), WaitersFor(q, 0), c, "leaving")
          /\ ForgottenBy(ThreadsOf(q)) /\ c[2] = 0 /\ pc[c] = "ending"
      BY <2>2, <3>1 DEF ExitUnlink
    <3>4. \A d \in TasksOf(q) \ ThreadsOf(q) : d = c
      BY <3>1, <3>3 DEF TasksOf, ThreadsOf, Task
    <3>5. ThreadsOf(q) \subseteq TasksOf(q) /\ c \in TasksOf(q) /\ c \notin ThreadsOf(q)
      BY <3>1, <3>3 DEF TasksOf, ThreadsOf
    <3>6. QED
      BY <3>2, <3>3, <3>4, <3>5, WaitersWait, <1>0a
  <2>3. QED
    BY <2>1, <2>2
<1>2. status' = status /\ rproc' = rproc /\ rstate' = rstate
  BY <1>1 DEF KillUnlink, ExitUnlink, ForgottenBy
<1>3. LifeOf(q) = "running" /\ LifeOf(q)' = "ended"
  BY <1>0, <1>1, LifeTable DEF LifeOf
<1>4. LifeMap' = [LifeMap EXCEPT ![q] = "ended"]
  BY <1>0, <1>1, <1>3, LifeChanges
<1>5. ThreadMap' = [ThreadMap EXCEPT ![q] = {}]
  <2>1. ASSUME NEW d \in Task, d[1] # q PROVE Runs(d)' <=> Runs(d)
    <3>1. d \notin gone /\ (d = c => at = "moving" /\ Runs(c))
      BY <1>1, <2>1 DEF TasksOf
    <3>2. QED
      BY <1>1, <3>1, MovesRuns
  <2>2. ASSUME NEW i \in Tid PROVE ~ Runs(<<q, i>>)'
    <3>1. <<q, i>> \in TasksOf(q)
      BY DEF TasksOf, Task
    <3>2. PICK d \in Task : d = <<q, i>>
      BY DEF Task
    <3>3. d \in gone \/ (d = c /\ at = "leaving")
      BY <1>1, <3>1, <3>2
    <3>4. ~ Runs(d)'
      BY <1>1, <3>3, MovesRuns
    <3>5. QED
      BY <3>2, <3>4
  <2>3. QED
    BY <2>1, <2>2, ThreadsChange
<1>6. \A r \in Res : rtask[r] \in {q} \X Tid <=> rtask[r] \in gone
  <2>1. \A r \in Res : rtask[r] # c
    BY <1>1, TaskIsNotFree DEF HeldInv
  <2>2. {q} \X Tid = TasksOf(q)
    BY DEF TasksOf, Task
  <2>3. QED
    BY <1>1, <2>1, <2>2
<1>7. \A r \in Res : rtask'[r] = IF rtask[r] \in {q} \X Tid THEN Free ELSE rtask[r]
  BY <1>1, <1>6 DEF ForgottenBy
<1>8. rtask' = [r \in Res |-> IF rtask[r] \in {q} \X Tid THEN Free ELSE rtask[r]]
  BY <1>1, <1>6 DEF ForgottenBy
<1>9. FateMap' = [r \in Res |-> IF rtask[r] \in {q} \X Tid THEN "lost" ELSE FateOf(r)]
  <2>1. {q} \X Tid \in SUBSET Task
    BY DEF Task
  <2>2. QED
    BY <1>2, <1>7, <2>1, FatesLost
<1>10. Promised!End(q)
  BY <1>0, <1>2, <1>3, <1>4, <1>5, <1>8, <1>9
  DEF Promised!End, Promised!Becomes, Promised!Loses, LifeMap, ThreadMap, FateMap
<1>11. QED
  BY <1>10 DEF Promised!ProgramNext

(* A program goes on without the threads that were deleted or returned. *)
LEMMA StopKeeps ==
    ASSUME Inv, HeldInv, NEW c \in Task,
           KillSelf(c) \/ ExitInThread(c) \/ ThreadKill(c) \/ ThreadKillSelf(c) \/ ThreadReturn(c)
    PROVE  \E p \in Proc : Promised!ProgramNext(p)
<1>0. /\ \A q \in Proc : ThreadMap[q] = {i \in Tid : Runs(<<q, i>>)}
      /\ \A r \in Res : FateMap[r] = FateOf(r)
      /\ rtask \in [Res -> Task \union {Free}] /\ c # Free
  BY TaskIsNotFree DEF Inv, TypeOK, ThreadMap, FateMap
<1>1. PICK p \in Proc : p = c[1]
  BY TaskIsNotFree
<1>2. PICK S \in SUBSET Tid :
        /\ \A d \in Task : Runs(d)' <=> Runs(d) /\ d \notin {p} \X S
        /\ rtask' = [r \in Res |-> IF rtask[r] \in {p} \X S THEN Free ELSE rtask[r]]
  <2>1. CASE ThreadKillSelf(c) \/ ThreadReturn(c)
    <3>1. PICK gone, woken, at :
            /\ Moves(gone, woken, c, at) /\ at = "none" /\ gone \subseteq {c}
            /\ woken \subseteq {d \in Task : pc[d] = "waiting"}
      BY <2>1, WaitersWait DEF ThreadKillSelf, ThreadReturn, Goes
    <3>2. pc[c] \in {"handler", "user"} /\ rtask' = rtask
      BY <2>1 DEF ThreadKillSelf, ThreadReturn, InHandler, resVars
    <3>3. \A r \in Res : rtask[r] # c
      BY <1>0, <3>2 DEF HeldInv
    <3>4. \A d \in Task : d \in {p} \X {c[2]} <=> d = c
      BY <1>1 DEF Task
    <3>5. c[2] \in Tid /\ Runs(c)
      BY <3>2, TaskIsNotFree DEF Runs
    <3>6. ASSUME NEW d \in Task PROVE Runs(d)' <=> Runs(d) /\ d # c
      <4>0. Moves(gone, woken, c, at) /\ woken \subseteq {e \in Task : pc[e] = "waiting"}
        BY <3>1
      <4>1. Runs(d)' <=> /\ d \notin gone
                         /\ IF d = c THEN at \notin {"none", "leaving", "exiting"} ELSE Runs(d)
        BY <4>0, MovesRuns
      <4>2. at \in {"none", "leaving", "exiting"} /\ (d \in gone => d = c)
        BY <3>1
      <4>3. QED
        BY <4>1, <4>2
    <3>7. \A r \in Res : rtask[r] \notin {p} \X {c[2]}
      <4>1. {p} \X {c[2]} \subseteq Task
        BY <3>5 DEF Task
      <4>2. QED
        BY <3>3, <3>4, <4>1
    <3>8. rtask' = [r \in Res |-> IF rtask[r] \in {p} \X {c[2]} THEN Free ELSE rtask[r]]
      BY <1>0, <3>2, <3>7
    <3>9. {c[2]} \in SUBSET Tid /\ \A d \in Task : Runs(d)' <=> Runs(d) /\ d \notin {p} \X {c[2]}
      BY <3>4, <3>5, <3>6
    <3>10. QED
      BY <3>8, <3>9
  <2>2. CASE KillSelf(c) \/ ExitInThread(c) \/ ThreadKill(c)
    <3>1. PICK gone, woken, at :
            /\ Moves(gone, woken, c, at) /\ ForgottenBy(gone)
            /\ woken \subseteq {d \in Task : pc[d] = "waiting"}
            /\ gone \in SUBSET TasksOf(p) /\ pc[c] \in {"handler", "ending"}
            /\ c \in gone \/ at = "user"
      <4>1. CASE KillSelf(c) \/ ExitInThread(c)
        <5>1. PICK first \in {0, 1} : DeletesItself(c, first) /\ first <= c[2]
          <6>1. c[2] \in Nat
            BY TaskIsNotFree DEF Tid
          <6>2. QED
            BY <4>1, <6>1 DEF KillSelf, ExitInThread
        <5>2. DEFINE gone == {d \in TasksOf(c[1]) : first <= d[2] /\ d[2] <= c[2]}
        <5>3. c \in gone
          BY <5>1, TaskIsNotFree DEF TasksOf, Tid
        <5>4. QED
          BY <1>1, <4>1, <5>1, <5>3, WaitersWait
          DEF DeletesItself, KillSelf, ExitInThread, InHandler
      <4>2. CASE ThreadKill(c)
        <5>1. PICK t \in Task : /\ t \in TasksOf(p)
                                /\ Moves({t}, WaitersFor(c[1], call[c].arg) \ {t}, c, "user")
                                /\ ForgottenBy({t}) /\ pc[c] = "handler"
          BY <1>1, <4>2 DEF ThreadKill, InHandler, TasksOf, Task
        <5>2. QED
          BY <5>1, WaitersWait
      <4>3. QED
        BY <2>2, <4>1, <4>2
    <3>2. ASSUME NEW d \in Task PROVE Runs(d)' <=> Runs(d) /\ d \notin gone
      <4>1. Runs(c)
        BY <3>1 DEF Runs
      <4>2. CASE d = c
        BY <3>1, <4>1, <4>2, MovesRuns
      <4>3. CASE d # c
        BY <3>1, <4>3, MovesRuns
      <4>4. QED
        BY <4>2, <4>3
    <3>3. PICK S \in SUBSET Tid : S = {i \in Tid : <<p, i>> \in gone}
      OBVIOUS
    <3>4. \A d \in Task : d \in {p} \X S <=> d \in gone
      BY <3>1, <3>3 DEF TasksOf, Task
    <3>5. {p} \X S \subseteq Task /\ gone \subseteq Task
      BY <3>1 DEF TasksOf, Task
    <3>6. {p} \X S = gone
      BY <3>4, <3>5
    <3>7. QED
      BY <3>1, <3>2, <3>6 DEF ForgottenBy
  <2>3. QED
    BY <2>1, <2>2
<1>3. /\ status' = status /\ rproc' = rproc /\ rstate' = rstate /\ list' = list
  BY DEF KillSelf, ExitInThread, DeletesItself, ThreadKill, ThreadKillSelf, ThreadReturn,
     ForgottenBy, procVars, resVars
<1>4. PICK T \in SUBSET Tid : T = {i \in S : Runs(<<p, i>>)}
  BY <1>2
<1>5. T \subseteq ThreadMap[p]
  BY <1>0, <1>4
<1>6. ThreadMap' = [ThreadMap EXCEPT ![p] = @ \ T]
  <2>1. \A i \in Tid : <<p, i>> \in Task /\ (<<p, i>> \in {p} \X S <=> i \in S)
    BY DEF Task
  <2>2. \A i \in Tid : Runs(<<p, i>>)' <=> i \in ThreadMap[p] \ T
    BY <1>0, <1>2, <1>4, <2>1
  <2>3. \A d \in Task : d[1] # p => (Runs(d)' <=> Runs(d))
    BY <1>2
  <2>4. ThreadMap[p] \ T \in SUBSET Tid
    BY <1>0
  <2>5. ThreadMap' = [ThreadMap EXCEPT ![p] = ThreadMap[p] \ T]
    BY <2>2, <2>3, <2>4, ThreadsChange
  <2>6. QED
    BY <2>5
<1>7. \A r \in Res : rtask[r] \in {p} \X S <=> rtask[r] \in {p} \X T
  <2>1. SUFFICES ASSUME NEW r \in Res, rtask[r] \in {p} \X S PROVE rtask[r] \in {p} \X T
    BY <1>4
  <2>2. PICK i \in S : rtask[r] = <<p, i>>
    BY <2>1
  <2>3. rtask[r] # Free
    BY ProcAssumption, <2>2 DEF Free
  <2>4. Runs(<<p, i>>)
    BY <2>2, <2>3 DEF HeldInv, Runs
  <2>5. QED
    BY <1>4, <2>2, <2>4
<1>8. rtask' = [r \in Res |-> IF rtask[r] \in {p} \X T THEN Free ELSE rtask[r]]
  BY <1>2, <1>7
<1>9. FateMap' = [r \in Res |-> IF rtask[r] \in {p} \X T THEN "lost" ELSE FateOf(r)]
  <2>1. {p} \X T \in SUBSET Task
    BY DEF Task
  <2>2. \A r \in Res : rtask'[r] = IF rtask[r] \in {p} \X T THEN Free ELSE rtask[r]
    BY <1>8
  <2>3. QED
    BY <1>3, <2>1, <2>2, FatesLost
<1>10. LifeMap' = LifeMap
  BY <1>3 DEF LifeMap, LifeOf
<1>11. Promised!StopThreads(p, T)
  BY <1>0, <1>3, <1>5, <1>6, <1>8, <1>9, <1>10
  DEF Promised!StopThreads, Promised!Loses, LifeMap, ThreadMap, FateMap
<1>12. QED
  BY <1>11 DEF Promised!ProgramNext

(* A thread starts, or calls exit(). *)
LEMMA ThreadKeeps ==
    ASSUME Inv, NEW c \in Task, ThreadCreate(c) \/ Exit(c)
    PROVE  \E p \in Proc : Promised!ProgramNext(p)
<1>0. /\ \A q \in Proc : ThreadMap[q] = {i \in Tid : Runs(<<q, i>>)}
      /\ pc \in [Task -> PC] /\ status \in [Proc -> Status \union {NoStatus}] /\ TypeOK
  BY DEF Inv, TypeOK, ThreadMap
<1>1. PICK p \in Proc, k \in Tid : c = <<p, k>>
  BY DEF Task
<1>2. pc[c] \in {"handler", "user"}
  BY DEF ThreadCreate, Exit, InHandler
<1>3. ThreadMap[p] # {}
  BY <1>0, <1>1, <1>2 DEF Runs
<1>4. list' = list /\ rstate' = rstate /\ rproc' = rproc /\ rtask' = rtask
  BY DEF ThreadCreate, Exit, procVars, resVars
<1>5. LifeMap' = LifeMap /\ FateMap' = FateMap
  BY <1>4, FatesStay DEF LifeMap, LifeOf
<1>6. CASE ThreadCreate(c)
  <2>1. PICK i \in Tid \ {0} :
          /\ pc[<<p, i>>] = "none"
          /\ pc' = [pc EXCEPT ![c] = "starting", ![<<p, i>>] = "user"]
    BY <1>1, <1>6 DEF ThreadCreate
  <2>2. \A j \in Tid : <<p, j>> \in Task
    BY DEF Task
  <2>3. \A d \in Task : Runs(d)' <=> Runs(d) \/ d = <<p, i>>
    BY <1>0, <1>2, <2>1, <2>2 DEF Runs
  <2>4. \A d \in Task : d[1] # p => (Runs(d)' <=> Runs(d))
    BY <2>3
  <2>5. \A j \in Tid : Runs(<<p, j>>)' <=> j \in ThreadMap[p] \union {i}
    BY <1>0, <2>2, <2>3
  <2>6. ThreadMap[p] \union {i} \in SUBSET Tid
    BY <1>0
  <2>7. ThreadMap' = [ThreadMap EXCEPT ![p] = ThreadMap[p] \union {i}]
    BY <2>4, <2>5, <2>6, ThreadsChange
  <2>8. i \notin ThreadMap[p]
    BY <1>0, <2>1 DEF Runs
  <2>9. status' = status
    BY <1>6 DEF ThreadCreate, procVars
  <2>10. Promised!StartThread(p, i)
    BY <1>3, <1>4, <1>5, <2>7, <2>8, <2>9
    DEF Promised!StartThread, Promised!objects, LifeMap, ThreadMap, FateMap
  <2>11. QED
    BY <2>10 DEF Promised!ProgramNext
<1>7. CASE Exit(c)
  <2>1. PICK s \in Status : status' = [status EXCEPT ![p] = s]
    BY <1>1, <1>7 DEF Exit
  <2>2. ThreadMap' = ThreadMap
    BY <1>0, <1>7, RunsOnHolds DEF RunsOn, QuietStep
  <2>3. Promised!SetStatus(p, s)
    BY <1>3, <1>4, <1>5, <2>1, <2>2
    DEF Promised!SetStatus, Promised!objects, LifeMap, ThreadMap, FateMap
  <2>4. QED
    BY <2>3 DEF Promised!ProgramNext
<1>8. QED
  BY <1>6, <1>7

(* A task makes an object, hands it to its program, takes it back or       *)
(* destroys it.                                                            *)
LEMMA ObjectKeeps ==
    ASSUME Inv, HeldInv, NEW c \in Task,
           ObjectCreate(c) \/ Register(c) \/ Unlink(c) \/ ObjectDestroy(c)
    PROVE  \E d \in Task, r \in Res : Promised!ObjectNext(d, r)
<1>0. /\ \A q \in Proc : ThreadMap[q] = {i \in Tid : Runs(<<q, i>>)}
      /\ \A r \in Res : FateMap[r] = FateOf(r)
      /\ rstate \in [Res -> ResState] /\ rtask \in [Res -> Task \union {Free}]
      /\ TypeOK /\ c # Free
  BY TaskIsNotFree DEF Inv, TypeOK, ThreadMap, FateMap
<1>1. c[1] \in Proc /\ c[2] \in Tid /\ c = <<c[1], c[2]>>
  BY DEF Task
<1>2. pc[c] \in {"handler", "holding", "unlinked"}
  BY DEF ObjectCreate, Register, Unlink, ObjectDestroy, InHandler
<1>3. c[2] \in ThreadMap[c[1]]
  BY <1>0, <1>1, <1>2 DEF Runs
<1>4. list' = list /\ status' = status
  BY DEF ObjectCreate, Register, Unlink, ObjectDestroy, procVars
<1>5. LifeMap' = LifeMap /\ ThreadMap' = ThreadMap
  BY <1>0, <1>4, RunsOnHolds DEF LifeMap, LifeOf, RunsOn, QuietStep
<1>6. CASE ObjectCreate(c)
  <2>1. PICK r \in Res : /\ rstate[r] = "none" /\ rstate' = [rstate EXCEPT ![r] = "made"]
                         /\ rproc' = [rproc EXCEPT ![r] = c[1]]
                         /\ rtask' = [rtask EXCEPT ![r] = c]
    BY <1>6 DEF ObjectCreate
  <2>2. /\ FateMap' = [FateMap EXCEPT ![r] = FateOf(r)']
        /\ rstate'[r] = "made" /\ rtask'[r] = c
    BY <1>0, <2>1, FateChanges
  <2>3. FateOf(r) = "new" /\ FateOf(r)' = "made"
    BY <1>0, <2>1, <2>2, FateTable DEF FateOf
  <2>4. Promised!Make(c, r)
    BY <1>0, <1>3, <1>4, <1>5, <2>1, <2>2, <2>3
    DEF Promised!Make, LifeMap, ThreadMap, FateMap
  <2>5. QED
    BY <2>4 DEF Promised!ObjectNext
<1>7. CASE Register(c)
  <2>1. PICK r \in Res : /\ rtask[r] = c /\ rstate' = [rstate EXCEPT ![r] = "listed"]
                         /\ rtask' = [rtask EXCEPT ![r] = Free] /\ rproc' = rproc
    BY <1>7 DEF Register
  <2>2. /\ FateMap' = [FateMap EXCEPT ![r] = FateOf(r)']
        /\ rstate'[r] = "listed" /\ rtask'[r] = Free
    BY <1>0, <2>1, FateChanges
  <2>3. rstate[r] = "made"
    BY <1>0, <1>7, <2>1 DEF HeldInv, Register
  <2>4. FateOf(r) = "made" /\ FateOf(r)' = "owned"
    BY <1>0, <2>1, <2>2, <2>3, FateTable DEF FateOf
  <2>5. Promised!Own(c, r)
    BY <1>0, <1>3, <1>4, <1>5, <2>1, <2>2, <2>4
    DEF Promised!Own, Promised!Holds, LifeMap, ThreadMap, FateMap
  <2>6. QED
    BY <2>5 DEF Promised!ObjectNext
<1>8. CASE Unlink(c)
  <2>1. PICK r \in Res : /\ rstate[r] = "listed" /\ rproc[r] = c[1]
                         /\ rstate' = [rstate EXCEPT ![r] = "unlinked"]
                         /\ rtask' = [rtask EXCEPT ![r] = c] /\ rproc' = rproc
    BY <1>8 DEF Unlink, OnListOf
  <2>2. /\ FateMap' = [FateMap EXCEPT ![r] = FateOf(r)']
        /\ rstate'[r] = "unlinked" /\ rtask'[r] = c
    BY <1>0, <2>1, FateChanges
  <2>3. FateOf(r) = "owned" /\ FateOf(r)' = "taken"
    BY <1>0, <2>1, <2>2, FateTable DEF FateOf
  <2>4. Promised!Take(c, r)
    BY <1>0, <1>3, <1>4, <1>5, <2>1, <2>2, <2>3
    DEF Promised!Take, LifeMap, ThreadMap, FateMap
  <2>5. QED
    BY <2>4 DEF Promised!ObjectNext
<1>9. CASE ObjectDestroy(c)
  <2>1. PICK r \in Res : /\ rtask[r] = c /\ rstate' = [rstate EXCEPT ![r] = "gone"]
                         /\ rtask' = [rtask EXCEPT ![r] = Free] /\ rproc' = rproc
    BY <1>9 DEF ObjectDestroy
  <2>2. /\ FateMap' = [FateMap EXCEPT ![r] = FateOf(r)']
        /\ rstate'[r] = "gone" /\ rtask'[r] = Free
    BY <1>0, <2>1, FateChanges
  <2>3. rstate[r] = "unlinked"
    BY <1>0, <1>9, <2>1 DEF HeldInv, ObjectDestroy
  <2>4. FateOf(r) = "taken" /\ FateOf(r)' = "gone"
    BY <1>0, <2>1, <2>2, <2>3, FateTable DEF FateOf
  <2>5. Promised!Destroy(c, r)
    BY <1>0, <1>3, <1>4, <1>5, <2>1, <2>2, <2>4
    DEF Promised!Destroy, Promised!Holds, LifeMap, ThreadMap, FateMap
  <2>6. QED
    BY <2>5 DEF Promised!ObjectNext
<1>10. QED
  BY <1>6, <1>7, <1>8, <1>9

LEMMA LifecycleStep ==
    ASSUME Inv, ObjectInv, HeldInv, [Next]_vars
    PROVE  [Promised!Next]_(Promised!vars)
<1>1. CASE UNCHANGED vars
  BY <1>1 DEF vars, Promised!vars, LifeOf, Runs, FateOf
<1>2. SUFFICES ASSUME NEW c \in Task, KernelStep(c) \/ ProgramStep(c)
               PROVE  [Promised!Next]_(Promised!vars)
  BY <1>1 DEF Next
<1>3. ASSUME \E p \in Proc : Promised!ProgramNext(p) PROVE Promised!Next
  BY <1>3 DEF Promised!Next
<1>4. ASSUME \E d \in Task, r \in Res : Promised!ObjectNext(d, r) PROVE Promised!Next
  BY <1>4 DEF Promised!Next, Promised!Thread, Task
<1>5. CASE Unnoticed(c)
  BY <1>5, UnnoticedStutters
<1>6. CASE CleanDetached(c) \/ CleanToZombie(c) \/ LinkZombie(c) \/ RemoveZombie(c)
  BY <1>3, <1>6, CleanUpKeeps
<1>7. CASE NoPidLeft(c) \/ CreateFail(c) \/ CreateInsert(c)
  BY <1>3, <1>7, CreateKeeps
<1>8. CASE KillUnlink(c) \/ ExitUnlink(c)
  BY <1>3, <1>8, EndKeeps
<1>9. CASE \/ KillSelf(c) \/ ExitInThread(c) \/ ThreadKill(c) \/ ThreadKillSelf(c)
           \/ ThreadReturn(c)
  BY <1>3, <1>9, StopKeeps
<1>10. CASE ThreadCreate(c) \/ Exit(c)
  BY <1>3, <1>10, ThreadKeeps
<1>11. CASE ObjectCreate(c) \/ Register(c) \/ Unlink(c) \/ ObjectDestroy(c)
  BY <1>4, <1>11, ObjectKeeps
<1>12. QED
  BY <1>2, <1>5, <1>6, <1>7, <1>8, <1>9, <1>10, <1>11 DEF KernelStep, ProgramStep, Unnoticed

(* Whatever its tasks do and whoever deletes them, at whatever point, the  *)
(* process table keeps what Lifecycle promises: every critical section of  *)
(* process.c is one step in the life of a program or of an object, or goes *)
(* unnoticed.                                                              *)
THEOREM KeepsLifecycleHolds == Spec => KeepsLifecycle
<1>1. ASSUME Init PROVE Promised!Init
  <2>1. \A q \in Proc : LifeOf(q) = IF q = Initd THEN "running" ELSE "absent"
    BY <1>1 DEF Init, LifeOf
  <2>2. 0 \in Tid
    BY ThreadsAssumption DEF Tid
  <2>3. \A q \in Proc, i \in Tid : Runs(<<q, i>>) <=> q = Initd /\ i = 0
    BY <1>1 DEF Init, Runs, Task
  <2>4. \A q \in Proc : {i \in Tid : Runs(<<q, i>>)} = IF q = Initd THEN {0} ELSE {}
    BY <2>2, <2>3
  <2>5. \A r \in Res : FateOf(r) = "new"
    BY <1>1 DEF Init, FateOf
  <2>6. Initd \in Proc
    BY ProcAssumption
  <2>7. QED
    BY <1>1, <2>1, <2>4, <2>5, <2>6 DEF Init, Promised!Init, NoStatus
<1>2. Inv /\ ObjectInv /\ HeldInv /\ [Next]_vars => [Promised!Next]_(Promised!vars)
  BY LifecycleStep
<1>3. QED
  BY <1>1, <1>2, HeldInvariant, PTL DEF Spec, KeepsLifecycle, Promised!Spec

(* Every object that was made is in the hands of a thread that runs, or    *)
(* its program's, which the clean-up has not gone over yet, or it is lost  *)
(* or gone; and no thread of an ended program runs.                        *)
THEOREM NothingOrphanedHolds == Spec => []Promised!NothingOrphaned
<1>1. ASSUME Inv, ObjectInv, HeldInv PROVE Promised!NothingOrphaned
  <2>0. /\ \A q \in Proc : ThreadMap[q] = {i \in Tid : Runs(<<q, i>>)} /\ LifeMap[q] = LifeOf(q)
        /\ \A r \in Res : FateMap[r] = FateOf(r) /\ rstate[r] \in ResState
        /\ rtask \in [Res -> Task \union {Free}]
    BY <1>1 DEF Inv, TypeOK, ThreadMap, LifeMap, FateMap
  <2>1. ASSUME NEW p \in Proc, ThreadMap[p] # {} PROVE LifeMap[p] = "running"
    <3>1. PICK d \in Task : d[1] = p /\ Runs(d)
      BY <2>0, <2>1 DEF Task
    <3>2. list[p] = "active"
      BY <1>1, <3>1 DEF Inv, RunInv, RunsOnlyWhileActive, Runs
    <3>3. QED
      BY <2>0, <3>2, LifeTable
  <2>2. ASSUME NEW r \in Res, FateMap[r] \in {"made", "taken"}
        PROVE  \E c \in Task : rtask[r] = c /\ rproc[r] = c[1] /\ c[2] \in ThreadMap[c[1]]
    <3>1. rtask[r] # Free
      BY <2>0, <2>2, FateTable DEF ResState
    <3>2. PICK c \in Task : rtask[r] = c
      BY <2>0, <3>1
    <3>3. rproc[r] = c[1] /\ pc[c] \in {"holding", "unlinked"}
      BY <1>1, <3>1, <3>2 DEF ObjectInv, HeldInv
    <3>4. c[1] \in Proc /\ c[2] \in Tid /\ c = <<c[1], c[2]>>
      BY DEF Task
    <3>5. c[2] \in ThreadMap[c[1]]
      BY <2>0, <3>3, <3>4 DEF Runs
    <3>6. QED
      BY <3>2, <3>3, <3>5
  <2>3. ASSUME NEW r \in Res, FateMap[r] = "owned"
        PROVE  rproc[r] \in Proc /\ LifeMap[rproc[r]] \in {"running", "ended"}
    <3>1. rproc[r] \in Proc /\ list[rproc[r]] \in {"active", "moving", "destroy"}
      BY <1>1, <2>0, <2>3, FateTable DEF ObjectInv
    <3>2. QED
      BY <2>0, <3>1, LifeTable
  <2>4. QED
    BY <2>1, <2>2, <2>3
    DEF Promised!NothingOrphaned, Promised!Thread, Task, LifeMap, ThreadMap, FateMap
<1>2. QED
  BY <1>1, HeldInvariant, PTL

-----------------------------------------------------------------------------
(* RunningThreadNotJoined and JoinMeansEnded. *)

(* A step changes the call of another task only when it deletes it or has  *)
(* it go on in its program.                                                *)
LEMMA Elsewhere ==
    ASSUME Inv, NEW c \in Task, KernelStep(c) \/ ProgramStep(c), NEW d \in Task, d # c
    PROVE  \/ pc'[d] = pc[d] /\ call'[d] = call[d]
           \/ pc'[d] \in {"none", "user", "woken"}
<1>0. pc \in [Task -> PC] /\ call \in [Task -> Call]
  BY DEF Inv, TypeOK
<1>1. ASSUME NEW gone, NEW woken, NEW at, Moves(gone, woken, c, at)
      PROVE  \/ pc'[d] = pc[d] /\ call'[d] = call[d]
             \/ pc'[d] \in {"none", "user", "woken"}
  <2>1. CASE d \in gone
    BY <1>1, <2>1, MovesEach
  <2>2. CASE d \notin gone /\ d \in woken
    BY <1>1, <2>2, MovesEach
  <2>3. CASE d \notin gone /\ d \notin woken
    BY <1>1, <2>3, MovesEach
  <2>4. QED
    BY <2>1, <2>2, <2>3
<1>2. CASE \E at : Goes(c, at)
  BY <1>1, <1>2 DEF Goes
<1>3. CASE QuietStep(c)
  BY <1>2, <1>3, QuietGoes
<1>4. CASE PidCall(c) \/ ThreadCall(c) \/ PlainCall(c) \/ ReapCall(c)
  <2>1. \E new : EnterKernel(c, new)
    BY <1>4 DEF PidCall, ThreadCall, PlainCall, ReapCall
  <2>2. QED
    BY <1>0, <2>1 DEF EnterKernel
<1>5. CASE CleanDetached(c) \/ RemoveZombie(c)
  BY <1>5 DEF CleanDetached, RemoveZombie
<1>6. CASE CleanToZombie(c) \/ LinkZombie(c)
  BY <1>6 DEF CleanToZombie, LinkZombie
<1>7. CASE \/ CleanedUp(c) \/ NoPidLeft(c) \/ CreateFail(c) \/ KillLink(c) \/ ExitLink(c)
           \/ ThreadKillSelf(c) \/ ThreadClear(c)
  BY <1>2, <1>7 DEF CleanedUp, NoPidLeft, CreateFail, KillLink, ExitLink, ThreadKillSelf,
     ThreadClear
<1>8. CASE CreateAlloc(c) \/ SyncFind(c) \/ ReapFind(c)
  BY <1>0, <1>8 DEF CreateAlloc, SyncFind, ReapFind
<1>9. CASE Deletes(c) \/ ThreadReturn(c)
  <2>1. \E gone, woken, at : Moves(gone, woken, c, at)
    BY <1>9, DeletesObjects DEF ThreadReturn
  <2>2. QED
    BY <1>1, <2>1
<1>10. CASE CreateInsert(c) \/ ThreadCreate(c)
  BY <1>0, <1>10 DEF CreateInsert, ThreadCreate
<1>11. QED
  BY <1>3, <1>4, <1>5, <1>6, <1>7, <1>8, <1>9, <1>10
  DEF KernelStep, ProgramStep, QuietStep, Deletes

(* While a thread is being created its creator owns process_mtx, and goes  *)
(* on to clear the exit flag.                                              *)
LEMMA CreatorStays ==
    ASSUME Inv, NEW c \in Task, KernelStep(c) \/ ProgramStep(c),
           NEW e \in Task, pc[e] = "starting"
    PROVE  \/ c = e /\ ThreadClear(c)
           \/ pc'[e] = "starting" /\ call'[e] = call[e]
<1>1. mtx = e /\ e # Free
  BY TaskIsNotFree DEF Inv, MutexInv, Critical
<1>2. CASE c = e
  <2>1. ~ QuietStep(c)
    BY <1>2, QuietGoes DEF Critical
  <2>2. ~ Deletes(c)
    BY <1>2, DeletesObjects
  <2>3. ~ (PidCall(c) \/ ThreadCall(c) \/ PlainCall(c) \/ ReapCall(c) \/ ThreadReturn(c))
    BY <1>2 DEF PidCall, ThreadCall, PlainCall, ReapCall, ThreadReturn
  <2>4. ~ (\/ CleanDetached(c) \/ CleanToZombie(c) \/ LinkZombie(c) \/ CleanedUp(c)
           \/ CreateAlloc(c) \/ NoPidLeft(c) \/ CreateInsert(c) \/ CreateFail(c)
           \/ KillLink(c) \/ ExitLink(c))
    BY <1>2 DEF CleanDetached, CleanToZombie, LinkZombie, CleanedUp, CreateAlloc, NoPidLeft,
       CreateInsert, CreateFail, KillLink, ExitLink, InHandler
  <2>5. ~ (\/ SyncFind(c) \/ ReapFind(c) \/ RemoveZombie(c) \/ ThreadCreate(c)
           \/ ThreadKillSelf(c))
    BY <1>2 DEF SyncFind, ReapFind, RemoveZombie, ThreadCreate, ThreadKillSelf, InHandler
  <2>6. QED
    BY <1>2, <2>1, <2>2, <2>3, <2>4, <2>5 DEF KernelStep, ProgramStep, QuietStep, Deletes
<1>3. CASE c # e
  <2>1. ~ Deletes(c)
    BY <1>1 DEF Deletes, KillUnlink, ExitUnlink, KillSelf, ExitInThread, DeletesItself,
       ThreadKill
  <2>2. pc'[e] = "starting"
    BY <1>3, <2>1, OthersStay
  <2>3. QED
    BY <1>3, <2>2, Elsewhere
<1>4. QED
  BY <1>2, <1>3

LEMMA JoinStep ==
    ASSUME Inv, RunningThreadNotJoined, [Next]_vars
    PROVE  RunningThreadNotJoined'
<1>1. CASE UNCHANGED vars
  BY <1>1 DEF vars, RunningThreadNotJoined, BeingCreated
<1>2. SUFFICES ASSUME NEW c \in Task, KernelStep(c) \/ ProgramStep(c),
                      NEW d \in Task, d[2] # 0, pc'[d] # "none", ~ BeingCreated(d)'
               PROVE  d[2] \notin exitBit'[d[1]]
  BY <1>1 DEF Next, RunningThreadNotJoined
<1>3. CASE pc[d] = "none"
  BY <1>2, <1>3, Begins
<1>4. CASE pc[d] # "none" /\ ~ BeingCreated(d)
  BY <1>2, <1>4, ThreadBit DEF RunningThreadNotJoined
<1>5. CASE BeingCreated(d)
  <2>1. PICK e \in Task : e[1] = d[1] /\ pc[e] = "starting" /\ call[e].arg = d[2]
    BY <1>5 DEF BeingCreated, TasksOf
  <2>2. ~ (pc'[e] = "starting" /\ call'[e] = call[e])
    BY <1>2, <2>1 DEF BeingCreated, TasksOf
  <2>3. c = e /\ ThreadClear(c)
    BY <1>2, <2>1, <2>2, CreatorStays
  <2>4. exitBit' = ClearedBit(d[1], d[2])
    BY <2>1, <2>3 DEF ThreadClear
  <2>5. QED
    BY <2>4, TaskIsNotFree DEF ClearedBit, Inv, TypeOK
<1>6. QED
  BY <1>3, <1>4, <1>5

(* thread_join2 never takes the end of an earlier thread of a slot for the *)
(* end of the one that runs in it, once that one has been created          *)
(* (process.c: _process_thread_create clears the exit flag of the slot     *)
(* after the thread may run, and before it gives the mutex back).          *)
THEOREM RunningThreadNotJoinedHolds == Spec => []RunningThreadNotJoined
<1>1. Inv /\ RunningThreadNotJoined /\ [Next]_vars => RunningThreadNotJoined'
  BY JoinStep
<1>2. Init => RunningThreadNotJoined
  BY WaitInit
<1>3. QED
  BY <1>1, <1>2, Invariance, PTL DEF Spec

(* What brings a task where it has a new process, and where it has an      *)
(* event flag.                                                             *)
Flagged == {"flagread", "flagwait", "waiting"}

LEMMA Comes ==
    ASSUME Inv, NEW c \in Task, KernelStep(c) \/ ProgramStep(c),
           pc'[c] \in Flagged \union Creating
    PROVE  CreateAlloc(c) \/ GetPid(c) \/ SyncFind(c) \/ SyncFlag(c) \/ FlagBlock(c)
<1>0. pc \in [Task -> PC]
  BY DEF Inv, TypeOK
<1>1. ASSUME NEW gone, NEW woken, NEW at, Moves(gone, woken, c, at)
      PROVE  at \in Flagged \union Creating
  <2>1. c \notin gone
    BY <1>1, MovesEach DEF Flagged, Creating
  <2>2. pc'[c] = at
    BY <1>1, <2>1, MovesEach
  <2>3. QED
    BY <2>2
<1>2. ASSUME NEW at, Goes(c, at) PROVE at \in Flagged \union Creating
  BY <1>1, <1>2 DEF Goes
<1>3. CASE \/ KillNotFound(c) \/ SyncNotFound(c) \/ FlagInvalid(c)
           \/ FlagTaken(c) \/ FlagTimeout(c) \/ ReapNotFound(c)
           \/ RemoveNothing(c) \/ ThreadFail(c) \/ OutOfMemory(c) \/ ThreadKillInvalid(c)
  <2>1. \E at \in {"woken", "user"} : Goes(c, at)
    BY <1>3 DEF KillNotFound, SyncNotFound, FlagInvalid, FlagTaken, FlagTimeout,
       ReapNotFound, RemoveNothing, ThreadFail, OutOfMemory, ThreadKillInvalid, Released
  <2>2. QED
    BY <1>2, <2>1 DEF Flagged, Creating
<1>4. CASE \/ ObjectCreate(c) \/ Register(c) \/ Unlink(c) \/ UnlinkNotFound(c)
           \/ ObjectDestroy(c) \/ TaskExit(c) \/ Exit(c)
  <2>1. \E at \in {"holding", "user", "unlinked", "none", "ending"} : Goes(c, at)
    BY <1>4 DEF ObjectCreate, Register, Unlink, UnlinkNotFound, ObjectDestroy, TaskExit, Exit
  <2>2. QED
    BY <1>2, <2>1 DEF Flagged, Creating
<1>5. CASE PidCall(c) \/ ThreadCall(c) \/ PlainCall(c) \/ ReapCall(c)
  BY <1>0, <1>5 DEF PidCall, ThreadCall, PlainCall, ReapCall, EnterKernel, Flagged, Creating
<1>6. CASE CleanDetached(c) \/ RemoveZombie(c)
  BY <1>0, <1>6, WaitersWait DEF CleanDetached, RemoveZombie, Flagged, Creating
<1>7. CASE \/ CleanedUp(c) \/ NoPidLeft(c) \/ CreateFail(c) \/ KillLink(c) \/ ExitLink(c)
           \/ ThreadKillSelf(c) \/ ThreadClear(c)
  <2>1. \E at \in {"handler", "user", "woken", "exiting", "none"} : Goes(c, at)
    BY <1>7 DEF CleanedUp, NoPidLeft, CreateFail, KillLink, ExitLink, ThreadKillSelf,
       ThreadClear
  <2>2. QED
    BY <1>2, <2>1 DEF Flagged, Creating
<1>8. CASE ReapFind(c)
  BY <1>0, <1>8 DEF ReapFind, Flagged, Creating
<1>9. CASE Deletes(c) \/ ThreadReturn(c)
  <2>1. \E gone, woken, at : /\ Moves(gone, woken, c, at)
                             /\ at \in {"moving", "leaving", "none", "user"}
    BY <1>9, DeletesObjects DEF ThreadReturn
  <2>2. QED
    BY <1>1, <2>1 DEF Flagged, Creating
<1>10. CASE CreateInsert(c) \/ ThreadCreate(c)
  BY <1>0, <1>10 DEF CreateInsert, ThreadCreate, Flagged, Creating
<1>11. CASE CleanToZombie(c) \/ LinkZombie(c)
  BY <1>11 DEF CleanToZombie, LinkZombie, Flagged, Creating
<1>12. QED
  BY <1>3, <1>4, <1>5, <1>6, <1>7, <1>8, <1>9, <1>10, <1>11
  DEF KernelStep, ProgramStep, Deletes

(* A running process has its event flag, and a task that joins a thread    *)
(* has the flag of its own process.                                        *)
FlagInv ==
    /\ \A q \in Proc : list[q] = "active" => event[q]
    /\ \A c \in Task : pc[c] = "numbered" => event[call[c].obj]
    /\ \A c \in Task : pc[c] \in Flagged /\ call[c].op = "join" => call[c].obj = c[1]

(* The flag of a process is made when it gets its number, and deleted when *)
(* it is freed.                                                            *)
LEMMA EventStays ==
    ASSUME Inv, NEW c \in Task, KernelStep(c) \/ ProgramStep(c), NEW q \in Proc,
           event[q], ~ event'[q]
    PROVE  list'[q] = "freed"
<1>0. event \in [Proc -> BOOLEAN] /\ list \in [Proc -> List]
  BY DEF Inv, TypeOK
<1>1. CASE GetPid(c)
  BY <1>0, <1>1 DEF GetPid
<1>2. CASE QuietStep(c) /\ ~ GetPid(c)
  BY <1>2 DEF QuietStep, flagVars, KillNotFound, SyncNotFound, SyncFlag,
     FlagInvalid, FlagBlock, FlagTaken, FlagTimeout, ReapNotFound, RemoveNothing,
     ThreadFail, OutOfMemory, ThreadKillInvalid, ObjectCreate, Register, Unlink,
     UnlinkNotFound, ObjectDestroy, TaskExit, Exit
<1>3. CASE PidCall(c) \/ ThreadCall(c) \/ PlainCall(c) \/ ReapCall(c)
  BY <1>3 DEF PidCall, ThreadCall, PlainCall, ReapCall, EnterKernel, flagVars
<1>4. CASE CleanDetached(c) \/ CreateFail(c) \/ RemoveZombie(c)
  BY <1>0, <1>4 DEF CleanDetached, CreateFail, RemoveZombie
<1>5. CASE \/ CleanToZombie(c) \/ LinkZombie(c) \/ CleanedUp(c)
           \/ CreateAlloc(c) \/ NoPidLeft(c) \/ CreateInsert(c)
           \/ KillLink(c) \/ ExitLink(c) \/ SyncFind(c) \/ ReapFind(c)
  BY <1>5 DEF CleanToZombie, LinkZombie, CleanedUp, CreateAlloc, NoPidLeft,
     CreateInsert, KillLink, ExitLink, SyncFind, ReapFind, flagVars
<1>6. CASE \/ Deletes(c) \/ ThreadKillSelf(c) \/ ThreadReturn(c) \/ ThreadCreate(c)
           \/ ThreadClear(c)
  BY <1>6 DEF Deletes, KillUnlink, ExitUnlink, KillSelf, ExitInThread, DeletesItself,
     ThreadKill, ThreadKillSelf, ThreadReturn, ThreadCreate, ThreadClear, flagVars
<1>7. QED
  BY <1>1, <1>2, <1>3, <1>4, <1>5, <1>6 DEF KernelStep, ProgramStep, QuietStep, Deletes

LEMMA Inserted ==
    ASSUME Inv, NEW c \in Task, KernelStep(c) \/ ProgramStep(c), NEW q \in Proc,
           list[q] # "active", list'[q] = "active"
    PROVE  CreateInsert(c) /\ call[c].obj = q
<1>0. list \in [Proc -> List]
  BY DEF Inv, TypeOK
<1>1. CASE ListsStay(c)
  BY <1>1, ListsStayHolds
<1>2. CASE \/ CleanDetached(c) \/ CleanToZombie(c) \/ LinkZombie(c) \/ CreateAlloc(c)
           \/ NoPidLeft(c) \/ CreateFail(c) \/ KillUnlink(c) \/ KillLink(c)
           \/ ExitUnlink(c) \/ ExitLink(c) \/ RemoveZombie(c)
  BY <1>0, <1>2 DEF CleanDetached, CleanToZombie, LinkZombie, CreateAlloc,
     NoPidLeft, CreateFail, KillUnlink, KillLink, ExitUnlink, ExitLink, RemoveZombie
<1>3. CASE CreateInsert(c)
  BY <1>0, <1>3 DEF CreateInsert
<1>4. QED
  BY <1>1, <1>2, <1>3 DEF KernelStep, ProgramStep, ListsStay, QuietStep

LEMMA FlagStep ==
    ASSUME Inv, Inv', FlagInv, [Next]_vars
    PROVE  FlagInv'
<1>1. CASE UNCHANGED vars
  BY <1>1 DEF vars, FlagInv, Flagged
<1>2. SUFFICES ASSUME NEW c \in Task, KernelStep(c) \/ ProgramStep(c) PROVE FlagInv'
  BY <1>1 DEF Next
<1>0. /\ pc \in [Task -> PC] /\ call \in [Task -> Call] /\ list \in [Proc -> List]
      /\ event \in [Proc -> BOOLEAN] /\ event' \in [Proc -> BOOLEAN]
  BY DEF Inv, TypeOK
<1>3. ASSUME NEW d \in Task, pc'[d] = "numbered" PROVE event'[call'[d].obj]
  <2>1. call'[d].obj \in Proc /\ list'[call'[d].obj] = "creating"
    BY <1>3 DEF Inv, RunInv, Creating
  <2>2. CASE d = c
    <3>1. GetPid(c)
      <4>1. CreateAlloc(c) \/ GetPid(c) \/ SyncFind(c) \/ SyncFlag(c) \/ FlagBlock(c)
        BY <1>2, <1>3, <2>2, Comes DEF Creating
      <4>2. SyncFind(c) \/ CreateAlloc(c) => pc'[c] \in {"flagread", "allocated"}
        BY <1>0 DEF SyncFind, CreateAlloc
      <4>3. ASSUME NEW at, Goes(c, at) PROVE pc'[c] = at
        BY <4>3 DEF Goes, Moves
      <4>4. QED
        BY <1>3, <2>2, <4>1, <4>2, <4>3 DEF SyncFlag, FlagBlock
    <3>2. event' = [event EXCEPT ![call[c].obj] = TRUE] /\ Goes(c, "numbered")
      BY <3>1 DEF GetPid
    <3>3. call'[c] = call[c]
      BY <1>0, <3>2 DEF Goes, Moves
    <3>4. QED
      BY <1>0, <2>1, <2>2, <3>2, <3>3
  <2>3. CASE d # c
    <3>1. pc[d] = "numbered" /\ call'[d] = call[d]
      BY <1>2, <1>3, <2>3, Elsewhere
    <3>2. event[call[d].obj]
      BY <3>1 DEF FlagInv
    <3>3. QED
      BY <1>0, <1>2, <2>1, <3>1, <3>2, EventStays
  <2>4. QED
    BY <2>2, <2>3
<1>4. ASSUME NEW q \in Proc, list'[q] = "active" PROVE event'[q]
  <2>1. CASE list[q] = "active"
    BY <1>0, <1>2, <1>4, <2>1, EventStays DEF FlagInv
  <2>2. CASE list[q] # "active"
    <3>1. list[q] = "creating"
      BY <1>4, <2>2, ListStep DEF Passes
    <3>2. CreateInsert(c) /\ call[c].obj = q
      BY <1>2, <1>4, <2>2, Inserted
    <3>3. event[q] /\ event' = event
      BY <3>2 DEF CreateInsert, FlagInv, flagVars
    <3>4. QED
      BY <3>3
  <2>3. QED
    BY <2>1, <2>2
<1>5. ASSUME NEW d \in Task, pc'[d] \in Flagged, call'[d].op = "join"
      PROVE  call'[d].obj = d[1]
  <2>1. CASE d # c
    <3>1. pc'[d] = pc[d] /\ call'[d] = call[d]
      BY <1>2, <1>5, <2>1, Elsewhere DEF Flagged
    <3>2. QED
      BY <1>5, <3>1 DEF FlagInv
  <2>2. CASE d = c
    <3>1. CreateAlloc(c) \/ GetPid(c) \/ SyncFind(c) \/ SyncFlag(c) \/ FlagBlock(c)
      BY <1>2, <1>5, <2>2, Comes
    <3>2. CASE CreateAlloc(c) \/ GetPid(c)
      <4>1. GetPid(c) => Goes(c, "numbered")
        BY DEF GetPid
      <4>2. pc'[c] \in Creating
        BY <1>0, <3>2, <4>1 DEF CreateAlloc, Goes, Moves, Creating
      <4>3. QED
        BY <1>5, <2>2, <4>2 DEF Flagged, Creating
    <3>3. CASE SyncFind(c)
      <4>1. PICK q : /\ call' = [call EXCEPT ![c].obj = q]
                     /\ call[c].op = "wait" \/ q = c[1]
        BY <3>3 DEF SyncFind, InHandler
      <4>2. call'[c].op = call[c].op /\ call'[c].obj = q
        BY <1>0, <4>1 DEF Call
      <4>3. QED
        BY <1>5, <2>2, <4>1, <4>2
    <3>4. CASE SyncFlag(c) \/ FlagBlock(c)
      <4>1. pc[c] \in Flagged /\ \E at \in {"flagwait", "waiting"} : Goes(c, at)
        BY <3>4 DEF SyncFlag, FlagBlock, Flagged
      <4>2. call'[c] = call[c]
        BY <1>0, <4>1 DEF Goes, Moves
      <4>3. QED
        BY <1>5, <2>2, <4>1, <4>2 DEF FlagInv
    <3>5. QED
      BY <3>1, <3>2, <3>3, <3>4
  <2>3. QED
    BY <2>1, <2>2
<1>6. QED
  BY <1>3, <1>4, <1>5 DEF FlagInv

LEMMA FlagInvariant == Spec => [](Inv /\ FlagInv /\ RunningThreadNotJoined)
<1>1. Init => FlagInv
  BY DEF Init, FlagInv, Flagged, Task
<1>2. Inv /\ Inv' /\ FlagInv /\ [Next]_vars => FlagInv'
  BY FlagStep
<1>3. QED
  BY <1>1, <1>2, Invariance, RunningThreadNotJoinedHolds, PTL DEF Spec

(* A task that joins is let go by the end of the thread it joins, or by    *)
(* what the last thread of the slot left while the next one is created.    *)
LEMMA JoinedEnds ==
    ASSUME Inv, FlagInv, RunningThreadNotJoined,
           NEW e \in Task, KernelStep(e) \/ ProgramStep(e),
           NEW c \in Task, pc[c] \in {"flagwait", "waiting"}, call[c].op = "join",
           pc'[c] = "user", ~ FlagTimeout(c),
           NEW t \in ThreadsOf(c[1]), t[2] = call[c].arg
    PROVE  pc'[t] = "none" \/ BeingCreated(t)
<1>0. /\ pc \in [Task -> PC] /\ t \in Task /\ t[1] = c[1] /\ t[2] # 0
      /\ t = <<c[1], call[c].arg>>
  BY DEF Inv, TypeOK, ThreadsOf, TasksOf, Task
<1>1. list[c[1]] = "active"
  BY DEF Inv, RunInv, RunsOnlyWhileActive
<1>2. call[c].obj = c[1] /\ event[c[1]] /\ AwaitedBit(c) = t[2]
  BY <1>1, TaskIsNotFree DEF FlagInv, Flagged, AwaitedBit
<1>3. CASE e = c
  <2>1. FlagInvalid(c) \/ FlagTaken(c) \/ FlagBlock(c)
    <3>1. CASE QuietStep(c)
      BY <3>1 DEF QuietStep, KillNotFound, SyncNotFound, SyncFlag, ReapNotFound,
         RemoveNothing, ThreadFail, OutOfMemory, ThreadKillInvalid, ObjectCreate, Register,
         Unlink, UnlinkNotFound, ObjectDestroy, TaskExit, GetPid, Exit, InHandler
    <3>2. CASE \/ PidCall(c) \/ ThreadCall(c) \/ PlainCall(c) \/ ReapCall(c)
               \/ CleanDetached(c) \/ CleanToZombie(c) \/ LinkZombie(c) \/ CleanedUp(c)
               \/ CreateAlloc(c) \/ NoPidLeft(c) \/ CreateFail(c) \/ CreateInsert(c)
               \/ KillLink(c) \/ ExitLink(c) \/ SyncFind(c) \/ ReapFind(c) \/ RemoveZombie(c)
      BY <3>2 DEF PidCall, ThreadCall, PlainCall, ReapCall, CleanDetached, CleanToZombie,
         LinkZombie, CleanedUp, CreateAlloc, NoPidLeft, CreateFail, CreateInsert, KillLink,
         ExitLink, SyncFind, ReapFind, RemoveZombie, InHandler
    <3>3. CASE Deletes(c)
      BY <3>3, DeletesObjects
    <3>4. CASE ThreadKillSelf(c) \/ ThreadReturn(c) \/ ThreadCreate(c) \/ ThreadClear(c)
      BY <3>4 DEF ThreadKillSelf, ThreadReturn, ThreadCreate, ThreadClear, InHandler
    <3>5. QED
      BY <1>3, <3>1, <3>2, <3>3, <3>4 DEF KernelStep, ProgramStep, QuietStep, Deletes
  <2>2. CASE FlagInvalid(c)
    BY <1>2, <2>2 DEF FlagInvalid
  <2>3. CASE FlagBlock(c)
    <3>1. pc'[c] = "waiting"
      BY <2>3 DEF FlagBlock, Goes, Moves
    <3>2. QED
      BY <3>1
  <2>4. CASE FlagTaken(c)
    <3>1. t[2] \in exitBit[t[1]]
      BY <1>0, <1>2, <2>4 DEF FlagTaken
    <3>2. CASE BeingCreated(t)
      BY <3>2
    <3>3. CASE ~ BeingCreated(t)
      <4>1. pc[t] = "none"
        BY <1>0, <3>1, <3>3 DEF RunningThreadNotJoined
      <4>2. t # c /\ Goes(c, Released(c))
        BY <2>4, <4>1 DEF FlagTaken
      <4>3. PICK gone, woken, at : Moves(gone, woken, c, at) /\ gone = {} /\ woken = {}
        BY <4>2 DEF Goes
      <4>4. QED
        BY <1>0, <4>1, <4>2, <4>3, MovesEach, SMTT(30)
    <3>4. QED
      BY <3>2, <3>3
  <2>5. QED
    BY <2>1, <2>2, <2>3, <2>4
<1>4. CASE e # c
  <2>0. pc[c] = "waiting"
    BY <1>4, OthersStay
  <2>1. ASSUME NEW gone, NEW woken, NEW at, Moves(gone, woken, e, at)
        PROVE  c \in woken
    BY <1>4, <2>0, <2>1, MovesEach, SMTT(30)
  <2>2. ASSUME NEW at, Goes(e, at) PROVE FALSE
    BY <2>1, <2>2 DEF Goes
  <2>3. ASSUME NEW q, NEW i, c \in WaitersFor(q, i) PROVE q = c[1] /\ i = t[2]
    BY <1>2, <2>3 DEF WaitersFor, WaitersOf
  <2>4. CASE QuietStep(e)
    BY <2>2, <2>4, QuietGoes
  <2>5. CASE PidCall(e) \/ ThreadCall(e) \/ PlainCall(e) \/ ReapCall(e)
    <3>1. \E new : EnterKernel(e, new)
      BY <2>5 DEF PidCall, ThreadCall, PlainCall, ReapCall
    <3>2. QED
      BY <1>0, <1>4, <2>0, <3>1 DEF EnterKernel
  <2>6. CASE CleanDetached(e) \/ RemoveZombie(e)
    <3>1. PICK q : list[q] \in {"destroy", "zombie"} /\ c \in WaitersOf(q)
      BY <1>4, <2>0, <2>6 DEF CleanDetached, RemoveZombie
    <3>2. q = c[1]
      BY <1>2, <3>1 DEF WaitersOf
    <3>3. QED
      BY <1>1, <3>1, <3>2
  <2>7. CASE CleanToZombie(e) \/ LinkZombie(e)
    BY <2>0, <2>7 DEF CleanToZombie, LinkZombie
  <2>8. CASE \/ CleanedUp(e) \/ NoPidLeft(e) \/ CreateFail(e) \/ KillLink(e) \/ ExitLink(e)
             \/ ThreadKillSelf(e) \/ ThreadClear(e)
    BY <2>2, <2>8 DEF CleanedUp, NoPidLeft, CreateFail, KillLink, ExitLink, ThreadKillSelf,
       ThreadClear
  <2>9. CASE CreateAlloc(e) \/ SyncFind(e) \/ ReapFind(e)
    BY <1>0, <1>4, <2>0, <2>9 DEF CreateAlloc, SyncFind, ReapFind
  <2>10. CASE KillUnlink(e) \/ ExitUnlink(e) \/ KillSelf(e) \/ ExitInThread(e)
    <3>1. PICK gone, woken, at, q : Moves(gone, woken, e, at) /\ woken \subseteq WaitersFor(q, 0)
      BY <2>10 DEF KillUnlink, ExitUnlink, KillSelf, ExitInThread, DeletesItself
    <3>2. c \in WaitersFor(q, 0)
      BY <2>1, <3>1
    <3>3. QED
      BY <1>0, <2>3, <3>2
  <2>11. CASE ThreadKill(e)
    <3>1. PICK k, gone, woken, at :
            /\ Moves(gone, woken, e, at) /\ gone = {<<e[1], k>>}
            /\ woken \subseteq WaitersFor(e[1], k)
      BY <2>11 DEF ThreadKill
    <3>2. e[1] = c[1] /\ k = t[2]
      BY <2>1, <2>3, <3>1
    <3>3. t \in gone
      BY <1>0, <3>1, <3>2
    <3>4. QED
      BY <1>0, <3>1, <3>3, MovesEach
  <2>12. CASE ThreadReturn(e)
    <3>1. PICK gone, woken, at :
            /\ Moves(gone, woken, e, at) /\ gone = {e} /\ woken = WaitersFor(e[1], e[2])
      BY <2>12 DEF ThreadReturn
    <3>2. e[1] = c[1] /\ e[2] = t[2]
      BY <2>1, <2>3, <3>1
    <3>3. t = e
      BY <1>0, <3>2 DEF Task
    <3>4. QED
      BY <1>0, <3>1, <3>3, MovesEach
  <2>13. CASE CreateInsert(e)
    <3>1. call[e].obj \in Proc /\ list[call[e].obj] = "creating"
      BY <2>13 DEF CreateInsert, Inv, RunInv, Creating
    <3>2. c # <<call[e].obj, 0>>
      BY <1>1, <3>1
    <3>3. QED
      BY <1>0, <1>4, <2>0, <2>13, <3>2 DEF CreateInsert
  <2>14. CASE ThreadCreate(e)
    BY <1>0, <1>4, <2>0, <2>14 DEF ThreadCreate
  <2>15. QED
    BY <2>4, <2>5, <2>6, <2>7, <2>8, <2>9, <2>10, <2>11, <2>12, <2>13, <2>14
    DEF KernelStep, ProgramStep, QuietStep
<1>5. QED
  BY <1>3, <1>4

(* thread_join2() without a timeout is let go by the end of the thread it  *)
(* was called for, whether the exit flag was set before or is set while it *)
(* waits (thread.h: _thread_join2; process.c: _process_thread_create       *)
(* clears the flag, _process_thread_kill and thread_code set it).  A join  *)
(* that finds the flag of the last thread of the slot while the next one   *)
(* is being created is the one exception.                                  *)
THEOREM JoinMeansEndedHolds == Spec => JoinMeansEnded
<1>1. ASSUME Inv, FlagInv, RunningThreadNotJoined, [Next]_vars, NEW c \in Task,
             pc[c] \in {"flagwait", "waiting"}, call[c].op = "join",
             pc'[c] = "user", ~ FlagTimeout(c),
             NEW t \in ThreadsOf(c[1]), t[2] = call[c].arg
      PROVE  pc'[t] = "none" \/ BeingCreated(t)
  <2>1. CASE UNCHANGED vars
    BY <1>1, <2>1 DEF vars
  <2>2. CASE Next
    BY <1>1, <2>2, JoinedEnds DEF Next
  <2>3. QED
    BY <1>1, <2>1, <2>2
<1>2. Inv /\ FlagInv /\ RunningThreadNotJoined /\ [Next]_vars =>
        [\A c \in Task :
            /\ pc[c] \in {"flagwait", "waiting"} /\ call[c].op = "join"
            /\ pc'[c] = "user" /\ ~ FlagTimeout(c)
            => \A t \in ThreadsOf(c[1]) :
                   t[2] = call[c].arg => pc'[t] = "none" \/ BeingCreated(t)]_vars
  BY <1>1
<1>3. QED
  BY <1>2, FlagInvariant, PTL DEF Spec, JoinMeansEnded

-----------------------------------------------------------------------------
(* PIDs, as long as get_pid has not come round.                            *)

Enough == IsFiniteSet(Proc) /\ Cardinality(Proc) <= PidMax

(* The processes that were given a PID, which they keep. *)
Numbered == {q \in Proc : pid[q] # 0}

PidInv ==
    /\ pidCnt = Cardinality(Numbered)
    /\ \A q \in Proc : pid[q] <= pidCnt
    /\ \A p, q \in Numbered : pid[p] = pid[q] => p = q
    /\ \A q \in Proc : list[q] = "unborn" => pid[q] = 0
    /\ \A c \in Task : pc[c] = "allocated" => pid[call[c].obj] = 0
    /\ \A c \in Task : pc[c] = "numbered"  => pid[call[c].obj] # 0
    /\ \A q \in Proc : list[q] \in {"active", "moving", "destroy", "zombie"} => pid[q] # 0

LEMMA PidsStay ==
    ASSUME NEW c \in Task, KernelStep(c) \/ ProgramStep(c), ~ GetPid(c), ~ NoPidLeft(c)
    PROVE  pid' = pid /\ pidCnt' = pidCnt
<1>1. CASE QuietStep(c)
  BY <1>1 DEF QuietStep, procVars, KillNotFound, SyncNotFound, SyncFlag,
     FlagInvalid, FlagBlock, FlagTaken, FlagTimeout, ReapNotFound, RemoveNothing,
     ThreadFail, OutOfMemory, ThreadKillInvalid, ObjectCreate, Register, Unlink,
     UnlinkNotFound, ObjectDestroy, TaskExit, Exit
<1>2. CASE PidCall(c) \/ ThreadCall(c) \/ PlainCall(c) \/ ReapCall(c)
  BY <1>2 DEF PidCall, ThreadCall, PlainCall, ReapCall, EnterKernel, procVars
<1>3. CASE \/ CleanedUp(c) \/ ThreadKillSelf(c) \/ SyncFind(c) \/ ReapFind(c)
           \/ ThreadCreate(c) \/ ThreadClear(c) \/ ThreadReturn(c)
  BY <1>3 DEF CleanedUp, ThreadKillSelf, SyncFind, ReapFind, ThreadCreate, ThreadClear,
     ThreadReturn, procVars
<1>4. CASE \/ CleanDetached(c) \/ CleanToZombie(c) \/ LinkZombie(c) \/ CreateAlloc(c)
           \/ CreateFail(c) \/ CreateInsert(c) \/ KillLink(c) \/ ExitLink(c) \/ RemoveZombie(c)
  BY <1>4 DEF CleanDetached, CleanToZombie, LinkZombie, CreateAlloc,
     CreateFail, CreateInsert, KillLink, ExitLink, RemoveZombie
<1>5. CASE Deletes(c)
  BY <1>5 DEF Deletes, KillUnlink, ExitUnlink, KillSelf, ExitInThread, DeletesItself,
     ThreadKill, procVars
<1>6. QED
  BY <1>1, <1>2, <1>3, <1>4, <1>5 DEF KernelStep, ProgramStep, QuietStep, Deletes

(* While a process is in the making there is a PID that nobody was given,  *)
(* the next one.                                                           *)
LEMMA NextPid ==
    ASSUME Enough, Inv, PidInv, NEW c \in Task, pc[c] = "allocated"
    PROVE  /\ IsFiniteSet(Numbered) /\ call[c].obj \in Proc \ Numbered
           /\ pidCnt + 1 \in Pid /\ Following(1) = pidCnt + 1 /\ ~ TakenPid(pidCnt + 1)
<1>1. call[c].obj \in Proc \ Numbered
  BY DEF Inv, RunInv, Creating, PidInv, Numbered
<1>2. Numbered \subseteq Proc /\ Numbered # Proc
  BY <1>1 DEF Numbered
<1>3. IsFiniteSet(Numbered) /\ Cardinality(Numbered) < Cardinality(Proc)
  BY <1>2, FS_Subset, FS_CardinalityType DEF Enough
<1>4. Cardinality(Numbered) \in Nat /\ Cardinality(Proc) \in Nat
  BY <1>3, FS_CardinalityType DEF Enough
<1>5. pidCnt \in Nat /\ pidCnt < PidMax /\ PidMax \in Nat
  BY <1>3, <1>4, PidMaxAssumption DEF Enough, PidInv
<1>6. Following(1) = pidCnt + 1
  <2>1. pidCnt + 1 - 1 = pidCnt
    BY <1>5
  <2>2. pidCnt % PidMax = pidCnt
    BY <1>5
  <2>3. QED
    BY <2>1, <2>2 DEF Following
<1>7. ~ TakenPid(pidCnt + 1)
  <2>1. \A q \in Proc : pid[q] \in Nat /\ pid[q] <= pidCnt
    BY DEF PidInv, Inv, TypeOK
  <2>2. QED
    BY <1>5, <2>1 DEF TakenPid
<1>8. QED
  BY <1>1, <1>3, <1>5, <1>6, <1>7 DEF Pid

LEMMA PidStep ==
    ASSUME Enough, Inv, Inv', PidInv, [Next]_vars
    PROVE  PidInv'
<1>1. CASE UNCHANGED vars
  BY <1>1 DEF vars, PidInv, Numbered
<1>2. SUFFICES ASSUME NEW c \in Task, KernelStep(c) \/ ProgramStep(c) PROVE PidInv'
  BY <1>1 DEF Next
<1>0. /\ pc \in [Task -> PC] /\ call \in [Task -> Call] /\ list \in [Proc -> List]
      /\ list' \in [Proc -> List] /\ pid \in [Proc -> 0 .. PidMax] /\ pidCnt \in 0 .. PidMax
  BY DEF Inv, TypeOK
<1>3. ~ NoPidLeft(c)
  BY NextPid DEF NoPidLeft
<1>4. ASSUME NEW q \in Proc
      PROVE  /\ list'[q] = "unborn" => list[q] = "unborn"
             /\ list'[q] \in {"active", "moving", "destroy", "zombie"} =>
                   \/ list[q] \in {"active", "moving", "destroy", "zombie"}
                   \/ CreateInsert(c) /\ call[c].obj = q
  <2>1. CASE list'[q] = list[q]
    BY <2>1
  <2>2. CASE list'[q] = "active" /\ list[q] # "active"
    BY <1>2, <2>2, Inserted
  <2>3. CASE list'[q] # "active" /\ list'[q] # list[q]
    BY <1>2, <2>3, ListStep DEF Passes
  <2>4. QED
    BY <2>1, <2>2, <2>3
<1>5. CASE GetPid(c)
  <2>1. PICK k \in 1 .. PidMax :
          /\ ~ TakenPid(Following(k))
          /\ \A j \in 1 .. (k - 1) : TakenPid(Following(j))
          /\ pidCnt' = Following(k)
          /\ pid' = [pid EXCEPT ![call[c].obj] = Following(k)]
    BY <1>5 DEF GetPid
  <2>2. pc[c] = "allocated" /\ Goes(c, "numbered") /\ list' = list
    BY <1>5 DEF GetPid
  <2>3. /\ IsFiniteSet(Numbered) /\ call[c].obj \in Proc \ Numbered
        /\ pidCnt + 1 \in Pid /\ Following(1) = pidCnt + 1 /\ ~ TakenPid(pidCnt + 1)
    BY <2>2, NextPid
  <2>4. k = 1
    BY <2>1, <2>3, PidMaxAssumption
  <2>5. PICK p \in Proc \ Numbered : p = call[c].obj
    BY <2>3
  <2>6. pidCnt' = pidCnt + 1 /\ pid' = [pid EXCEPT ![p] = pidCnt + 1]
    BY <2>1, <2>3, <2>4, <2>5
  <2>7. Numbered' = Numbered \union {p}
    BY <1>0, <2>5, <2>6 DEF Numbered
  <2>8. pidCnt' = Cardinality(Numbered')
    BY <2>3, <2>5, <2>6, <2>7, FS_AddElement DEF PidInv
  <2>9. \A q \in Proc : pid'[q] <= pidCnt'
    BY <1>0, <2>6 DEF PidInv
  <2>10. \A q, r \in Numbered' : pid'[q] = pid'[r] => q = r
    <3>1. \A q \in Numbered : pid'[q] = pid[q] /\ pid[q] # pidCnt + 1 /\ q # p
      BY <1>0, <2>5, <2>6 DEF PidInv, Numbered
    <3>2. pid'[p] = pidCnt + 1
      BY <1>0, <2>6
    <3>3. QED
      BY <2>7, <3>1, <3>2 DEF PidInv
  <2>11. \A q \in Proc : pid[q] # 0 => pid'[q] # 0
    BY <1>0, <2>6
  <2>12. list[p] = "creating"
    BY <2>2, <2>5 DEF Inv, RunInv, Creating
  <2>13. \A q \in Proc : list'[q] = "unborn" => pid'[q] = 0
    BY <1>0, <2>2, <2>6, <2>12 DEF PidInv
  <2>14. pc'[c] = "numbered" /\ call'[c] = call[c]
    BY <1>0, <2>2 DEF Goes, Moves
  <2>15. ASSUME NEW d \in Task, d # c, pc'[d] \in Creating
         PROVE  pc'[d] = pc[d] /\ call'[d] = call[d] /\ call[d].obj \in Proc /\ call[d].obj # p
    <3>1. pc'[d] = pc[d] /\ call'[d] = call[d]
      BY <1>2, <2>15, Elsewhere DEF Creating
    <3>2. QED
      BY <2>2, <2>5, <2>15, <3>1 DEF Inv, RunInv, Creating
  <2>16. \A d \in Task : pc'[d] = "allocated" => pid'[call'[d].obj] = 0
    BY <1>0, <2>6, <2>14, <2>15 DEF PidInv, Creating
  <2>17. \A d \in Task : pc'[d] = "numbered" => pid'[call'[d].obj] # 0
    <3>1. pid'[call'[c].obj] # 0
      BY <1>0, <2>5, <2>6, <2>14
    <3>2. ASSUME NEW d \in Task, d # c, pc'[d] = "numbered" PROVE pid'[call'[d].obj] # 0
      BY <2>11, <2>15, <3>2 DEF PidInv, Creating
    <3>3. QED
      BY <3>1, <3>2
  <2>18. \A q \in Proc : list'[q] \in {"active", "moving", "destroy", "zombie"} => pid'[q] # 0
    BY <2>2, <2>11 DEF PidInv
  <2>19. QED
    BY <2>8, <2>9, <2>10, <2>13, <2>16, <2>17, <2>18 DEF PidInv
<1>6. CASE ~ GetPid(c)
  <2>1. pid' = pid /\ pidCnt' = pidCnt
    BY <1>2, <1>3, <1>6, PidsStay
  <2>2. Numbered' = Numbered
    BY <2>1 DEF Numbered
  <2>3. \A q \in Proc : list'[q] = "unborn" => pid'[q] = 0
    BY <1>4, <2>1 DEF PidInv
  <2>4. ASSUME NEW q \in Proc, list'[q] \in {"active", "moving", "destroy", "zombie"}
        PROVE  pid'[q] # 0
    <3>1. CreateInsert(c) => pid[call[c].obj] # 0
      BY DEF CreateInsert, PidInv
    <3>2. QED
      BY <1>4, <2>1, <2>4, <3>1 DEF PidInv
  <2>5. ASSUME NEW d \in Task, pc'[d] \in Creating
        PROVE  \/ pc'[d] = pc[d] /\ call'[d] = call[d]
               \/ pc'[d] = "allocated" /\ pid[call'[d].obj] = 0
    <3>1. CASE d # c
      BY <1>2, <2>5, <3>1, Elsewhere DEF Creating
    <3>2. CASE d = c
      <4>1. CreateAlloc(c) \/ SyncFind(c) \/ SyncFlag(c) \/ FlagBlock(c)
        BY <1>2, <1>6, <2>5, <3>2, Comes
      <4>2. SyncFlag(c) \/ FlagBlock(c) => pc'[c] \in Flagged
        <5>1. ASSUME NEW at, Goes(c, at) PROVE pc'[c] = at
          BY <5>1 DEF Goes, Moves
        <5>2. QED
          BY <5>1 DEF SyncFlag, FlagBlock, Flagged
      <4>3. SyncFind(c) => pc'[c] \in Flagged
        BY <1>0 DEF SyncFind, Flagged
      <4>4. CreateAlloc(c)
        BY <2>5, <3>2, <4>1, <4>2, <4>3 DEF Flagged, Creating
      <4>5. PICK q \in Proc : /\ list[q] = "unborn" /\ call' = [call EXCEPT ![c].obj = q]
                              /\ pc' = [pc EXCEPT ![c] = "allocated"]
        BY <4>4 DEF CreateAlloc
      <4>6. call'[c].obj = q /\ pc'[c] = "allocated"
        BY <1>0, <4>5 DEF Call
      <4>7. QED
        BY <3>2, <4>5, <4>6 DEF PidInv
    <3>3. QED
      BY <3>1, <3>2
  <2>6. \A d \in Task : pc'[d] = "allocated" => pid'[call'[d].obj] = 0
    BY <2>1, <2>5 DEF PidInv, Creating
  <2>7. \A d \in Task : pc'[d] = "numbered" => pid'[call'[d].obj] # 0
    BY <2>1, <2>5 DEF PidInv, Creating
  <2>8. QED
    BY <2>1, <2>2, <2>3, <2>4, <2>6, <2>7 DEF PidInv
<1>7. QED
  BY <1>5, <1>6

(* As long as no more than PID_MAX processes were created since the system *)
(* started, a PID names one of them, zombies included: get_pid can give    *)
(* out the PID of a process that ended only after it has come round        *)
(* (process.c: get_pid).                                                   *)
THEOREM PidNamesOneProcessHolds ==
    ASSUME IsFiniteSet(Proc), Cardinality(Proc) <= PidMax
    PROVE  Spec => []PidNamesOneProcess
<1>0. Enough
  BY DEF Enough
<1>1. Init => PidInv
  <2>1. SUFFICES ASSUME Init PROVE PidInv
    OBVIOUS
  <2>2. /\ Numbered = {Initd} /\ pidCnt = 1
        /\ \A q \in Proc : pid[q] \in {0, 1} /\ (list[q] # "unborn" <=> pid[q] # 0)
        /\ \A c \in Task : pc[c] \in {"user", "none"}
    BY <2>1, ProcAssumption DEF Init, Numbered
  <2>3. Cardinality(Numbered) = 1
    BY <2>2, FS_Singleton
  <2>4. QED
    BY <2>2, <2>3 DEF PidInv, Numbered
<1>2. Inv /\ Inv' /\ PidInv /\ [Next]_vars => PidInv'
  BY <1>0, PidStep
<1>3. PidInv => PidNamesOneProcess
  BY DEF PidInv, Numbered, PidNamesOneProcess
<1>4. QED
  BY <1>1, <1>2, <1>3, Invariance, PTL DEF Spec

=============================================================================
