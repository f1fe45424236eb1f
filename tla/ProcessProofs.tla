---------------------------- MODULE ProcessProofs ----------------------------
(***************************************************************************)
(* Theorems about Process, for every number of containers, PIDs, threads   *)
(* and objects: its types, process_mtx, and which tasks run while a        *)
(* process is taken off the active list.                                   *)
(***************************************************************************)
EXTENDS Process, TLAPS

USE ProcAssumption, PidMaxAssumption, ThreadsAssumption, FlagAssumption,
    StatusAssumption, CallsAssumption

(* What Moves does to a task. *)
LEMMA MovesType ==
    ASSUME TypeOK, NEW gone, NEW woken, NEW c \in Task, NEW at \in PC,
           Moves(gone, woken, c, at)
    PROVE  pc' \in [Task -> PC] /\ call' \in [Task -> Call]
<1>1. \A d \in Task : Released(d) \in PC
  BY DEF Released, PC
<1>2. "none" \in PC
  BY DEF PC
<1>3. NoCall \in Call
  BY DEF NoCall, Call, Op
<1>4. pc' \in [Task -> PC]
  BY <1>1, <1>2 DEF Moves, TypeOK
<1>5. call' \in [Task -> Call]
  BY <1>3 DEF Moves, TypeOK
<1>6. QED
  BY <1>4, <1>5

LEMMA GoesType ==
    ASSUME TypeOK, NEW c \in Task, NEW at \in PC, Goes(c, at)
    PROVE  pc' \in [Task -> PC] /\ call' \in [Task -> Call]
BY MovesType DEF Goes

(* Setting an exit bit leaves a set of threads. *)
LEMMA SetExitBitType ==
    ASSUME TypeOK, NEW q \in Proc, NEW i \in Tid
    PROVE  SetExitBit(q, i) \in [Proc -> SUBSET Tid]
BY DEF SetExitBit, TypeOK

(* The PID get_pid tries next is one. *)
LEMMA FollowingType ==
    ASSUME TypeOK, NEW k \in Nat \ {0}
    PROVE  Following(k) \in Pid
<1>1. pidCnt + k - 1 \in Nat
  BY DEF TypeOK
<1>2. (pidCnt + k - 1) % PidMax \in 0 .. (PidMax - 1)
  BY <1>1
<1>3. QED
  BY <1>2 DEF Following, Pid

(* The calls programs make, and the second call of the library, leave the  *)
(* type invariant alone: all they set is pc, call and mtx.                 *)
LEMMA EnterType ==
    ASSUME TypeOK, NEW c \in Task, NEW new \in Call, EnterKernel(c, new)
    PROVE  TypeOK'
BY DEF EnterKernel, TypeOK, PC, procVars, flagVars, resVars

LEMMA ContainerType ==
    ASSUME TypeOK, NEW c \in Task, NEW k
    PROVE  Container(c, k) \subseteq Proc
BY DEF Container, WithPid, Task

LEMMA CallOfType ==
    ASSUME NEW o \in Op, NEW k \in Nat
    PROVE  CallOf(o, k) \in Call
BY DEF CallOf, Call

(* A task that deletes itself in the middle of the table keeps the types. *)
LEMMA DeletesItselfType ==
    ASSUME TypeOK, NEW c \in Task, NEW first, DeletesItself(c, first)
    PROVE  TypeOK'
<1>1. exitBit' \in [Proc -> SUBSET Tid]
  BY SetExitBitType DEF DeletesItself, Tid, Task
<1>2. pc' \in [Task -> PC] /\ call' \in [Task -> Call]
  BY MovesType DEF DeletesItself, PC
<1>3. QED
  BY <1>1, <1>2 DEF DeletesItself, ForgottenBy, TypeOK

(* Every step keeps every variable in its type. *)
LEMMA TypeStep == TypeOK /\ [Next]_vars => TypeOK'
<1>1. SUFFICES ASSUME TypeOK, [Next]_vars PROVE TypeOK'
  OBVIOUS
<1>2. CASE UNCHANGED vars
  BY <1>1, <1>2 DEF TypeOK, vars
<1>3. SUFFICES ASSUME NEW c \in Task, KernelStep(c) \/ ProgramStep(c) PROVE TypeOK'
  BY <1>1, <1>2 DEF Next
<1>. USE <1>1
<1>4. ASSUME PidCall(c) PROVE TypeOK'
  <2>1. PICK o \in {"kill", "wait"}, k \in Pid : EnterKernel(c, CallOf(o, k))
    BY <1>4 DEF PidCall
  <2>2. QED
    BY <2>1, CallOfType, EnterType DEF Op, Pid
<1>5. ASSUME ThreadCall(c) PROVE TypeOK'
  <2>1. PICK o \in {"cancel", "join"}, i \in 1 .. MaxThreads : EnterKernel(c, CallOf(o, i))
    BY <1>5 DEF ThreadCall
  <2>2. QED
    BY <2>1, CallOfType, EnterType DEF Op
<1>6. ASSUME PlainCall(c) PROVE TypeOK'
  <2>1. PICK o \in {"create", "thread", "open", "close"} : EnterKernel(c, CallOf(o, 0))
    BY <1>6 DEF PlainCall
  <2>2. QED
    BY <2>1, CallOfType, EnterType DEF Op
<1>7. ASSUME ReapCall(c) PROVE TypeOK'
  <2>1. [call[c] EXCEPT !.op = "reap"] \in Call
    BY SMTT(30) DEF TypeOK, Call, Op
  <2>2. QED
    BY <1>7, <2>1, EnterType DEF ReapCall
<1>8. ASSUME CleanDetached(c) PROVE TypeOK'
  BY <1>8 DEF CleanDetached, DestroyResources, TypeOK, List, PC, ResState, NoCall, Call, Op,
     procVars, flagVars, resVars
<1>9. ASSUME CleanToZombie(c) PROVE TypeOK'
  BY <1>9 DEF CleanToZombie, DestroyResources, TypeOK, List, PC, ResState, NoCall, Call, Op,
     procVars, flagVars, resVars
<1>10. ASSUME LinkZombie(c) PROVE TypeOK'
  BY <1>10 DEF LinkZombie, DestroyResources, TypeOK, List, PC, ResState, NoCall, Call, Op,
     procVars, flagVars, resVars
<1>11. ASSUME CleanedUp(c) PROVE TypeOK'
  <2>1. pc' \in [Task -> PC] /\ call' \in [Task -> Call]
    BY <1>11, GoesType DEF CleanedUp, PC, Released
  <2>2. QED
    BY <1>11, <2>1 DEF CleanedUp, TypeOK, List, ResState, procVars, flagVars, resVars
<1>12. ASSUME KillLink(c) PROVE TypeOK'
  <2>1. pc' \in [Task -> PC] /\ call' \in [Task -> Call]
    BY <1>12, GoesType DEF KillLink, PC, Released
  <2>2. QED
    BY <1>12, <2>1 DEF KillLink, TypeOK, List, ResState, procVars, flagVars, resVars
<1>13. ASSUME KillNotFound(c) PROVE TypeOK'
  <2>1. pc' \in [Task -> PC] /\ call' \in [Task -> Call]
    BY <1>13, GoesType DEF KillNotFound, PC, Released
  <2>2. QED
    BY <1>13, <2>1 DEF KillNotFound, TypeOK, List, ResState, procVars, flagVars, resVars
<1>14. ASSUME ExitLink(c) PROVE TypeOK'
  <2>1. pc' \in [Task -> PC] /\ call' \in [Task -> Call]
    BY <1>14, GoesType DEF ExitLink, PC, Released
  <2>2. QED
    BY <1>14, <2>1 DEF ExitLink, TypeOK, List, ResState, procVars, flagVars, resVars
<1>15. ASSUME TaskExit(c) PROVE TypeOK'
  <2>1. pc' \in [Task -> PC] /\ call' \in [Task -> Call]
    BY <1>15, GoesType DEF TaskExit, PC, Released
  <2>2. QED
    BY <1>15, <2>1 DEF TaskExit, TypeOK, List, ResState, procVars, flagVars, resVars
<1>16. ASSUME SyncNotFound(c) PROVE TypeOK'
  <2>1. pc' \in [Task -> PC] /\ call' \in [Task -> Call]
    BY <1>16, GoesType DEF SyncNotFound, PC, Released
  <2>2. QED
    BY <1>16, <2>1 DEF SyncNotFound, TypeOK, List, ResState, procVars, flagVars, resVars
<1>17. ASSUME SyncFlag(c) PROVE TypeOK'
  <2>1. pc' \in [Task -> PC] /\ call' \in [Task -> Call]
    BY <1>17, GoesType DEF SyncFlag, PC, Released
  <2>2. QED
    BY <1>17, <2>1 DEF SyncFlag, TypeOK, List, ResState, procVars, flagVars, resVars
<1>18. ASSUME FlagInvalid(c) PROVE TypeOK'
  <2>1. pc' \in [Task -> PC] /\ call' \in [Task -> Call]
    BY <1>18, GoesType DEF FlagInvalid, PC, Released
  <2>2. QED
    BY <1>18, <2>1 DEF FlagInvalid, TypeOK, List, ResState, procVars, flagVars, resVars
<1>19. ASSUME FlagBlock(c) PROVE TypeOK'
  <2>1. pc' \in [Task -> PC] /\ call' \in [Task -> Call]
    BY <1>19, GoesType DEF FlagBlock, PC, Released
  <2>2. QED
    BY <1>19, <2>1 DEF FlagBlock, TypeOK, List, ResState, procVars, flagVars, resVars
<1>20. ASSUME ReapNotFound(c) PROVE TypeOK'
  <2>1. pc' \in [Task -> PC] /\ call' \in [Task -> Call]
    BY <1>20, GoesType DEF ReapNotFound, PC, Released
  <2>2. QED
    BY <1>20, <2>1 DEF ReapNotFound, TypeOK, List, ResState, procVars, flagVars, resVars
<1>21. ASSUME RemoveNothing(c) PROVE TypeOK'
  <2>1. pc' \in [Task -> PC] /\ call' \in [Task -> Call]
    BY <1>21, GoesType DEF RemoveNothing, PC, Released
  <2>2. QED
    BY <1>21, <2>1 DEF RemoveNothing, TypeOK, List, ResState, procVars, flagVars, resVars
<1>22. ASSUME ThreadFail(c) PROVE TypeOK'
  <2>1. pc' \in [Task -> PC] /\ call' \in [Task -> Call]
    BY <1>22, GoesType DEF ThreadFail, PC, Released
  <2>2. QED
    BY <1>22, <2>1 DEF ThreadFail, TypeOK, List, ResState, procVars, flagVars, resVars
<1>23. ASSUME OutOfMemory(c) PROVE TypeOK'
  <2>1. pc' \in [Task -> PC] /\ call' \in [Task -> Call]
    BY <1>23, GoesType DEF OutOfMemory, PC, Released
  <2>2. QED
    BY <1>23, <2>1 DEF OutOfMemory, TypeOK, List, ResState, procVars, flagVars, resVars
<1>24. ASSUME NoPidLeft(c) PROVE TypeOK'
  <2>1. pc' \in [Task -> PC] /\ call' \in [Task -> Call]
    BY <1>24, GoesType DEF NoPidLeft, PC, Released
  <2>2. QED
    <3>1. pidCnt' \in 0 .. PidMax
      BY <1>24, FollowingType DEF NoPidLeft, Pid
    <3>2. list' \in [Proc -> List]
      BY <1>24 DEF NoPidLeft, TypeOK, List
    <3>3. UNCHANGED <<pid, detached, status, event, exitBit, mtx, rstate, rproc, rtask>>
      BY <1>24 DEF NoPidLeft, flagVars, resVars
    <3>4. QED
      BY <2>1, <3>1, <3>2, <3>3 DEF TypeOK
<1>25. ASSUME CreateFail(c) PROVE TypeOK'
  <2>1. pc' \in [Task -> PC] /\ call' \in [Task -> Call]
    BY <1>25, GoesType DEF CreateFail, PC, Released
  <2>2. QED
    BY <1>25, <2>1 DEF CreateFail, TypeOK, List, ResState, procVars, flagVars, resVars
<1>26. ASSUME ThreadKillSelf(c) PROVE TypeOK'
  <2>1. pc' \in [Task -> PC] /\ call' \in [Task -> Call]
    BY <1>26, GoesType DEF ThreadKillSelf, PC, Released
  <2>2. QED
    BY <1>26, <2>1 DEF ThreadKillSelf, TypeOK, List, ResState, procVars, flagVars, resVars
<1>27. ASSUME ObjectCreate(c) PROVE TypeOK'
  <2>1. pc' \in [Task -> PC] /\ call' \in [Task -> Call]
    BY <1>27, GoesType DEF ObjectCreate, PC, Released
  <2>2. QED
    BY <1>27, <2>1 DEF ObjectCreate, TypeOK, Task, ResState, procVars, flagVars
<1>28. ASSUME Register(c) PROVE TypeOK'
  <2>1. pc' \in [Task -> PC] /\ call' \in [Task -> Call]
    BY <1>28, GoesType DEF Register, PC, Released
  <2>2. QED
    BY <1>28, <2>1 DEF Register, TypeOK, List, ResState, procVars, flagVars, resVars
<1>29. ASSUME Unlink(c) PROVE TypeOK'
  <2>1. pc' \in [Task -> PC] /\ call' \in [Task -> Call]
    BY <1>29, GoesType DEF Unlink, PC, Released
  <2>2. QED
    BY <1>29, <2>1 DEF Unlink, TypeOK, List, ResState, procVars, flagVars, resVars
<1>30. ASSUME UnlinkNotFound(c) PROVE TypeOK'
  <2>1. pc' \in [Task -> PC] /\ call' \in [Task -> Call]
    BY <1>30, GoesType DEF UnlinkNotFound, PC, Released
  <2>2. QED
    BY <1>30, <2>1 DEF UnlinkNotFound, TypeOK, List, ResState, procVars, flagVars, resVars
<1>31. ASSUME ObjectDestroy(c) PROVE TypeOK'
  <2>1. pc' \in [Task -> PC] /\ call' \in [Task -> Call]
    BY <1>31, GoesType DEF ObjectDestroy, PC, Released
  <2>2. QED
    BY <1>31, <2>1 DEF ObjectDestroy, TypeOK, List, ResState, procVars, flagVars, resVars
<1>32. ASSUME CreateAlloc(c) PROVE TypeOK'
  BY <1>32 DEF CreateAlloc, TypeOK, List, PC, Call, flagVars, resVars
<1>33. ASSUME GetPid(c) PROVE TypeOK'
  <2>1. PICK k \in 1 .. PidMax : /\ pidCnt' = Following(k)
                               /\ pid' = [pid EXCEPT ![call[c].obj] = Following(k)]
    BY <1>33 DEF GetPid
  <2>2. Following(k) \in Pid
    BY FollowingType
  <2>3. pc' \in [Task -> PC] /\ call' \in [Task -> Call]
    BY <1>33, GoesType DEF GetPid, PC
  <2>4. QED
    <3>1. Following(k) \in 0 .. PidMax
      BY <2>2 DEF Pid
    <3>2. pid' \in [Proc -> 0 .. PidMax]
      BY <2>1, <3>1 DEF TypeOK
    <3>3. event' = [event EXCEPT ![call[c].obj] = TRUE]
      BY <1>33 DEF GetPid
    <3>4. UNCHANGED <<list, detached, status, exitBit, mtx, rstate, rproc, rtask>>
      BY <1>33 DEF GetPid, resVars
    <3>5. event' \in [Proc -> BOOLEAN]
      BY <3>3 DEF TypeOK
    <3>6. QED
      BY <2>1, <2>3, <3>1, <3>2, <3>4, <3>5 DEF TypeOK
<1>34. ASSUME CreateInsert(c) PROVE TypeOK'
  BY <1>34 DEF CreateInsert, TypeOK, List, PC, NoCall, Call, Op, flagVars, resVars
<1>35. ASSUME KillUnlink(c) PROVE TypeOK'
  <2>1. PICK q \in Proc : /\ list' = [list EXCEPT ![q] = "moving"]
                        /\ exitBit' = SetExitBit(q, 0)
                        /\ Moves(TasksOf(q), WaitersFor(q, 0), c, "moving")
                        /\ ForgottenBy(TasksOf(q))
    BY <1>35 DEF KillUnlink, WithPid
  <2>2. exitBit' \in [Proc -> SUBSET Tid]
    BY <2>1, SetExitBitType DEF Tid
  <2>3. pc' \in [Task -> PC] /\ call' \in [Task -> Call]
    BY <2>1, MovesType DEF PC
  <2>4. QED
    BY <1>35, <2>1, <2>2, <2>3 DEF KillUnlink, ForgottenBy, TypeOK, List
<1>36. ASSUME KillSelf(c) PROVE TypeOK'
  BY <1>36, DeletesItselfType DEF KillSelf
<1>37. ASSUME ExitInThread(c) PROVE TypeOK'
  BY <1>37, DeletesItselfType DEF ExitInThread
<1>38. ASSUME ExitUnlink(c) PROVE TypeOK'
  <2>1. exitBit' \in [Proc -> SUBSET Tid]
    BY <1>38, SetExitBitType DEF ExitUnlink, Tid, Task
  <2>2. pc' \in [Task -> PC] /\ call' \in [Task -> Call]
    BY <1>38, MovesType DEF ExitUnlink, PC
  <2>3. UNCHANGED status
    BY <1>38 DEF ExitUnlink
  <2>4. list' \in [Proc -> List]
    BY <1>38 DEF ExitUnlink, TypeOK, List, Task
  <2>5. mtx' \in Task
    BY <1>38 DEF ExitUnlink
  <2>6. rtask' \in [Res -> Task \union {Free}]
    BY <1>38 DEF ExitUnlink, ForgottenBy, TypeOK
  <2>7. UNCHANGED <<pid, pidCnt, detached, event, rstate, rproc>>
    BY <1>38 DEF ExitUnlink, ForgottenBy
  <2>8. QED
    BY <2>1, <2>2, <2>3, <2>4, <2>5, <2>6, <2>7 DEF TypeOK
<1>39. ASSUME SyncFind(c) PROVE TypeOK'
  <2>1. PICK q \in Proc : call' = [call EXCEPT ![c].obj = q]
    BY <1>39, ContainerType DEF SyncFind, Task
  <2>2. call' \in [Task -> Call]
    BY <2>1 DEF TypeOK, Call
  <2>3. QED
    BY <1>39, <2>2 DEF SyncFind, TypeOK, PC, procVars, flagVars, resVars
<1>40. ASSUME FlagTaken(c) PROVE TypeOK'
  <2>1. pc' \in [Task -> PC] /\ call' \in [Task -> Call]
    BY <1>40, GoesType DEF FlagTaken, PC, Released
  <2>2. QED
    BY <1>40, <2>1 DEF FlagTaken, TypeOK, procVars, resVars
<1>41. ASSUME FlagTimeout(c) PROVE TypeOK'
  <2>1. pc' \in [Task -> PC] /\ call' \in [Task -> Call]
    BY <1>41, GoesType DEF FlagTimeout, PC, Released
  <2>2. QED
    BY <1>41, <2>1 DEF FlagTimeout, TypeOK, procVars, flagVars, resVars
<1>42. ASSUME ReapFind(c) PROVE TypeOK'
  <2>1. PICK q \in Proc : call' = [call EXCEPT ![c].obj = q]
    BY <1>42, ContainerType DEF ReapFind
  <2>2. call' \in [Task -> Call]
    BY <2>1 DEF TypeOK, Call
  <2>3. QED
    BY <1>42, <2>2 DEF ReapFind, TypeOK, PC, procVars, flagVars, resVars
<1>43. ASSUME RemoveZombie(c) PROVE TypeOK'
  BY <1>43 DEF RemoveZombie, TypeOK, List, PC, NoCall, Call, Op, resVars
<1>44. ASSUME ThreadCreate(c) PROVE TypeOK'
  <2>1. PICK i \in Tid \ {0} : /\ pc' = [pc EXCEPT ![c] = "starting", ![<<c[1], i>>] = "user"]
                              /\ call' = [call EXCEPT ![c].arg = i]
    BY <1>44 DEF ThreadCreate
  <2>2. pc' \in [Task -> PC]
    BY <2>1 DEF TypeOK, PC
  <2>3. call' \in [Task -> Call]
    <3>1. i \in Nat /\ call[c] \in Call
      BY DEF TypeOK, Tid
    <3>2. [call[c] EXCEPT !.arg = i] \in Call
      BY <3>1, SMTT(30) DEF Call
    <3>3. call' = [call EXCEPT ![c] = [call[c] EXCEPT !.arg = i]]
      BY <2>1
    <3>4. QED
      BY <3>2, <3>3 DEF TypeOK
  <2>4. QED
    BY <1>44, <2>2, <2>3 DEF ThreadCreate, TypeOK, procVars, flagVars, resVars
<1>45. ASSUME ThreadKill(c) PROVE TypeOK'
  <2>1. exitBit' \in [Proc -> SUBSET Tid]
    BY <1>45, SetExitBitType DEF ThreadKill, Task
  <2>2. pc' \in [Task -> PC] /\ call' \in [Task -> Call]
    BY <1>45, MovesType DEF ThreadKill, PC
  <2>3. QED
    BY <1>45, <2>1, <2>2 DEF ThreadKill, ForgottenBy, TypeOK, procVars
<1>46. ASSUME ThreadReturn(c) PROVE TypeOK'
  <2>1. exitBit' \in [Proc -> SUBSET Tid]
    BY <1>46, SetExitBitType DEF ThreadReturn, Task
  <2>2. pc' \in [Task -> PC] /\ call' \in [Task -> Call]
    BY <1>46, MovesType DEF ThreadReturn, PC
  <2>3. QED
    BY <1>46, <2>1, <2>2 DEF ThreadReturn, TypeOK, procVars, resVars
<1>47. ASSUME ThreadKillInvalid(c) PROVE TypeOK'
  <2>1. pc' \in [Task -> PC] /\ call' \in [Task -> Call]
    BY <1>47, GoesType DEF ThreadKillInvalid, PC
  <2>2. QED
    BY <1>47, <2>1 DEF ThreadKillInvalid, TypeOK, procVars, flagVars, resVars
<1>48. ASSUME Exit(c) PROVE TypeOK'
  <2>1. pc' \in [Task -> PC] /\ call' \in [Task -> Call]
    BY <1>48, GoesType DEF Exit, PC
  <2>2. status' \in [Proc -> Status \union {NoStatus}]
    BY <1>48 DEF Exit, TypeOK
  <2>3. QED
    BY <1>48, <2>1, <2>2 DEF Exit, TypeOK, flagVars, resVars
<1>49. ASSUME ThreadClear(c) PROVE TypeOK'
  <2>1. pc' \in [Task -> PC] /\ call' \in [Task -> Call]
    BY <1>49, GoesType DEF ThreadClear, PC
  <2>2. exitBit' \in [Proc -> SUBSET Tid]
    BY <1>49 DEF ThreadClear, ClearedBit, TypeOK
  <2>3. QED
    BY <1>49, <2>1, <2>2 DEF ThreadClear, TypeOK, procVars, resVars
<1>50. QED
  BY <1>3, <1>4, <1>5, <1>6, <1>7, <1>8, <1>9, <1>10, <1>11, <1>12, <1>13, <1>14, <1>15, <1>16,
     <1>17, <1>18, <1>19, <1>20, <1>21, <1>22, <1>23, <1>24, <1>25, <1>26, <1>27, <1>28, <1>29,
     <1>30, <1>31, <1>32, <1>33, <1>34, <1>35, <1>36, <1>37, <1>38, <1>39, <1>40, <1>41, <1>42,
     <1>43, <1>44, <1>45, <1>46, <1>47, <1>48, <1>49
  DEF KernelStep, ProgramStep

(* The kernel starts in a state of the types. *)
LEMMA TypeInit == Init => TypeOK
BY DEF Init, TypeOK, List, PC, Call, Op, NoCall, ResState, Task, Tid

(* Every variable keeps its type, whatever the programs call. *)
THEOREM TypeCorrect == Spec => []TypeOK
<1>1. Init => TypeOK
  BY TypeInit
<1>2. TypeOK /\ [Next]_vars => TypeOK'
  BY TypeStep
<1>3. QED
  BY <1>1, <1>2, PTL DEF Spec

-----------------------------------------------------------------------------
(* process_mtx and the tasks that run. *)

Critical == {"cleaning", "moving", "leaving", "starting"}

(* MovesUnderMutex made inductive.  A task that ended itself inside the    *)
(* critical section leaves the mutex owned by nobody; everything but the   *)
(* last part holds then, too.                                              *)
MutexInv ==
    /\ \A c \in Task : pc[c] \in Critical => mtx = c
    /\ \A c \in Task : pc[c] = "leaving" => list[c[1]] = "moving"
    /\ \A c \in Task : pc[c] = "starting" => \A p \in Proc : list[p] # "moving"
    /\ \A p, q \in Proc : list[p] = "moving" =>
           mtx # Free /\ (list[q] = "moving" => p = q)
    /\ ~ SelfEnd => (mtx # Free => pc[mtx] \in Critical)

(* RunsOnlyWhileActive made inductive: a process in the making is one      *)
(* task's, and on no list, so making or dropping it disturbs no task.      *)
Creating == {"allocated", "numbered"}

RunInv ==
    /\ RunsOnlyWhileActive
    /\ \A c \in Task : pc[c] \in Creating =>
           call[c].obj \in Proc /\ list[call[c].obj] = "creating"
    /\ \A c, d \in Task : /\ pc[c] \in Creating /\ pc[d] \in Creating
                         /\ call[c].obj = call[d].obj
                         => c = d

Inv == TypeOK /\ MutexInv /\ RunInv

-----------------------------------------------------------------------------
(* A task is in a process, and is not the owner of a free mutex. *)
LEMMA TaskIsNotFree ==
    ASSUME NEW c \in Task
    PROVE  c[1] \in Proc /\ c[2] \in Tid /\ c # Free
BY ProcAssumption DEF Task, Free

(* Nobody is in the critical section, and no process off the lists, when   *)
(* the mutex is free.                                                      *)
LEMMA FreeMutex ==
    ASSUME MutexInv, mtx = Free
    PROVE  /\ \A c \in Task : pc[c] \notin Critical
           /\ \A p \in Proc : list[p] # "moving"
BY TaskIsNotFree DEF MutexInv

(* What Moves does to each task. *)
LEMMA MovesEach ==
    ASSUME NEW gone, NEW woken, NEW c \in Task, NEW at, Moves(gone, woken, c, at),
           NEW d \in Task
    PROVE  /\ d \in gone => pc'[d] = "none"
           /\ d \notin gone /\ d = c => pc'[d] = at
           /\ d \notin gone /\ d # c /\ d \in woken => pc'[d] \in {"user", "woken"}
           /\ d \notin gone /\ d # c /\ d \notin woken => pc'[d] = pc[d]
           /\ d \notin gone /\ d \notin woken /\ (d # c \/ at \notin {"user", "leaving", "none"})
                => call'[d] = call[d]
<1>1. pc' = [e \in Task |-> IF e \in gone       THEN "none"
                           ELSE IF e = c       THEN at
                           ELSE IF e \in woken THEN Released(e)
                           ELSE pc[e]]
  BY DEF Moves
<1>2. Released(d) \in {"user", "woken"}
  BY DEF Released
<1>3. d \notin gone /\ d \notin woken /\ (d # c \/ at \notin {"user", "leaving", "none"})
        => call'[d] = call[d]
  BY DEF Moves
<1>4. d \in gone => pc'[d] = "none"
  BY <1>1
<1>5. d \notin gone /\ d = c => pc'[d] = at
  BY <1>1
<1>6. d \notin gone /\ d # c /\ d \in woken => pc'[d] \in {"user", "woken"}
  BY <1>1, <1>2
<1>7. d \notin gone /\ d # c /\ d \notin woken => pc'[d] = pc[d]
  BY <1>1
<1>8. QED
  BY <1>3, <1>4, <1>5, <1>6, <1>7

(* ... and to its call. *)
LEMMA MovesCall ==
    ASSUME NEW gone, NEW woken, NEW c \in Task, NEW at, Moves(gone, woken, c, at),
           NEW d \in Task
    PROVE  /\ call'[d] = call[d] \/ call'[d] = NoCall
           /\ d \in gone \/ (d = c /\ at = "none") => call'[d] = NoCall
BY DEF Moves

LEMMA WaitersWait ==
    ASSUME NEW q, NEW i
    PROVE  /\ WaitersFor(q, i) \subseteq {d \in Task : pc[d] = "waiting"}
           /\ WaitersOf(q) \subseteq {d \in Task : pc[d] = "waiting"}
BY DEF WaitersFor, WaitersOf

-----------------------------------------------------------------------------
(* A step that takes no task into or out of the critical section and moves *)
(* no process keeps MutexInv.                                              *)
LEMMA MutexQuiet ==
    ASSUME MutexInv, mtx' = mtx, mtx \in Task \union {Free},
           \A p \in Proc : list'[p] = "moving" <=> list[p] = "moving",
           \A d \in Task : \/ pc'[d] = pc[d]
                           \/ pc'[d] \notin Critical /\ pc[d] \notin Critical
    PROVE  MutexInv'
<1>1. \A d \in Task : pc'[d] \in Critical => pc[d] \in Critical /\ pc'[d] = pc[d]
  OBVIOUS
<1>2. (\A d \in Task : pc[d] \in Critical => mtx = d)'
  BY <1>1 DEF MutexInv
<1>3. (\A d \in Task : pc[d] = "leaving" => list[d[1]] = "moving")'
  BY <1>1, TaskIsNotFree DEF MutexInv, Critical
<1>4. (\A d \in Task : pc[d] = "starting" => \A p \in Proc : list[p] # "moving")'
  BY <1>1 DEF MutexInv, Critical
<1>5. (\A p, q \in Proc : list[p] = "moving" =>
           mtx # Free /\ (list[q] = "moving" => p = q))'
  BY DEF MutexInv
<1>6. (~ SelfEnd => (mtx # Free => pc[mtx] \in Critical))'
  BY DEF MutexInv
<1>7. QED
  BY <1>2, <1>3, <1>4, <1>5, <1>6 DEF MutexInv

(* A step that leaves the lists alone, starts tasks in active processes    *)
(* only and makes no new process keeps RunInv.                             *)
LEMMA RunQuiet ==
    ASSUME RunInv, list' = list,
           \A d \in Task : \/ pc'[d] = pc[d]
                           \/ pc'[d] = "none"
                           \/ list[d[1]] = "active",
           \A d \in Task : pc'[d] \in Creating =>
                pc[d] \in Creating /\ call'[d].obj = call[d].obj
    PROVE  RunInv'
<1>1. RunsOnlyWhileActive'
  BY DEF RunInv, RunsOnlyWhileActive
<1>2. QED
  BY <1>1 DEF RunInv

(* Both, for a step made of Moves that leaves the mutex and the lists      *)
(* alone: a task in the kernel goes on outside the critical section, or    *)
(* ends; tasks that wait are woken; tasks outside it are deleted.          *)
LEMMA MovesQuiet ==
    ASSUME Inv, NEW gone, NEW woken, NEW c \in Task, NEW at,
           Moves(gone, woken, c, at), list' = list, mtx' = mtx,
           woken \subseteq {d \in Task : pc[d] = "waiting"},
           \A d \in Task : d \in gone => pc[d] \notin Critical,
           pc[c] \notin Critical, at \notin Critical,
           at \in Creating => at = "numbered" /\ pc[c] \in Creating,
           at = "none" \/ pc[c] \notin {"none", "exiting"}
    PROVE  MutexInv' /\ RunInv'
<1>1. \A d \in Task : \/ pc'[d] = pc[d]
                      \/ pc'[d] \notin Critical /\ pc[d] \notin Critical
  BY MovesEach DEF Critical
<1>2. MutexInv'
  BY <1>1, MutexQuiet DEF Inv, TypeOK
<1>3. \A d \in Task : pc[d] = "waiting" => list[d[1]] = "active"
  BY DEF Inv, RunInv, RunsOnlyWhileActive
<1>4. at # "none" => list[c[1]] = "active"
  BY DEF Inv, RunInv, RunsOnlyWhileActive, Critical
<1>5. ASSUME NEW d \in Task
      PROVE  pc'[d] = pc[d] \/ pc'[d] = "none" \/ list[d[1]] = "active"
  <2>1. CASE d \in gone
    BY <2>1, MovesEach
  <2>2. CASE d \notin gone /\ d = c
    BY <1>4, <2>2, MovesEach
  <2>3. CASE d \notin gone /\ d # c
    BY <1>3, <2>3, MovesEach
  <2>4. QED
    BY <2>1, <2>2, <2>3
<1>6. \A d \in Task : pc'[d] \in Creating =>
          pc[d] \in Creating /\ call'[d].obj = call[d].obj
  <2>1. SUFFICES ASSUME NEW d \in Task, pc'[d] \in Creating
                 PROVE  pc[d] \in Creating /\ call'[d].obj = call[d].obj
    OBVIOUS
  <2>2. d \notin gone
    BY <2>1, MovesEach DEF Creating
  <2>3. CASE d = c
    BY <2>1, <2>2, <2>3, MovesEach DEF Creating
  <2>4. CASE d # c
    BY <2>1, <2>2, <2>4, MovesEach DEF Creating
  <2>5. QED
    BY <2>3, <2>4
<1>7. QED
  BY <1>2, <1>5, <1>6, RunQuiet DEF Inv

LEMMA GoesQuiet ==
    ASSUME Inv, NEW c \in Task, NEW at, Goes(c, at), list' = list, mtx' = mtx,
           pc[c] \notin Critical, at \notin Critical,
           at \in Creating => at = "numbered" /\ pc[c] \in Creating,
           at = "none" \/ pc[c] \notin {"none", "exiting"}
    PROVE  MutexInv' /\ RunInv'
BY MovesQuiet DEF Goes

(* Entering the kernel. *)
LEMMA EnterSafe ==
    ASSUME Inv, NEW c \in Task, NEW new, EnterKernel(c, new),
           pc[c] \in {"user", "woken"}
    PROVE  MutexInv' /\ RunInv'
<1>1. pc \in [Task -> PC] /\ call \in [Task -> Call] /\ c # Free
  BY TaskIsNotFree DEF Inv, TypeOK
<1>2. pc'[c] \in {"cleaning", "handler"}
  BY <1>1 DEF EnterKernel
<1>3. \A d \in Task : d # c => pc'[d] = pc[d] /\ call'[d] = call[d]
  BY <1>1 DEF EnterKernel
<1>4. list' = list
  BY DEF EnterKernel, procVars
<1>5. list[c[1]] = "active"
  BY DEF Inv, RunInv, RunsOnlyWhileActive
<1>6. RunInv'
  BY <1>2, <1>3, <1>4, <1>5, RunQuiet DEF Inv, Creating
<1>7. MutexInv'
  <2>1. CASE MustCleanUp
    <3>1. mtx' = c /\ pc'[c] = "cleaning"
      BY <1>1, <2>1 DEF EnterKernel
    <3>2. \A d \in Task : pc[d] \notin Critical
      BY FreeMutex DEF Inv, EnterKernel
    <3>3. \A p \in Proc : list'[p] # "moving"
      BY <1>4, FreeMutex DEF Inv, EnterKernel
    <3>4. QED
      BY <1>3, <3>1, <3>2, <3>3 DEF MutexInv, Critical
  <2>2. CASE ~ MustCleanUp
    <3>1. mtx' = mtx /\ pc'[c] = "handler"
      BY <1>1, <2>2 DEF EnterKernel
    <3>2. QED
      BY <1>3, <1>4, <3>1, MutexQuiet DEF Inv, TypeOK, Critical
  <2>3. QED
    BY <2>1, <2>2
<1>8. QED
  BY <1>6, <1>7

-----------------------------------------------------------------------------
(* The steps that change a list, or leave the critical section. *)

(* Tasks of a process that is on no list but the active one do not run,    *)
(* unless it is the main thread on its way out.                            *)
LEMMA OnlyActiveRuns ==
    ASSUME Inv, NEW d \in Task, list[d[1]] \notin {"active", "moving"} \union Ended
    PROVE  pc[d] = "none"
BY DEF Inv, RunInv, RunsOnlyWhileActive

LEMMA CleaningSafe ==
    ASSUME Inv, NEW c \in Task, pc[c] = "cleaning",
           CleanDetached(c) \/ CleanToZombie(c) \/ LinkZombie(c)
    PROVE  MutexInv' /\ RunInv'
<1>1. list \in [Proc -> List] /\ pc \in [Task -> PC] /\ call \in [Task -> Call]
  BY DEF Inv, TypeOK
<1>2. /\ mtx = c /\ mtx' = mtx /\ c # Free
      /\ \A d \in Task : pc[d] \in Critical => d = c
  BY TaskIsNotFree DEF Inv, MutexInv, Critical, CleanDetached, CleanToZombie, LinkZombie
<1>3. \A d \in Task : \/ pc'[d] = pc[d] /\ call'[d] = call[d]
                      \/ pc[d] = "waiting" /\ pc'[d] = "user"
  <2>1. CASE CleanDetached(c)
    BY <1>1, <2>1, WaitersWait DEF CleanDetached
  <2>2. CASE CleanToZombie(c) \/ LinkZombie(c)
    BY <2>2 DEF CleanToZombie, LinkZombie
  <2>3. QED
    BY <2>1, <2>2
<1>4. PICK q \in Proc :
          /\ list[q] \in {"destroy", "moving"} /\ list'[q] \in {"moving"} \union Ended
          /\ \A p \in Proc : p # q => list'[p] = list[p] /\ list[p] # "moving"
  <2>1. CASE CleanDetached(c)
    BY <1>1, <2>1 DEF CleanDetached, Ended
  <2>2. CASE CleanToZombie(c)
    BY <1>1, <2>2 DEF CleanToZombie
  <2>3. CASE LinkZombie(c)
    BY <1>1, <2>3 DEF LinkZombie, Ended, Inv, MutexInv
  <2>4. QED
    BY <2>1, <2>2, <2>3
<1>5. MutexInv'
  BY <1>2, <1>3, <1>4 DEF Inv, MutexInv, Critical
<1>6. RunsOnlyWhileActive'
  <2>1. SUFFICES ASSUME NEW d \in Task, pc'[d] # "none"
                 PROVE  \/ list'[d[1]] = "active"
                        \/ d[2] = 0 /\ pc'[d] = "leaving" /\ list'[d[1]] = "moving"
                        \/ /\ d[2] = 0 /\ pc'[d] = "exiting"
                           /\ list'[d[1]] \in Ended \union {"moving"}
    BY DEF RunsOnlyWhileActive
  <2>2. d[1] \in Proc /\ pc[d] # "none"
    BY <1>3, <2>1, TaskIsNotFree
  <2>3. pc[d] # "leaving"
    BY <1>2 DEF Critical
  <2>4. \/ list[d[1]] = "active"
        \/ d[2] = 0 /\ pc[d] = "exiting" /\ list[d[1]] \in Ended \union {"moving"}
    BY <2>2, <2>3 DEF Inv, RunInv, RunsOnlyWhileActive, Ended
  <2>5. QED
    BY <1>3, <1>4, <2>2, <2>4 DEF Ended
<1>7. RunInv'
  BY <1>3, <1>4, <1>6 DEF Inv, RunInv, Creating, Ended
<1>8. QED
  BY <1>5, <1>7

(* The last turn of the clean-up, and the end of the creation of a thread, *)
(* give the mutex back.                                                    *)
LEMMA GiveBackSafe ==
    ASSUME Inv, NEW c \in Task, pc[c] \in {"cleaning", "starting"},
           list' = list, mtx' = Free, NEW at \in {"handler", "user"}, Goes(c, at),
           \A q \in Proc : list[q] # "moving"
    PROVE  MutexInv' /\ RunInv'
<1>1. Moves({}, {}, c, at)
  BY DEF Goes
<1>2. pc'[c] = at /\ \A d \in Task : d # c => pc'[d] = pc[d] /\ call'[d] = call[d]
  BY <1>1, MovesEach
<1>3. \A d \in Task : pc[d] \in Critical => d = c
  BY DEF Inv, MutexInv, Critical
<1>4. MutexInv'
  BY <1>2, <1>3 DEF MutexInv, Critical
<1>5. list[c[1]] = "active"
  BY DEF Inv, RunInv, RunsOnlyWhileActive
<1>6. RunInv'
  BY <1>2, <1>5, RunQuiet DEF Inv, Creating
<1>7. QED
  BY <1>4, <1>6

(* Making a process. *)
LEMMA CreateAllocSafe ==
    ASSUME Inv, NEW c \in Task, CreateAlloc(c)
    PROVE  MutexInv' /\ RunInv'
<1>1. /\ list \in [Proc -> List] /\ pc \in [Task -> PC] /\ call \in [Task -> Call]
      /\ mtx \in Task \union {Free}
  BY DEF Inv, TypeOK
<1>2. PICK q \in Proc : /\ list[q] = "unborn"
                        /\ list' = [list EXCEPT ![q] = "creating"]
                        /\ call' = [call EXCEPT ![c].obj = q]
  BY DEF CreateAlloc
<1>3. pc[c] = "handler" /\ pc' = [pc EXCEPT ![c] = "allocated"] /\ mtx' = mtx
  BY DEF CreateAlloc, InHandler
<1>4. MutexInv'
  BY <1>1, <1>2, <1>3, MutexQuiet DEF Inv, Critical
<1>5. \A d \in Task : d[1] = q => pc[d] = "none"
  BY <1>2, OnlyActiveRuns DEF Ended
<1>6. list[c[1]] = "active"
  BY <1>3 DEF Inv, RunInv, RunsOnlyWhileActive
<1>7. RunsOnlyWhileActive'
  BY <1>1, <1>2, <1>3, <1>5, <1>6, TaskIsNotFree
  DEF Inv, RunInv, RunsOnlyWhileActive, Ended
<1>8. call'[c].obj = q /\ \A d \in Task : d # c => call'[d] = call[d]
  BY <1>1, <1>2 DEF Call
<1>9. \A d \in Task : d # c /\ pc'[d] \in Creating =>
          /\ pc[d] \in Creating /\ call'[d].obj = call[d].obj
          /\ call[d].obj \in Proc /\ list[call[d].obj] = "creating" /\ call[d].obj # q
  BY <1>1, <1>2, <1>3, <1>8 DEF Inv, RunInv
<1>10. RunInv'
  BY <1>1, <1>2, <1>7, <1>8, <1>9 DEF Inv, RunInv
<1>11. QED
  BY <1>4, <1>10

(* Giving the process being made up, or putting it on the active list with *)
(* a main thread. *)
LEMMA CreateEndSafe ==
    ASSUME Inv, NEW c \in Task, NoPidLeft(c) \/ CreateFail(c) \/ CreateInsert(c)
    PROVE  MutexInv' /\ RunInv'
<1> DEFINE q == call[c].obj
<1>1. /\ list \in [Proc -> List] /\ pc \in [Task -> PC] /\ call \in [Task -> Call]
      /\ mtx \in Task \union {Free}
  BY DEF Inv, TypeOK
<1>2. pc[c] \in Creating /\ mtx' = mtx
  BY DEF NoPidLeft, CreateFail, CreateInsert, Creating
<1>3. q \in Proc /\ list[q] = "creating"
  BY <1>2 DEF Inv, RunInv
<1>4. PICK l \in {"freed", "active"} :
          /\ list' = [list EXCEPT ![q] = l]
          /\ pc'[c] = "user"
          /\ \A d \in Task : d # c =>
                /\ pc'[d] = pc[d] \/ (l = "active" /\ pc'[d] = "user" /\ d[1] = q)
                /\ call'[d] = call[d]
  <2>1. CASE NoPidLeft(c) \/ CreateFail(c)
    <3>1. Goes(c, "user") /\ list' = [list EXCEPT ![q] = "freed"]
      BY <2>1 DEF NoPidLeft, CreateFail
    <3>2. Moves({}, {}, c, "user")
      BY <3>1 DEF Goes
    <3>3. pc'[c] = "user"
      BY <3>2, MovesEach
    <3>4. \A d \in Task : d # c => pc'[d] = pc[d] /\ call'[d] = call[d]
      BY <3>2, MovesEach
    <3>5. QED
      BY <3>1, <3>3, <3>4
  <2>2. CASE CreateInsert(c)
    BY <1>1, <2>2 DEF CreateInsert, Task
  <2>3. QED
    BY <2>1, <2>2
<1>5. \A d \in Task : d[1] = q => pc[d] = "none"
  BY <1>3, OnlyActiveRuns DEF Ended
<1>6. \A d \in Task : pc'[d] = pc[d] \/ (pc'[d] \notin Critical /\ pc[d] \notin Critical)
  BY <1>2, <1>4, <1>5 DEF Critical, Creating
<1>7. \A p \in Proc : list'[p] = "moving" <=> list[p] = "moving"
  BY <1>1, <1>3, <1>4
<1>8. MutexInv'
  BY <1>1, <1>2, <1>6, <1>7, MutexQuiet DEF Inv
<1>9. list[c[1]] = "active"
  BY <1>2 DEF Inv, RunInv, RunsOnlyWhileActive, Creating
<1>10. RunsOnlyWhileActive'
  <2>1. SUFFICES ASSUME NEW d \in Task, pc'[d] # "none"
                 PROVE  \/ list'[d[1]] = "active"
                        \/ d[2] = 0 /\ pc'[d] = "leaving" /\ list'[d[1]] = "moving"
                        \/ /\ d[2] = 0 /\ pc'[d] = "exiting"
                           /\ list'[d[1]] \in Ended \union {"moving"}
    BY DEF RunsOnlyWhileActive
  <2>2. CASE d = c
    BY <1>1, <1>3, <1>4, <1>9, <2>2, TaskIsNotFree
  <2>3. CASE d # c /\ pc'[d] = pc[d]
    <3>1. d[1] # q
      BY <1>5, <2>1, <2>3
    <3>2. list'[d[1]] = list[d[1]]
      BY <1>1, <1>4, <3>1, TaskIsNotFree
    <3>3. QED
      BY <2>1, <2>3, <3>2 DEF Inv, RunInv, RunsOnlyWhileActive
  <2>4. CASE d # c /\ pc'[d] # pc[d]
    BY <1>1, <1>3, <1>4, <2>4
  <2>5. QED
    BY <2>2, <2>3, <2>4
<1>11. \A d \in Task : pc'[d] \in Creating =>
          d # c /\ pc[d] \in Creating /\ call'[d] = call[d] /\ call[d].obj # q
  BY <1>2, <1>4 DEF Inv, RunInv, Creating
<1>12. RunInv'
  BY <1>1, <1>4, <1>10, <1>11 DEF Inv, RunInv
<1>13. QED
  BY <1>8, <1>12

(* Taking a process off the active list: all its tasks are deleted, except *)
(* the main thread that does it itself. *)
LEMMA UnlinkSafe ==
    ASSUME Inv, NEW c \in Task, KillUnlink(c) \/ ExitUnlink(c)
    PROVE  MutexInv' /\ RunInv'
<1>1. /\ list \in [Proc -> List] /\ mtx = Free /\ mtx' = c
      /\ c # Free /\ c[1] \in Proc
  BY TaskIsNotFree DEF Inv, TypeOK, KillUnlink, ExitUnlink
<1>2. PICK q, gone, woken, at :
          /\ q \in Proc
          /\ list[q] = "active" /\ list' = [list EXCEPT ![q] = "moving"]
          /\ Moves(gone, woken, c, at) /\ c \notin gone
          /\ woken \subseteq {d \in Task : pc[d] = "waiting"}
          /\ \/ at = "moving" /\ c[1] # q /\ gone = TasksOf(q)
             \/ at = "leaving" /\ c[1] = q /\ c[2] = 0 /\ gone = ThreadsOf(q)
  <2>1. CASE KillUnlink(c)
    <3>1. PICK q \in WithPid(call[c].arg, "active") :
              /\ q # c[1] /\ list' = [list EXCEPT ![q] = "moving"]
              /\ Moves(TasksOf(q), WaitersFor(q, 0), c, "moving")
      BY <2>1 DEF KillUnlink
    <3>2. q \in Proc /\ list[q] = "active"
      BY DEF WithPid
    <3>3. c \notin TasksOf(q)
      BY <3>1 DEF TasksOf
    <3>4. QED
      BY <3>1, <3>2, <3>3, WaitersWait
  <2>2. CASE ExitUnlink(c)
    <3>1. /\ pc[c] = "ending" /\ c[2] = 0 /\ list' = [list EXCEPT ![c[1]] = "moving"]
          /\ Moves(ThreadsOf(c[1]), WaitersFor(c[1], 0), c, "leaving")
      BY <2>2 DEF ExitUnlink
    <3>2. list[c[1]] = "active"
      BY <3>1 DEF Inv, RunInv, RunsOnlyWhileActive
    <3>3. c \notin ThreadsOf(c[1])
      BY <3>1 DEF ThreadsOf
    <3>4. QED
      BY <1>1, <3>1, <3>2, <3>3, WaitersWait
  <2>3. QED
    BY <2>1, <2>2
<1>3. /\ \A d \in Task : pc[d] \notin Critical
      /\ \A p \in Proc : list[p] # "moving"
  BY <1>1, FreeMutex DEF Inv
<1>4. pc'[c] = at
  BY <1>2, MovesEach
<1>5. \A d \in Task : d # c =>
          \/ pc'[d] = "none"
          \/ pc'[d] \in {"user", "woken"} /\ pc[d] = "waiting" /\ d[1] # q
          \/ pc'[d] = pc[d] /\ call'[d] = call[d] /\ d[1] # q
  <2>1. SUFFICES ASSUME NEW d \in Task, d # c, pc'[d] # "none"
                 PROVE  \/ pc'[d] \in {"user", "woken"} /\ pc[d] = "waiting" /\ d[1] # q
                        \/ pc'[d] = pc[d] /\ call'[d] = call[d] /\ d[1] # q
    OBVIOUS
  <2>2. d \notin gone
    BY <1>2, <2>1, MovesEach
  <2>3. d[1] = q => at = "leaving" /\ d[2] = 0
    BY <1>2, <2>2 DEF TasksOf, ThreadsOf
  <2>4. d[1] # q
    BY <1>2, <2>1, <2>3 DEF Task
  <2>5. QED
    BY <1>2, <2>1, <2>2, <2>4, MovesEach
<1>6. MutexInv'
  BY <1>1, <1>2, <1>3, <1>4, <1>5 DEF MutexInv, Critical
<1>7. RunsOnlyWhileActive'
  <2>1. list'[q] = "moving" /\ \A p \in Proc : p # q => list'[p] = list[p]
    BY <1>1, <1>2
  <2>2. \A d \in Task : d # c /\ pc'[d] # "none" => d[1] # q /\ pc[d] # "none"
    BY <1>5
  <2>3. c[1] # q => list[c[1]] = "active"
    BY <1>2, <1>3 DEF Inv, RunInv, RunsOnlyWhileActive, KillUnlink, InHandler, ExitUnlink
  <2>4. QED
    BY <1>1, <1>2, <1>3, <1>4, <1>5, <2>1, <2>2, <2>3, TaskIsNotFree
    DEF Inv, RunInv, RunsOnlyWhileActive, Critical
<1>8. \A d \in Task : pc'[d] \in Creating =>
          pc[d] \in Creating /\ call'[d] = call[d]
  BY <1>2, <1>4, <1>5 DEF Creating
<1>9. RunInv'
  BY <1>1, <1>2, <1>7, <1>8 DEF Inv, RunInv
<1>10. QED
  BY <1>6, <1>9

(* The other half: the process goes to the destroy list, the mutex is free. *)
LEMMA LinkSafe ==
    ASSUME Inv, NEW c \in Task, KillLink(c) \/ ExitLink(c)
    PROVE  MutexInv' /\ RunInv'
<1>1. list \in [Proc -> List] /\ c[1] \in Proc
  BY TaskIsNotFree DEF Inv, TypeOK
<1>2. /\ pc[c] \in {"moving", "leaving"} /\ mtx' = Free
      /\ Goes(c, IF pc[c] = "moving" THEN "woken" ELSE "exiting")
  BY DEF KillLink, ExitLink
<1>3. mtx = c /\ \A d \in Task : pc[d] \in Critical => d = c
  BY <1>2 DEF Inv, MutexInv, Critical
<1>4. \A p \in Proc : list'[p] = IF list[p] = "moving" THEN "destroy" ELSE list[p]
  <2>1. CASE KillLink(c)
    BY <2>1 DEF KillLink
  <2>2. CASE ExitLink(c)
    BY <1>1, <2>2 DEF ExitLink, Inv, MutexInv
  <2>3. QED
    BY <2>1, <2>2
<1>5. /\ pc'[c] = IF pc[c] = "moving" THEN "woken" ELSE "exiting"
      /\ \A d \in Task : d # c => pc'[d] = pc[d] /\ call'[d] = call[d]
  BY <1>2, MovesEach, SMTT(30) DEF Goes
<1>6. MutexInv'
  BY <1>2, <1>3, <1>4, <1>5, TaskIsNotFree DEF MutexInv, Critical
<1>7. RunsOnlyWhileActive'
  <2>1. \A d \in Task : list[d[1]] = "active" => list'[d[1]] = "active"
    BY <1>4, TaskIsNotFree
  <2>2. pc[c] = "leaving" => c[2] = 0 /\ list'[c[1]] = "destroy"
    BY <1>1, <1>4 DEF Inv, MutexInv, RunInv, RunsOnlyWhileActive
  <2>3. \A d \in Task : list[d[1]] \in Ended \union {"moving"} =>
                        list'[d[1]] \in Ended \union {"moving"}
    BY <1>4, TaskIsNotFree DEF Ended
  <2>4. pc[c] = "moving" => list'[c[1]] = "active"
    BY <2>1 DEF Inv, RunInv, RunsOnlyWhileActive
  <2>5. \A d \in Task : d # c => pc'[d] = pc[d] /\ pc[d] # "leaving"
    BY <1>3, <1>5 DEF Critical
  <2>6. QED
    BY <1>2, <1>5, <2>1, <2>2, <2>3, <2>4, <2>5
    DEF Inv, RunInv, RunsOnlyWhileActive, Ended
<1>8. RunInv'
  <2>1. \A d \in Task : pc'[d] \in Creating =>
            pc[d] \in Creating /\ call'[d] = call[d]
    BY <1>2, <1>5 DEF Creating
  <2>2. QED
    BY <1>4, <1>7, <2>1 DEF Inv, RunInv
<1>9. QED
  BY <1>6, <1>8

(* A task that ends itself keeps the mutex: nothing moves any more. *)
LEMMA SelfEndSafe ==
    ASSUME Inv, SelfEnd, NEW c \in Task,
           NEW gone, NEW woken, Moves(gone, woken, c, "none"),
           woken \subseteq {d \in Task : pc[d] = "waiting"},
           list' = list, mtx = Free, mtx' = c
    PROVE  MutexInv' /\ RunInv'
<1>1. /\ \A d \in Task : pc[d] \notin Critical
      /\ \A p \in Proc : list[p] # "moving"
  BY FreeMutex DEF Inv
<1>2. \A d \in Task : \/ pc'[d] = pc[d]
                      \/ pc'[d] = "none"
                      \/ pc'[d] \in {"user", "woken"} /\ pc[d] = "waiting"
  <2>1. SUFFICES ASSUME NEW d \in Task
                 PROVE  \/ pc'[d] = pc[d]
                        \/ pc'[d] = "none"
                        \/ pc'[d] \in {"user", "woken"} /\ pc[d] = "waiting"
    OBVIOUS
  <2>2. CASE d \in gone \/ d = c
    <3>1. CASE d \in gone
      BY <3>1, MovesEach
    <3>2. CASE d \notin gone /\ d = c
      BY <3>2, MovesEach
    <3>3. QED
      BY <2>2, <3>1, <3>2
  <2>3. CASE d \notin gone /\ d # c /\ d \in woken
    BY <2>3, MovesEach
  <2>4. CASE d \notin gone /\ d # c /\ d \notin woken
    BY <2>4, MovesEach
  <2>5. QED
    BY <2>2, <2>3, <2>4
<1>3. \A d \in Task : pc'[d] \notin Critical
  BY <1>1, <1>2 DEF Critical
<1>4. MutexInv'
  BY <1>1, <1>3, TaskIsNotFree DEF MutexInv, Critical
<1>5. \A d \in Task : pc[d] = "waiting" => list[d[1]] = "active"
  BY DEF Inv, RunInv, RunsOnlyWhileActive
<1>6. \A d \in Task : pc'[d] \in Creating =>
          pc[d] \in Creating /\ call'[d].obj = call[d].obj
  <2>1. SUFFICES ASSUME NEW d \in Task, pc'[d] \in Creating
                 PROVE  pc[d] \in Creating /\ call'[d].obj = call[d].obj
    OBVIOUS
  <2>2. d \notin gone
    BY <2>1, MovesEach DEF Creating
  <2>3. CASE d = c
    BY <2>1, <2>2, <2>3, MovesEach DEF Creating
  <2>4. CASE d # c
    BY <2>1, <2>2, <2>4, MovesEach DEF Creating
  <2>5. QED
    BY <2>3, <2>4
<1>7. RunInv'
  BY <1>2, <1>5, <1>6, RunQuiet DEF Inv
<1>8. QED
  BY <1>4, <1>7

(* Freeing a zombie disturbs nobody: none of its tasks runs. *)
LEMMA RemoveZombieSafe ==
    ASSUME Inv, NEW c \in Task, RemoveZombie(c)
    PROVE  MutexInv' /\ RunInv'
<1> DEFINE q == call[c].obj
<1>1. /\ list \in [Proc -> List] /\ pc \in [Task -> PC] /\ call \in [Task -> Call]
      /\ mtx \in Task \union {Free}
  BY DEF Inv, TypeOK
<1>2. /\ pc[c] = "removing" /\ mtx' = mtx /\ list[q] = "zombie"
      /\ list' = [list EXCEPT ![q] = "freed"]
  BY DEF RemoveZombie
<1>3. \A d \in Task : \/ pc'[d] = pc[d] /\ call'[d] = call[d]
                      \/ pc'[d] = "user" /\ pc[d] \in {"waiting", "removing"}
  BY <1>1, <1>2, WaitersWait DEF RemoveZombie
<1>4. MutexInv'
  BY <1>1, <1>2, <1>3, MutexQuiet DEF Inv, Critical
<1>5. \A p \in Proc : list'[p] = list[p] \/ (list[p] = "zombie" /\ list'[p] = "freed")
  BY <1>1, <1>2
<1>6. \A d \in Task : pc'[d] = "user" /\ pc'[d] # pc[d] => list[d[1]] = "active"
  BY <1>3 DEF Inv, RunInv, RunsOnlyWhileActive
<1>7. RunsOnlyWhileActive'
  <2>1. SUFFICES ASSUME NEW d \in Task, pc'[d] # "none"
                 PROVE  \/ list'[d[1]] = "active"
                        \/ d[2] = 0 /\ pc'[d] = "leaving" /\ list'[d[1]] = "moving"
                        \/ /\ d[2] = 0 /\ pc'[d] = "exiting"
                           /\ list'[d[1]] \in Ended \union {"moving"}
    BY DEF RunsOnlyWhileActive
  <2>2. CASE pc'[d] # pc[d]
    BY <1>3, <1>5, <1>6, <2>2, TaskIsNotFree
  <2>3. CASE pc'[d] = pc[d]
    <3>1. \/ list[d[1]] = "active"
          \/ d[2] = 0 /\ pc[d] = "leaving" /\ list[d[1]] = "moving"
          \/ d[2] = 0 /\ pc[d] = "exiting" /\ list[d[1]] \in Ended \union {"moving"}
      BY <2>1, <2>3 DEF Inv, RunInv, RunsOnlyWhileActive
    <3>2. QED
      BY <1>5, <2>3, <3>1, TaskIsNotFree DEF Ended
  <2>4. QED
    BY <2>2, <2>3
<1>8. \A d \in Task : pc'[d] \in Creating => pc[d] \in Creating /\ call'[d] = call[d]
  BY <1>3 DEF Creating
<1>9. RunInv'
  BY <1>5, <1>7, <1>8 DEF Inv, RunInv
<1>10. QED
  BY <1>4, <1>9

-----------------------------------------------------------------------------
(* A call keeps its operation and its argument until it ends, so unless    *)
(* programs end themselves no call in progress is one to do so.            *)
SelfInv ==
    /\ \A c \in Task : pc[c] = "none" => call[c] = NoCall
    /\ \A c \in Task : pc[c] = "ending" => c[2] = 0 \/ SelfEnd
    /\ ~ SelfEnd => \A c \in Task :
           /\ call[c].op = "kill"   => call[c].arg # pid[c[1]]
           /\ call[c].op = "cancel" => call[c].arg # c[2]

LEMMA SelfQuiet ==
    ASSUME SelfInv, pid' = pid,
           \A d \in Task : \/ call'[d] = NoCall
                           \/ /\ call'[d].op \in {call[d].op, "reap"}
                              /\ call'[d].arg = call[d].arg
                              /\ pc'[d] = "none" => pc[d] = "none" /\ call'[d] = call[d],
           \A d \in Task : pc'[d] = "ending" =>
                            pc[d] = "ending" \/ d[2] = 0 \/ SelfEnd
    PROVE  SelfInv'
<1>1. \A c \in Task : pc'[c] = "none" => call'[c] = NoCall
  BY DEF SelfInv
<1>2. ASSUME ~ SelfEnd, NEW c \in Task
      PROVE  /\ call'[c].op = "kill"   => call'[c].arg # pid[c[1]]
             /\ call'[c].op = "cancel" => call'[c].arg # c[2]
  BY <1>2 DEF SelfInv, NoCall
<1>3. \A c \in Task : pc'[c] = "ending" => c[2] = 0 \/ SelfEnd
  BY DEF SelfInv
<1>4. QED
  BY <1>1, <1>2, <1>3 DEF SelfInv

LEMMA SelfMoves ==
    ASSUME SelfInv, pid' = pid, NEW gone, NEW woken, NEW c \in Task, NEW at,
           Moves(gone, woken, c, at), at = "ending" => c[2] = 0 \/ SelfEnd
    PROVE  SelfInv'
<1>1. ASSUME NEW d \in Task
      PROVE  \/ call'[d] = NoCall
             \/ call'[d] = call[d] /\ (pc'[d] = "none" => pc[d] = "none")
  <2>1. CASE d \in gone \/ (d = c /\ at = "none")
    BY <2>1, MovesCall
  <2>2. CASE d \notin gone /\ d = c /\ at # "none"
    BY <2>2, MovesEach, MovesCall
  <2>3. CASE d \notin gone /\ d # c
    BY <2>3, MovesEach, MovesCall
  <2>4. QED
    BY <2>1, <2>2, <2>3
<1>2. ASSUME NEW d \in Task, pc'[d] = "ending"
      PROVE  pc[d] = "ending" \/ d[2] = 0 \/ SelfEnd
  <2>1. d \notin gone
    BY <1>2, MovesEach
  <2>2. CASE d = c
    BY <1>2, <2>1, <2>2, MovesEach
  <2>3. CASE d # c
    BY <1>2, <2>1, <2>3, MovesEach
  <2>4. QED
    BY <2>2, <2>3
<1>3. QED
  BY <1>1, <1>2, SelfQuiet

LEMMA SelfEnter ==
    ASSUME Inv, SelfInv, NEW c \in Task, NEW new \in Call, EnterKernel(c, new),
           ~ SelfEnd => /\ new.op = "kill"   => new.arg # pid[c[1]]
                        /\ new.op = "cancel" => new.arg # c[2]
    PROVE  SelfInv'
<1>1. pc \in [Task -> PC] /\ call \in [Task -> Call]
  BY DEF Inv, TypeOK
<1>2. /\ call'[c] = new /\ pc'[c] \in {"cleaning", "handler"} /\ pid' = pid
      /\ \A d \in Task : d # c => pc'[d] = pc[d] /\ call'[d] = call[d]
  BY <1>1 DEF EnterKernel, procVars
<1>3. QED
  BY <1>2 DEF SelfInv

-----------------------------------------------------------------------------
(* Every step. *)

(* The actions in which one task goes from a place to another and no list  *)
(* changes.                                                                *)
QuietStep(c) ==
    \/ KillNotFound(c) \/ SyncNotFound(c) \/ SyncFlag(c) \/ FlagInvalid(c)
    \/ FlagBlock(c) \/ FlagTaken(c) \/ FlagTimeout(c) \/ ReapNotFound(c)
    \/ RemoveNothing(c) \/ ThreadFail(c) \/ OutOfMemory(c) \/ ThreadKillInvalid(c)
    \/ ObjectCreate(c) \/ Register(c) \/ Unlink(c) \/ UnlinkNotFound(c)
    \/ ObjectDestroy(c) \/ TaskExit(c) \/ GetPid(c) \/ Exit(c)

LEMMA QuietGoes ==
    ASSUME NEW c \in Task, QuietStep(c)
    PROVE  \E at : /\ Goes(c, at) /\ at \notin Critical
                   /\ pc[c] \notin Critical
                   /\ at \in Creating => at = "numbered" /\ pc[c] \in Creating
                   /\ at = "none" \/ pc[c] \notin {"none", "exiting"}
                   /\ at = "ending" => c[2] = 0 \/ SelfEnd
<1>1. CASE FlagTaken(c) \/ FlagTimeout(c)
  <2>1. pc[c] \in {"flagwait", "waiting"}
    BY <1>1 DEF FlagTaken, FlagTimeout
  <2>2. Goes(c, Released(c)) \/ Goes(c, "user")
    BY <1>1 DEF FlagTaken, FlagTimeout
  <2>3. QED
    BY <2>1, <2>2 DEF Released, Critical, Creating
<1>2. CASE TaskExit(c)
  BY <1>2 DEF TaskExit, Critical, Creating
<1>3. CASE GetPid(c) \/ Exit(c)
  BY <1>3 DEF GetPid, Exit, Critical, Creating
<1>4. CASE \/ KillNotFound(c) \/ SyncNotFound(c) \/ ReapNotFound(c)
         \/ ThreadFail(c) \/ OutOfMemory(c) \/ ThreadKillInvalid(c)
  BY <1>4 DEF KillNotFound, SyncNotFound, ReapNotFound, ThreadFail,
            OutOfMemory, ThreadKillInvalid, InHandler, Critical, Creating
<1>5. CASE \/ SyncFlag(c) \/ FlagInvalid(c) \/ FlagBlock(c)
         \/ RemoveNothing(c)
  BY <1>5 DEF SyncFlag, FlagInvalid, FlagBlock, RemoveNothing, InHandler, Critical, Creating
<1>6. CASE \/ ObjectCreate(c) \/ Register(c) \/ Unlink(c)
         \/ UnlinkNotFound(c) \/ ObjectDestroy(c)
  BY <1>6 DEF ObjectCreate, Register, Unlink, UnlinkNotFound, ObjectDestroy, InHandler, Critical, Creating
<1>7. QED
  BY <1>1, <1>2, <1>3, <1>4, <1>5, <1>6 DEF QuietStep

LEMMA QuietSafe ==
    ASSUME Inv, SelfInv, NEW c \in Task, QuietStep(c)
    PROVE  MutexInv' /\ RunInv'
<1>1. list' = list /\ mtx' = mtx
  BY DEF QuietStep, procVars, resVars, KillNotFound, SyncNotFound, SyncFlag, FlagInvalid, FlagBlock,
         FlagTaken, FlagTimeout, ReapNotFound, RemoveNothing,
         ThreadFail, OutOfMemory, ThreadKillInvalid, ObjectCreate,
         Register, Unlink, UnlinkNotFound, ObjectDestroy, TaskExit,
         GetPid, Exit
<1>2. QED
  BY <1>1, QuietGoes, GoesQuiet

(* One step per action. *)
LEMMA SafetyStep ==
    ASSUME Inv, SelfInv, [Next]_vars
    PROVE  MutexInv' /\ RunInv'
<1>1. CASE UNCHANGED vars
  BY <1>1 DEF vars, Inv, MutexInv, RunInv, RunsOnlyWhileActive, Ended
<1>2. SUFFICES ASSUME NEW c \in Task, KernelStep(c) \/ ProgramStep(c)
               PROVE  MutexInv' /\ RunInv'
  BY <1>1 DEF Next
<1>3. CASE QuietStep(c)
  BY <1>3, QuietSafe
<1>4. CASE PidCall(c) \/ ThreadCall(c) \/ PlainCall(c) \/ ReapCall(c)
  <2>1. pc[c] \in {"user", "woken"} /\ \E new : EnterKernel(c, new)
    BY <1>4 DEF PidCall, ThreadCall, PlainCall, ReapCall
  <2>2. QED
    BY <2>1, EnterSafe
<1>5. CASE CleanDetached(c) \/ CleanToZombie(c) \/ LinkZombie(c)
  <2>1. pc[c] = "cleaning"
    BY <1>5 DEF CleanDetached, CleanToZombie, LinkZombie
  <2>2. QED
    BY <1>5, <2>1, CleaningSafe
<1>6. CASE CleanedUp(c) \/ ThreadClear(c)
  <2>1. \A q \in Proc : list[q] # "moving"
    BY <1>6 DEF CleanedUp, ThreadClear, Inv, MutexInv, Critical
  <2>2. /\ pc[c] \in {"cleaning", "starting"} /\ list' = list /\ mtx' = Free
        /\ \E at \in {"handler", "user"} : Goes(c, at)
    BY <1>6 DEF CleanedUp, ThreadClear, procVars
  <2>3. QED
    BY <2>1, <2>2, GiveBackSafe
<1>7. CASE CreateAlloc(c)
  BY <1>7, CreateAllocSafe
<1>8. CASE NoPidLeft(c) \/ CreateFail(c) \/ CreateInsert(c)
  BY <1>8, CreateEndSafe
<1>9. CASE KillUnlink(c) \/ ExitUnlink(c)
  BY <1>9, UnlinkSafe
<1>10. CASE KillLink(c) \/ ExitLink(c)
  BY <1>10, LinkSafe
<1>11. CASE RemoveZombie(c)
  BY <1>11, RemoveZombieSafe
<1>12. CASE KillSelf(c) \/ ExitInThread(c)
  <2>1. PICK first : DeletesItself(c, first)
    BY <1>12 DEF KillSelf, ExitInThread
  <2>2. SelfEnd
    BY <1>12, FlagAssumption DEF KillSelf, ExitInThread, SelfInv, WithPid, InHandler
  <2>3. PICK gone, woken :
            /\ Moves(gone, woken, c, "none")
            /\ woken \subseteq {d \in Task : pc[d] = "waiting"}
    BY <2>1, WaitersWait DEF DeletesItself
  <2>4. list' = list /\ mtx = Free /\ mtx' = c
    BY <2>1 DEF DeletesItself
  <2>5. QED
    BY <2>2, <2>3, <2>4, SelfEndSafe
<1>13. CASE ThreadKillSelf(c)
  <2>1. SelfEnd
    BY <1>13, FlagAssumption DEF ThreadKillSelf, SelfInv, InHandler
  <2>2. Moves({}, {}, c, "none") /\ list' = list /\ mtx = Free /\ mtx' = c
    BY <1>13 DEF ThreadKillSelf, Goes, procVars
  <2>3. QED
    BY <2>1, <2>2, SelfEndSafe
<1>14. CASE SyncFind(c) \/ ReapFind(c)
  <2>1. /\ pc[c] = "handler" /\ list' = list /\ mtx' = mtx
        /\ \E at \in {"flagread", "removing"} : pc' = [pc EXCEPT ![c] = at]
        /\ \E q : call' = [call EXCEPT ![c].obj = q]
    BY <1>14 DEF SyncFind, ReapFind, InHandler, procVars
  <2>2. pc \in [Task -> PC] /\ call \in [Task -> Call] /\ mtx \in Task \union {Free}
    BY DEF Inv, TypeOK
  <2>3. /\ pc'[c] \in {"flagread", "removing"}
        /\ \A d \in Task : d # c => pc'[d] = pc[d] /\ call'[d] = call[d]
    BY <2>1, <2>2
  <2>4. list[c[1]] = "active"
    BY <2>1 DEF Inv, RunInv, RunsOnlyWhileActive
  <2>5. MutexInv'
    BY <2>1, <2>2, <2>3, MutexQuiet DEF Inv, Critical
  <2>6. RunInv'
    BY <2>1, <2>3, <2>4, RunQuiet DEF Inv, Creating
  <2>7. QED
    BY <2>5, <2>6
<1>15. CASE ThreadCreate(c)
  <2>1. PICK i \in Tid : /\ pc' = [pc EXCEPT ![c] = "starting", ![<<c[1], i>>] = "user"]
                         /\ call' = [call EXCEPT ![c].arg = i]
                         /\ pc[<<c[1], i>>] = "none"
    BY <1>15 DEF ThreadCreate
  <2>2. /\ pc[c] = "handler" /\ list' = list /\ mtx' = c /\ mtx = Free
    BY <1>15 DEF ThreadCreate, InHandler, procVars
  <2>3. pc \in [Task -> PC] /\ call \in [Task -> Call] /\ c # Free
    BY TaskIsNotFree DEF Inv, TypeOK
  <2>4. /\ pc'[c] = "starting"
        /\ \A d \in Task : d # c =>
              /\ call'[d] = call[d]
              /\ \/ pc'[d] = pc[d]
                 \/ pc'[d] = "user" /\ d[1] = c[1]
    BY <2>1, <2>2, <2>3
  <2>5. list[c[1]] = "active"
    BY <2>2 DEF Inv, RunInv, RunsOnlyWhileActive
  <2>6. /\ \A d \in Task : pc[d] \notin Critical
        /\ \A p \in Proc : list[p] # "moving"
    BY <2>2, FreeMutex DEF Inv
  <2>7. MutexInv'
    BY <2>2, <2>3, <2>4, <2>6 DEF MutexInv, Critical
  <2>8. RunInv'
    BY <2>2, <2>4, <2>5, RunQuiet DEF Inv, Creating
  <2>9. QED
    BY <2>7, <2>8
<1>16. CASE ThreadKill(c) \/ ThreadReturn(c)
  <2>1. PICK gone, woken, at :
            /\ Moves(gone, woken, c, at)
            /\ woken \subseteq {d \in Task : pc[d] = "waiting"}
            /\ at \in {"user", "none"} /\ pc[c] \in {"user", "handler"}
    <3>1. CASE ThreadKill(c)
      BY <3>1, WaitersWait DEF ThreadKill, InHandler
    <3>2. CASE ThreadReturn(c)
      BY <3>2, WaitersWait DEF ThreadReturn
    <3>3. QED
      BY <1>16, <3>1, <3>2
  <2>2. list' = list /\ mtx' = mtx /\ mtx = Free
    BY <1>16 DEF ThreadKill, ThreadReturn, procVars
  <2>3. \A d \in Task : pc[d] \notin Critical
    BY <2>2, FreeMutex DEF Inv
  <2>4. QED
    BY <2>1, <2>2, <2>3, MovesQuiet DEF Critical, Creating
<1>17. QED
  BY <1>2, <1>3, <1>4, <1>5, <1>6, <1>7, <1>8, <1>9, <1>10, <1>11, <1>12, <1>13,
     <1>14, <1>15, <1>16 DEF KernelStep, ProgramStep, QuietStep

LEMMA SelfStep ==
    ASSUME Inv, SelfInv, [Next]_vars
    PROVE  SelfInv'
<1>1. CASE UNCHANGED vars
  BY <1>1 DEF vars, SelfInv
<1>2. SUFFICES ASSUME NEW c \in Task, KernelStep(c) \/ ProgramStep(c)
               PROVE  SelfInv'
  BY <1>1 DEF Next
<1>3. pc \in [Task -> PC] /\ call \in [Task -> Call]
  BY DEF Inv, TypeOK
<1>4. CASE QuietStep(c) /\ ~ GetPid(c)
  <2>1. pid' = pid
    BY <1>4 DEF QuietStep, procVars, resVars, KillNotFound, SyncNotFound, SyncFlag,
       FlagInvalid, FlagBlock, FlagTaken, FlagTimeout, ReapNotFound, RemoveNothing,
       ThreadFail, OutOfMemory, ThreadKillInvalid, ObjectCreate, Register, Unlink,
       UnlinkNotFound, ObjectDestroy, TaskExit, Exit
  <2>2. QED
    BY <1>4, <2>1, QuietGoes, SelfMoves DEF Goes
<1>5. CASE GetPid(c)
  <2>1. Goes(c, "numbered") /\ pc[c] = "allocated"
    BY <1>5 DEF GetPid
  <2>2. \A q \in Proc : q # call[c].obj => pid'[q] = pid[q]
    BY <1>5 DEF GetPid, Inv, TypeOK
  <2>3. list[call[c].obj] = "creating"
    BY <2>1 DEF Inv, RunInv, Creating
  <2>4. \A d \in Task : d[1] = call[c].obj => pc[d] = "none"
    BY <2>3, OnlyActiveRuns DEF Ended
  <2>5. \A d \in Task : d[1] = call[c].obj => call[d] = NoCall
    BY <2>4 DEF SelfInv
  <2>6. ASSUME NEW d \in Task
        PROVE  call'[d] = call[d] /\ (IF d = c THEN pc'[d] = "numbered" ELSE pc'[d] = pc[d])
    <3>1. Moves({}, {}, c, "numbered")
      BY <2>1 DEF Goes
    <3>2. QED
      BY <3>1, MovesEach
  <2>7. \A d \in Task : d[1] # call[c].obj => pid'[d[1]] = pid[d[1]]
    BY <2>2, TaskIsNotFree
  <2>8. /\ (\A d \in Task : pc[d] = "none" => call[d] = NoCall)'
        /\ (\A d \in Task : pc[d] = "ending" => d[2] = 0 \/ SelfEnd)'
    BY <2>6 DEF SelfInv
  <2>9. ASSUME ~ SelfEnd, NEW d \in Task
        PROVE  /\ call'[d].op = "kill"   => call'[d].arg # pid'[d[1]]
               /\ call'[d].op = "cancel" => call'[d].arg # d[2]
    <3>1. CASE d[1] = call[c].obj
      BY <2>5, <2>6, <3>1 DEF NoCall
    <3>2. CASE d[1] # call[c].obj
      BY <2>6, <2>7, <2>9, <3>2 DEF SelfInv
    <3>3. QED
      BY <3>1, <3>2
  <2>10. QED
    BY <2>8, <2>9 DEF SelfInv
<1>6. CASE \/ KillUnlink(c) \/ ExitUnlink(c) \/ KillLink(c) \/ ExitLink(c)
           \/ CleanedUp(c) \/ NoPidLeft(c) \/ CreateFail(c) \/ ThreadKill(c)
           \/ ThreadClear(c) \/ ThreadReturn(c) \/ KillSelf(c) \/ ExitInThread(c) \/ ThreadKillSelf(c)
  <2>1. \E gone, woken, at : Moves(gone, woken, c, at) /\ at # "ending"
    BY <1>6 DEF KillUnlink, ExitUnlink, KillLink, ExitLink, CleanedUp, NoPidLeft,
       CreateFail, ThreadKill, ThreadClear, ThreadReturn, KillSelf, ExitInThread,
       ThreadKillSelf, DeletesItself, Goes
  <2>2. pid' = pid
    BY <1>6 DEF KillUnlink, ExitUnlink, KillLink, ExitLink, CleanedUp, NoPidLeft,
       CreateFail, ThreadKill, ThreadClear, ThreadReturn, KillSelf, ExitInThread,
       ThreadKillSelf, DeletesItself, procVars
  <2>3. QED
    BY <2>1, <2>2, SelfMoves
<1>7. CASE CleanDetached(c) \/ RemoveZombie(c)
  <2>1. pid' = pid
    BY <1>7 DEF CleanDetached, RemoveZombie
  <2>2. \A d \in Task : \/ call'[d] = NoCall /\ pc'[d] = "user"
                        \/ call'[d] = call[d] /\ pc'[d] = pc[d]
    BY <1>7 DEF CleanDetached, RemoveZombie
  <2>3. QED
    BY <2>1, <2>2, SelfQuiet
<1>8. CASE CleanToZombie(c) \/ LinkZombie(c)
  <2>1. pid' = pid /\ call' = call /\ pc' = pc
    BY <1>8 DEF CleanToZombie, LinkZombie
  <2>2. QED
    BY <2>1, SelfQuiet
<1>9. CASE CreateAlloc(c) \/ SyncFind(c) \/ ReapFind(c)
  <2>1. /\ pid' = pid /\ pc[c] = "handler"
        /\ \E q : call' = [call EXCEPT ![c].obj = q]
        /\ \E at \in {"allocated", "flagread", "removing"} : pc' = [pc EXCEPT ![c] = at]
    BY <1>9 DEF CreateAlloc, SyncFind, ReapFind, InHandler, procVars
  <2>2. /\ call'[c].op = call[c].op /\ call'[c].arg = call[c].arg
        /\ pc'[c] \notin {"none", "ending"}
        /\ \A d \in Task : d # c => call'[d] = call[d] /\ pc'[d] = pc[d]
    BY <1>3, <2>1 DEF Call
  <2>3. QED
    BY <2>1, <2>2, SelfQuiet
<1>10. CASE CreateInsert(c)
  <2>1. /\ pid' = pid /\ call' = [call EXCEPT ![c] = NoCall]
        /\ \E e : pc' = [pc EXCEPT ![c] = "user", ![e] = "user"]
    BY <1>10 DEF CreateInsert
  <2>2. /\ call'[c] = NoCall
        /\ \A d \in Task : d # c => call'[d] = call[d]
        /\ \A d \in Task : pc'[d] = pc[d] \/ pc'[d] = "user"
    BY <1>3, <2>1
  <2>3. QED
    BY <2>1, <2>2, SelfQuiet
<1>11. CASE PidCall(c)
  <2>1. PICK o \in {"kill", "wait"}, k \in Pid :
            EnterKernel(c, CallOf(o, k)) /\ (o = "kill" /\ k = pid[c[1]] => SelfEnd)
    BY <1>11 DEF PidCall
  <2>2. CallOf(o, k) \in Call
    BY <2>1, CallOfType DEF Op, Pid
  <2>3. QED
    BY <2>1, <2>2, SelfEnter DEF CallOf
<1>12. CASE ThreadCall(c)
  <2>1. PICK o \in {"cancel", "join"}, i \in 1 .. MaxThreads :
            EnterKernel(c, CallOf(o, i)) /\ (o = "cancel" /\ i = c[2] => SelfEnd)
    BY <1>12 DEF ThreadCall
  <2>2. CallOf(o, i) \in Call
    BY <2>1, CallOfType DEF Op
  <2>3. QED
    BY <2>1, <2>2, SelfEnter DEF CallOf
<1>13. CASE PlainCall(c)
  <2>1. PICK o \in {"create", "thread", "open", "close"} : EnterKernel(c, CallOf(o, 0))
    BY <1>13 DEF PlainCall
  <2>2. CallOf(o, 0) \in Call
    BY <2>1, CallOfType DEF Op
  <2>3. QED
    BY <2>1, <2>2, SelfEnter DEF CallOf
<1>14. CASE ReapCall(c)
  <2>1. [call[c] EXCEPT !.op = "reap"] \in Call /\ call[c] \in Call
    BY <1>3 DEF Call, Op
  <2>2. QED
    BY <1>14, <2>1, SelfEnter DEF ReapCall, Call
<1>15. CASE ThreadCreate(c)
  <2>1. /\ pid' = pid /\ pc[c] = "handler" /\ call[c].op = "thread"
        /\ \E i : call' = [call EXCEPT ![c].arg = i]
        /\ \E e : pc' = [pc EXCEPT ![c] = "starting", ![e] = "user"]
    BY <1>15 DEF ThreadCreate, InHandler, procVars
  <2>2. /\ call'[c].op = "thread" /\ pc'[c] \in {"starting", "user"}
        /\ \A d \in Task : d # c => call'[d] = call[d]
        /\ \A d \in Task : d # c => pc'[d] = pc[d] \/ pc'[d] = "user"
    BY <1>3, <2>1 DEF Call
  <2>3. QED
    BY <2>1, <2>2 DEF SelfInv
<1>16. QED
  BY <1>2, <1>4, <1>5, <1>6, <1>7, <1>8, <1>9, <1>10, <1>11, <1>12, <1>13, <1>14, <1>15
  DEF KernelStep, ProgramStep, QuietStep

-----------------------------------------------------------------------------
LEMMA SafetyInit == Init => Inv /\ SelfInv
<1>1. Init => TypeOK
  BY TypeInit
<1>2. Init => MutexInv
  BY ProcAssumption DEF Init, MutexInv, Critical
<1>3. Init => RunInv
  BY ProcAssumption DEF Init, RunInv, RunsOnlyWhileActive, Creating, Task
<1>4. Init => SelfInv
  BY DEF Init, SelfInv, NoCall
<1>5. QED
  BY <1>1, <1>2, <1>3, <1>4 DEF Inv

LEMMA Invariance == Spec => [](Inv /\ SelfInv)
<1>1. Inv /\ SelfInv /\ [Next]_vars => (Inv /\ SelfInv)'
  BY TypeStep, SafetyStep, SelfStep DEF Inv
<1>2. QED
  BY <1>1, SafetyInit, PTL DEF Spec

(* A task runs only while its process is on the active list, however the   *)
(* programs create, kill and end one another (process.c: process_move_list  *)
(* after _task_destroy of the table, both under process_mtx).              *)
THEOREM RunsOnlyWhileActiveHolds == Spec => []RunsOnlyWhileActive
<1>1. Inv => RunsOnlyWhileActive
  BY DEF Inv, RunInv
<1>2. QED
  BY <1>1, Invariance, PTL

(* process_mtx is never left owned and only its owner has a process off    *)
(* the lists, as long as no task ends itself inside the critical section.  *)
THEOREM MovesUnderMutexHolds ==
    ASSUME ~ SelfEnd
    PROVE  Spec => []MovesUnderMutex
<1>1. Inv => MovesUnderMutex
  BY DEF Inv, MutexInv, MovesUnderMutex, Critical
<1>2. QED
  BY <1>1, Invariance, PTL
=============================================================================
