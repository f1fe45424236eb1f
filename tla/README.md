# dnx RTOS: models, model checking and proofs

dnx RTOS is a small Unix-like operating system over the FreeRTOS scheduler, for microcontrollers
with a few hundred kilobytes of memory and no memory protection. Programs are linked into the image;
a program in execution is a *process*, a group of FreeRTOS tasks with one list of kernel objects.
This directory holds TLA+ modules of its core, translated from the C source, the configurations that
check them with TLC, and proofs checked by TLAPS. Paths below are relative to `src/src/system/`
unless they begin with `src/`.

1. [The system](#1-the-system)
2. [Inventory](#2-inventory)
3. [The modules](#3-the-modules)
4. [The runs](#4-the-runs)
5. [Fairness](#5-fairness)
6. [What is proved](#6-what-is-proved)
7. [Where the code does something else than it
   says](#7-where-the-code-does-something-else-than-it-says)
8. [What is not modelled](#8-what-is-not-modelled)
9. [Plan](#9-plan)

## 1. The system

```
   programs          initd, dsh, telnetd, ...            several tasks each
      | syscall()         | flag_wait(), mutex_lock(), queue_*(): directly
   kernel/syscall.c   clean up ended processes, then run the handler
      |                         |               |              |
   kernel/process.c         fs/vfs.c        mm/shm.c      net/netm.c
   processes, threads,      mounts, FILEs                 net/sipc
   PIDs, owned objects          |
      |                fs/ramfs, eefs, procfs, ...   --- drivers/drvctrl.c --- drivers/*
      |                         |
      |                     fs/pipe.c
   kernel/kwrapper.c   tasks, mutexes, semaphores, queues, event flags, scheduler lock
   FreeRTOS
```

*There is no kernel task for a program's calls.* `syscall()` runs the handler in the task of the
caller, so several handlers run at the same time, preempt one another between any two statements,
and are kept apart only by mutexes: `process_mtx` for the process lists, one `resource_mtx` per
mounted file system, one in the VFS, one per list or device. A few places lock the scheduler
instead. (kworker, the kernel's own process, only syncs the file systems from time to time and
brings the network up.)

*A program can be killed at any moment.* `process_kill()` deletes the tasks of another process
wherever they are, in a handler too. Nothing is unwound; the process goes on the destroy list, and
its memory and objects are given back at the entry of the next system call *of anybody*
(`_process_clean_up_killed_processes`).

*Waiting is a library function.* `process_wait()` in `include/libc/dnx/thread.h` is three separate
steps: a system call for the event flag of the child, a `flag_wait()` outside the kernel, a system
call that reaps the zombie. `process_kill()` and `thread_join2()` are built likewise. Between them
everything else can happen.

## 2. Inventory

For each component: the state it keeps, what changes it, whom it talks to, what is hard about it,
what makes it correct. *Status* is: M modelled in part or whole, P planned, - left out.

| Component | State | Operations | Status |
|---|---|---|---|
| Process and thread table `kernel/process.c` | three lists (active, destroy, zombie), `PID_cnt`, per process: PID, event flag, task table, objects, status | create, kill, exit, abort, clean-up, remove zombie, thread create/kill/exit, register/release object | M |
| System call dispatcher `kernel/syscall.c` | none of its own; errno of the caller | entry, about 70 handlers | M in part |
| Kernel wrapper `kernel/kwrapper.c` | wraps FreeRTOS objects | mutex, semaphore, queue, flag, task, scheduler lock | M in part |
| Pipe `fs/pipe.c` | a queue of bytes, two flags | create, read, write, close, clear, permanent, destroy | M |
| RAM file system `fs/ramfs/ramfs.c` | tree of nodes, `file_count`, list of open files | mkdir, mkfifo, mknod, open, close, remove, rename, read, write, ioctl, stat, directories | M |
| Virtual file system `fs/vfs.c`, `fs/fsctrl.c` | list of mounts with children counts, FILE objects | mount, umount, fopen, fclose, fread, fwrite, fseek, directories, ... | M: mounts, look-ups, open and close |
| Driver control `drivers/drvctrl.c` | per module, a list of instances with their memory | init, release, open, close, read, write, ioctl; device lock | P |
| Shared memory `mm/shm.c` | list of regions, each with the PIDs attached | create, destroy, attach, detach, detach_anywhere | P |
| SIPC `net/sipc/*` | sockets, receive buffers, sequence counter | connect, bind, send, recv, disconnect, the input thread | M |
| Kernel heap `mm/heap.c`, `mm/mm.c` | regions with a free list each | alloc, free, with flags for the kind of memory | P (last) |
| Kernel log `kernel/printk.c` | ring of messages with unique time stamps | printk, read from a time on, clear | P |
| Loop device, EEFS | request of a host program; blocks of an EEPROM | read/write/ioctl; a block file system | candidates |
| Network manager, lists and trees, formatting and libc, time, hooks, panic, terminal, hardware drivers, procfs, romfs, FAT and EXT4 ports, programs, IPC library, FreeRTOS | | | - (section 8) |

**Process table.** Its callers are the dispatcher and, for objects, all handlers that open or close
something; it calls the VFS, shared memory and the heap to give objects back. Hard: a kill or an
exit against every other operation; `process_move_list` takes a process off one list and puts it on
the next in two steps, while `_process_get_container` reads the lists under the scheduler lock and
not under the mutex; the exit flag is set *before* the process reaches the destroy list; PIDs and
thread slots are used again. Correct means: no task of a process runs after it left the active list;
an ended process owns nothing; an object is given back once; a parent that was awakened finds its
zombie; a waiter is released; `process_mtx` is always going to be released; a PID names one process.

**Dispatcher.** Correct means: every call first cleans up what has ended, so the second call of
`process_wait()` finds the child on the zombie list.

**Kernel wrapper.** Event flags are taken with clear-on-exit by the *waiters*, and a set bit stays
only if nobody waited; a timed out wait returns the bits that happen to be set. Queues wait for at
most the time given, with 49 days as for ever. Recursive mutexes; a task that is deleted keeps those
it owns.

**Pipe.** RAMFS calls it *without* its mutex (a blocking read would stop the file system), so reads,
writes and closes of one pipe interleave at every access. A close sets a flag and sends a NUL to
awaken the reader, and gives the NUL up when the queue stays full. Hard: the reader looks at the
length, at the flag, then sleeps. Correct means: it never sleeps through the end; a blocking read
returns nothing only at the end; at the end everything written has been read.

**RAM file system.** Called by the VFS and by `_driver_init` (mknod), calls pipes and drivers. A
file removed while open is only marked. `delete_node` erases *by position* what `get_node` found by
name. Hard: removal and rename against open files; the stay in pipes and drivers without the mutex;
drivers that refuse; fopen that fails after the file system has opened the file. Correct means: the
tree is a tree and `file_count` its size; nothing in use is deleted; all openers agree on whether a
file is removed; every entry of the list of open files is somebody's; a removed file goes with its
last close.

**Virtual file system.** A table of mounted file systems, searched by path under the VFS mutex; what
was found is used after the mutex is released. An umount looks at two things only: the count of file
systems mounted below, and whether the file system itself refuses because a file is open. Hard: the
count is increased before the child exists (`vfs.c:207`) and is a `u8_t`; the table is ordered by
time and searched by prefix (`vfs.c:1488`). Correct means: no file system is taken away from under
another; a directory carries one; a path is served by the nearest mount above it.

**SIPC.** The network of dnx over a serial line: each data packet waits for its answer, ACK, REPEAT
(damaged), NACK (nobody there) or BUSY (full, an ACK follows), in a queue of one entry. No answer
says what it answers: sequence numbers are sent and not compared (`sipc.c:1107`). The input thread
finds the socket, stores, looks at the room and answers in separate steps while the socket's owner
reads and disconnects. Hard: a damaged ACK makes the other side repeat data that was received
(`sipc.c:573`); an answer that comes after a timeout; BUSY set after the reader has made room.
Correct means: what was reported as sent has come, once and in order, as long as nothing went wrong,
and in order in any case; the receive buffer, which refuses nothing, goes over its soft capacity by
less than one packet; a sender is answered.

**Planned ones.** *Driver control*: the pointer of the driver's memory outlives the lookup
(`drvctrl.c:349`). *Shared memory*: the clean-up detaches a *PID*, which may be a new process's by
then (`shm.c:286`).

`PROJECT.json` lists all hazards with their lines and the properties that would catch them.

## 3. The modules

| Module | What it is |
|---|---|
| `Process` | process table, dispatcher, event flags, object registration, and the library calls over them |
| `Pipe` | a pipe and the queue under it |
| `Ramfs` | the RAM file system, with fopen and fclose of the VFS |
| `Vfs` | the table of mounts, look-ups, and the calls that use what they looked up |
| `Sipc` | a SIPC connection: two ends and the line between them |
| `Lifecycle` | what the process table promises: one life per program, one fate per object; `Process` implements it |
| `Tree` | what directories, and mounts, promise; `Ramfs` and `Vfs` implement it |
| `Stream` | what one direction of a connection promises; `Sipc` implements it twice |
| `MCProcess`, `MCPipe`, `MCRamfs`, `MCVfs`, `MCSipc` | instances for TLC: who makes which calls, symmetry |
| `ProcessProofs`, `ProcessSafetyProofs`, `PipeProofs`, `RamfsProofs`, `VfsProofs`, `StreamProofs`, `SipcProofs` | theorems |
| `ListLemmas` | facts about removing from sequences that `RamfsProofs` rests on |

An operator `XMutant` beside `X` is `X` with a plausible mistake; no specification uses it. For
every property of a passing run there is one mistake that makes that run fail with that property.

### Process

| Model | Code |
|---|---|
| `list[p]` | which list the container is on; `unborn`, `creating`, `moving`, `freed` are the places in between |
| `pid`, `pidCnt`, `detached`, `status` | fields of `_process_t`; `PID_cnt` |
| `event`, `exitBit` | the event flag object exists; the exit bits set in it (bit i for thread i, 0 for the process) |
| `pc`, `call` | where each task is, and the call it is in |
| `mtx` | owner of `process_mtx` |
| `rstate`, `rproc`, `rtask` | an object (file, directory, mutex, ...): made, listed, unlinked, gone; whose; in which task's hands |

One action is one critical section, or one access outside of any: `CreateAlloc`, `GetPid`,
`CreateInsert` are the parts of `_process_create`; `KillUnlink`/`KillLink` and
`ExitUnlink`/`ExitLink` the two halves of `process_move_list`, during which the process is on no
list; `SyncFind`, `SyncFlag`, `FlagBlock`, `ReapFind`, `RemoveZombie` the steps of `process_wait()`.
`EnterKernel` is the entry of every call, with the clean-up before it. Deleting tasks, with what
they were doing, is `Moves` and `ForgottenBy`: an object a deleted task had made and not registered
belongs to nobody from then on, as in the code.

`_process_thread_create` is two actions. `ThreadCreate` puts the thread in its slot and lets it run,
for `_task_create` gives the caller's priority back and yields before it returns (`kwrapper.c:273`);
`ThreadClear`, with the mutex still owned and the creator at `starting`, clears the exit bit of the
slot (`process.c:1098-1102`). In between the new thread and joiners, who take no `process_mtx`, go
on, and the bit may be the one of the thread before (`BeingCreated`).

`Container` is `_process_get_container` with its order of lists, so a PID used twice finds what the
code finds. `DeletesItself` is what happens when a program's own task is in the table it destroys:
`vTaskDelete` does not return, and the mutex stays owned. The constant `SelfEnd` says whether
programs do that; `Timeouts` whether waits are finite.

`Lifecycle` says what all this comes to without lists, mutex, PIDs and flags: a program is absent,
running, ended, a zombie or gone, and ends with all its threads in one step; an object is being
made, owned, being released or gone, or *lost* when the thread that had it was deleted.
`KeepsLifecycle` is `INSTANCE Lifecycle WITH` the mapping `LifeOf`, `Runs`, `FateOf`. The walk of
`process_kill` over the tasks and the first half of `process_move_list` are the one step `End`; a
program that is `moving` has ended. A main thread in `_process_exit` counts as stopped, since it
does nothing for its program any more.

Two processes never share a container (memory is not used again in the model; stale pointers show as
operations on a `freed` container). Each process is created at most once, so `Proc` bounds the
number of creations.

### Pipe

`queue` and `flag` are the pipe's; `io[t]` is a transfer's loop state; `loaded[t]` the flags a task
has loaded and not stored, `flag |= x` being two accesses. Bytes are `data` or `nul`: what they
carry does not matter to the pipe. A read goes round `ReadLength`, `ReadFlag`, then `Receive` or
`ReadEnd`, once per byte. Calls that time out do so only when they cannot go on (`ReceiveTimeout` on
an empty queue), blocking ones never.

### Ramfs

`kids[d]` is the list of a directory in order, `kind`, `name`, `count` the rest of the tree; `files`
and `file` the list of open files with `removeAtClose`; `held[t]` the FILEs of a program,
`opening[t]` the one between `fs_open` and `fs_fstat` in `_vfs_fopen`, `lost` those whose `fs_fstat`
failed; `busy[t]` the node whose pipe or device a task is in without the mutex. Each operation is
one action, since it runs under `resource_mtx` from start to end, except for fopen (two: the VFS
calls the file system twice) and for the input/output of FIFOs and devices (`Enter`, `Leave`).

A list of nodes has no destructor and frees what is erased from it (`llist.c:1098-1103`), so a
deleted node is `free` and the next one may be created at its address. When the path went through a
file nothing is erased, and the node stays as it is, `deleted`.

`Lookup` is `get_node` as it is: in something that is not a directory it stays where it is, for the
size of the list is -1 and the loop over it does nothing. The constant `ThroughFiles` says whether
programs use such paths. `Lends` says whether programs use FILEs that others opened (the shell gives
its FIFOs to its children). `Rename` looks at neither the directory nor the name of the target, as
the code does not; two entries of one name are therefore possible, and the first is found.

`Tree` is the shape alone: nodes, and the node each is below. It grows at the leaves, is pruned at
the leaves, and nothing is ever moved (`rename` only changes the name). `KeepsTree` is `INSTANCE
Tree WITH` the living nodes and the directory in whose list a node is.

### Vfs

| Model | Code |
|---|---|
| `list` | `VFS.mnt_list`, in order of mounting |
| `point`, `parent`, `children` | `FS_entry_t`: `mount_point`, `parent_ptr`, `children_cnt` (counted modulo `CountLimit`, 256) |
| `looked[t]`, `file[t]` | the file system a task found and has not used yet; the one its open FILE is in |
| `lost` | file systems left with an open file that has no FILE (`fs_fstat` failed) |

`Mount`, `MountFails`, `Umount` and the look-ups are the critical sections of `VFS.resource_mtx`;
`Open`, `OpenLosesFile`, `UseEnds`, `Close` come after it. A path is the sequence of its names.
`Base` is `get_path_base_FS` as it is: from the whole path down to its first name, the first entry
of the table whose mount point *begins with* that part of the path. `MountFails` is `fs_closedir` or
`fs_init` failing after the base has been told of a child. Each instance is mounted at most once
(`unused`), so `FS` bounds the mounts. `KeepsTree` is `Tree` again, with the mounted file systems
and `parent`.

### Sipc and Stream

| Model | Code |
|---|---|
| `line[e]` | packets on the way to end `e`: type, port, which chunk, whether damaged |
| `registered[e]`, `port[e]`, `ansq[e]`, `busy[e]` | `socket_list`; the fields of the socket |
| `rxbuf[e]`, `seek[e]`, `total[e]` | the chunks in the receive buffer, the bytes of the first one that have been read, `total_size` in bytes |
| `prog[e]` | where the task is that connects, binds and sends; `await` is `waiting_for_data_ack` |
| `input[e]`, `incoming[e]`, `answerTo[e]` | where `input_thread` is, the chunk it has in hand and the port it will answer on |
| `reader[e]` | where a `SIPC_socket_recv` is |
| `sent`, `got`, `intact` | history: chunks acknowledged, the last chunk read, whether anything went wrong |

`SIPC_socket_send` is `Send`, then `Acknowledged`, `AskedAgain`, `SendFails` or `SendTimeout`, with
`SendAgain` for the next chunk or the repetition. The input thread takes a packet in one action,
except for data: `ReceiveData` (the socket is found), `StoreData`, then `AnswerAck`, or `FindFull`
and `AnswerBusy`, with the owner of the socket running in between. `SIPC_socket_recv` is
`ReadBytes`, `CheckRoom`, `ResumeSender`: the sender it has kept waiting gets its ACK. `Damage` and
`Lose` are the line, as often as `MaxFaults` allows; timeouts, and calls that are refused, count as
faults too.

The buffer is counted in bytes, as `sipcbuf__is_full` counts it (`sipcbuf.c:295`): chunk `i` of end
`e` has `Size[e][i]` bytes, at most `MTU`, and a read takes any number of the bytes there are, part
of a chunk or parts of several (`BytesOf`). A packet is stored whole, whatever room there is.

A packet carries the port it is for, and is taken if the socket has that port at the time (`Found`);
the answer goes back on the port of the packet. A second connect or bind of a registered socket is
refused with EADDRINUSE, leaves the socket in the list and takes its port away (`RegistersAgain`,
`ClosePort`); a disconnection takes it out of the list, empties buffer and queue, and takes the port
away in a later step (`Disconnect`, `ClosePort`), with a recv that is under way going on.

`intact[e]` is history of the direction *from* `e`, and part of no guard: it becomes false when a
connect or a send fails or times out, at a disconnection, when a reader throws data away, or when an
answer is damaged. What the code promises in such cases is less, and `Stream` says both: chunks come
exactly once while intact, and in any case no chunk comes before an earlier one. `HostStream` and
`ClientStream` are `INSTANCE Stream WITH` the sender's `sent` and `intact` and the receiver's
`rxbuf` and `got`; the peer storing a chunk is `Arrive`, the sender taking an ACK is `Confirm`.

### How they fit together

`Process`, `Pipe` and `Ramfs` meet at two places. `Process` knows objects (`Res`) without knowing
what they are; a FILE is one of them, and `Ramfs!Close` is what its destruction does. `Ramfs!Enter`
goes to the pipe and stays there as long as a `Pipe` operation lasts; `InUseAlive` of Ramfs is what
lets Pipe do without a destroy action, since the pipe's only destroyer is `delete_node`. `Vfs!Open`
is the file system side of `Ramfs!Open`, and `Vfs!InUse` its list of open files. `Sipc` is used by
programs only, through descriptors that are objects of `Process`. A composition (a program killed
inside a file system handler) is planned.

## 4. The runs

| Run | Checks | Bounds |
|---|---|---|
| `process_life` | `TypeOK`, `WokenWaiterFindsZombie`, `MovesUnderMutex`, `LifeGoesOn`, `KeepsLifecycle` | 3 processes that create, kill, wait for, end one another, one with a second thread; 2 PIDs, one object |
| `process_threads` | `RunsOnlyWhileActive`, `EndedOwnsNothing`, `DestroyedOnce`, `RunningThreadNotJoined`, `JoinMeansEnded` | 2 processes, one of 3 threads; one object, finite waits, self-ends |
| `process_live` | `WaiterReleased`, `EndedIsCleaned`, `PidNamesOneProcess` | 3 processes, 3 PIDs, waits without limit, no kills |
| `pipe` | `TypeOK`, `WakeupPending`, `ZeroMeansClosed`, `ReaderAwakened` | a reader, a writer, a shell; queue of 2; transfers of 1 and 2 |
| `ramfs` | `TypeOK`, `TreeIsWhole`, `InUseAlive`, `HandlesAgree`, `HandlesOwned`, `KeepsTree` | 2 programs, root and 3 nodes, 2 names, paths of up to 2 names, 2 open files |
| `vfs` | `TypeOK`, `TreeIsWhole`, `ChildrenCounted`, `NearestFoundThen`, `KeepsTree` | 4 file systems, 5 directories of depth 0 to 2, 2 programs, one failed mount |
| `sipc` | `TypeOK`, `StopAndWait`, `WithinCapacity`, `HostStream`, `ClientStream`, `SenderAnswered` | the host sends 2 packets of 2 bytes, the client one byte; buffers of 2 bytes and 1; one fault; one opening each |
| `process_pid` | `PidNamesOneProcess`: violated | as `process_life`, without threads and objects |
| `process_timeout` | `WokenWaiterFindsZombie`: violated | initd waits for a program with a thread |
| `process_self` | `EndTakesEffect`: violated | a program with a thread that ends itself |
| `pipe_end` | `EndAfterData`: violated | a reader and a writer that closes |
| `ramfs_removed` | `RemovedIsGone`: violated | as `ramfs` |

**Why the bounds are enough.** `process_life`: three processes are the least with a parent, its
child and a third that interferes (kills the waiter or the child, or makes a process of the same
PID); two PIDs wrap `PID_cnt` and run out; with a thread and an object in one of the programs every
action of `Lifecycle` takes place, except that no thread is cancelled and no program ends itself:
for those steps of the refinement there is the theorem alone. `process_threads`: a slot is used
again while one thread creates, a second joins and the third is the one that ended, which the window
of `ThreadClear` needs; and any of them may race for the object and for the end of the process. The
proofs of section 6 cover any number of threads and objects. `process_live`: no kills, see section
5. `pipe`: a queue of two, so it is empty, half full and full; a transfer of two bytes loops and has
the different treatment of the first byte; three tasks since the closer may be neither reader nor
writer. `ramfs`: three nodes make a directory with two entries (erasing the first moves the second)
or a tree of depth two; two names make duplicates by rename; two open files are two openers of one
file, or a removal between two openings. `vfs`: the root, two directories of it and two below one of
them, so that file systems stand beside and inside one another, in either order of mounting; four of
the five can be mounted at a time; the failed mount leaves a count too high, and the umount after
it. `sipc`: the client's buffer takes one byte, so the first packet of two already makes the client
BUSY, a read of one byte leaves it full and a read of two does not, and the second packet is the one
a stray ACK would be taken for; the client's own byte has data and answers on the line together; one
fault is one damaged or lost packet of any kind, one timeout, or one refused call, at any place. (In
the code a capacity is at least 256 bytes and an MTU at least 64; what matters is how packets and
capacity compare.) Only the host disconnects, and it does not receive: with an end that does both,
`SenderAnswered` is false (section 7).

**Where the system may stop** (`CHECK_DEADLOCK FALSE`). Process: all tasks have ended, or all wait
for one another's end. Pipe: writers and the reader's own NUL wait without limit on a full queue
that nobody reads. Vfs: every instance has been mounted and unmounted. Sipc: all chunks are sent, or
a sender without a time limit waits for a client that reads no more. Ramfs and the run `pipe_end`
check for deadlock.

What the properties say, in order of how hard they are to test:

* `WakeupPending`: no interleaving of length, flag and sleep in the reader with flag and NUL in a
  closer, the NUL given up on a full queue included, leaves the reader asleep at the end. It holds
  because a queue that was full holds bytes the reader must still take before it sleeps, and it then
  looks at the flag again.
* `WokenWaiterFindsZombie`: `process_wait()` is awakened *before* the child is on the destroy list;
  the mutex and the clean-up at the entry of the next call close that gap.
* `MovesUnderMutex`: `process_mtx` is owned by a task that is alive and about to release it, and at
  most one process is off the lists. It fails when programs end themselves (`process_self`), so it
  is checked and proved without (`SelfEnd = FALSE`).
* `RunsOnlyWhileActive`, `EndedOwnsNothing`, `DestroyedOnce`: a kill or an exit at every point of
  creating and releasing objects, by other threads of the same program too. An object that was made
  and not registered is nobody's, and is never released: the code leaks it, so no property says
  otherwise.
* `KeepsLifecycle`: every step of every handler, kills and self-ends in the middle of one included,
  is one step in the life of a program or of an object, or nothing: no object is destroyed but by
  who has it or by the clean-up, no program settles as a zombie while it owns something, nothing
  comes back.
* `RunningThreadNotJoined`: once `_process_thread_create` is over, the new thread's exit bit is
  clear, or the thread has ended; while it is being created the bit may be the last thread's, though
  the new one runs. `JoinMeansEnded` is what that is for: when a `thread_join2()` without a timeout
  returns, no thread runs in the slot it was called for, whichever way the bit came to be set,
  unless the slot is just then being used again (section 7).
* `PidNamesOneProcess`: violated once PIDs come round (`process_pid`); `process_live` has a PID for
  every program, and there it holds, as the theorem says it must. A search that began at the lowest
  PID would give a zombie's PID away at once.
* `KeepsTree` (both): a node stays below the node it was put below until it goes, and goes when
  nothing is below it. `delete_node` looks at the list of the directory, `_vfs_umount` at a count.
* `TreeIsWhole`, `InUseAlive`, `HandlesAgree`, `HandlesOwned`: sequences of legal file operations by
  two programs.
* `StopAndWait`: while a direction is intact there is at most one thing between its sender and the
  answer, be it the packet, the work of the peer's input thread, the peer's promise, or the answer;
  and nothing when the sender waits for nothing. This is what stands in for the comparison of
  sequence numbers that the code does not make.
* `WithinCapacity`: `sipcbuf__write` refuses nothing, so the bound is the sender's waiting. The
  sender goes on when one byte is free, and sends a whole packet: the buffer goes over its capacity
  by less than one packet ("can exceeds up to MTU", `sipcbuf.c:85`), and by no more as long as the
  direction is intact.
* `HostStream`, `ClientStream`: the refinement, with connects, fragments, repetitions, FREEBUF and
  disconnections.
* `TreeIsWhole`, `ChildrenCounted` of Vfs: umounts look at a count only, which failed mounts leave
  too high and which must never be too low.
* `NearestFoundThen`: the search by prefix of the textual mount point finds the nearest file system,
  when every directory on the way to a mount point was mounted first. Without that premise it does
  not (section 7).

## 5. Fairness

FreeRTOS is preemptive with time slices; tasks of one priority get their turn, and `process_mtx`
hands its owner's priority on. A task inside the kernel, between entry and return, is therefore
scheduled again and again. `Process!FairSpec` states strong fairness of `KernelStep` for each task
in the kernel, and nothing for programs: they need not call, exit or return. It is strong because a
waiting task's step is disabled each time somebody else has the mutex, and FreeRTOS gives a freed
mutex to a waiter; the model has no queue of waiters. Tasks of lower priority can starve in the
system; programs run at the same default priority unless they change it, and priorities are not
modelled. `Pipe!FairSpec` is weak fairness of each task inside an operation: a queue awakens its
waiter. `Sipc!FairSpec` is weak fairness of each end's input thread and of its program inside a
call: nothing another task does disables their steps, for each has its own socket and queue. Readers
need not read, the line need not be faulty and nobody has to time out, so `SenderAnswered` excepts a
peer that is busy (it answers when its program reads) and a history with a fault, a refused call
included.

`WaiterReleased` is checked without kills: with them, it is false. A waiter that took the exit bit
(they are cleared by who is awakened) and is killed before it reaps leaves a second waiter of the
same process asleep; no document promises otherwise. `EndedIsCleaned` says what the code does:
*some* task has to enter the kernel for an ended process to be cleaned up, so the property speaks of
a task that is about to.

## 6. What is proved

TLAPS checks these for every value of the constants that satisfies the named assumptions: any number
of processes, threads, nodes, names, bytes.

| Theorem | Needs | States |
|---|---|---|
| `ProcessProofs!TypeCorrect` | | `TypeOK`; in particular `get_pid` stays within the PIDs though it wraps |
| `ProcessProofs!RunsOnlyWhileActiveHolds` | | `RunsOnlyWhileActive`, self-ends included |
| `ProcessProofs!MovesUnderMutexHolds` | `SelfEnd = FALSE` | `MovesUnderMutex` |
| `ProcessSafetyProofs!LifeGoesOnHolds` | | `LifeGoesOn`, an action property |
| `ProcessSafetyProofs!RunningThreadNotJoinedHolds` | | `RunningThreadNotJoined` |
| `ProcessSafetyProofs!EndedOwnsNothingHolds` | | `EndedOwnsNothing` |
| `ProcessSafetyProofs!DestroyedOnceHolds` | | `DestroyedOnce` |
| `ProcessSafetyProofs!WokenWaiterFindsZombieHolds` | `Timeouts = FALSE` | `WokenWaiterFindsZombie` |
| `ProcessSafetyProofs!KeepsLifecycleHolds` | | `KeepsLifecycle`: `Process` implements `Lifecycle` |
| `ProcessSafetyProofs!NothingOrphanedHolds` | | what `Lifecycle` means: no thread and no object without its program |
| `ProcessSafetyProofs!JoinMeansEndedHolds` | | `JoinMeansEnded`, an action property |
| `ProcessSafetyProofs!PidNamesOneProcessHolds` | `Cardinality(Proc) <= PidMax` | `PidNamesOneProcess` |
| `PipeProofs!PipeTypeCorrect` | | `TypeOK`: the queue keeps its bound |
| `PipeProofs!WakeupPendingHolds` | `OneReader` | `WakeupPending` |
| `PipeProofs!ZeroMeansClosedHolds` | `OneReader` | `ZeroMeansClosed`, an action property |
| `RamfsProofs!TreeIsWholeHolds` | `ThroughFiles = FALSE` | `TreeIsWhole` |
| `RamfsProofs!HandlesOwnedHolds`, `HandlesAgreeHolds` | | those invariants |
| `RamfsProofs!InUseAliveHolds` | both flags `FALSE` | `InUseAlive` |
| `RamfsProofs!RamfsKeepsTree`, `RootIsReached` | `ThroughFiles = FALSE` | `KeepsTree`; one root, and every node leads up to it |
| `RamfsProofs!RamfsTypeCorrect` | `ThroughFiles = FALSE` | `TypeOK` |
| `VfsProofs!VfsTypeCorrect` | | `TypeOK`: with the root mounted every look-up finds a file system that is there; `children_cnt` is counted modulo `CountLimit`, and may wrap here |
| `VfsProofs!NearestFoundThenHolds` | | `NearestFoundThen`, for every table and path |
| `VfsProofs!TreeIsWholeHolds`, `ChildrenCountedHolds` | `NeverWraps` | those invariants; that the count is exact, hence has not wrapped, is the second |
| `VfsProofs!VfsKeepsTree`, `RootIsReached` | `NeverWraps` | `KeepsTree`; one root, and every mount leads up to it |
| `StreamProofs!ExactlyOnceHolds`, `InOrderHolds` | | what `Stream` means to a receiver |
| `SipcProofs!SipcTypeCorrect` | | `TypeOK`: `ansq` never holds BUSY, nothing is counted twice |
| `SipcProofs!StopAndWaitHolds`, `WithinCapacityHolds` | | those invariants, for chunks of any size up to the MTU and reads of any number of bytes |
| `SipcProofs!HostStreamHolds`, `ClientStreamHolds` | | `Sipc` implements `Stream` in each direction |
| `SipcProofs!DeliveredHolds` | | hence each direction delivers exactly once while intact, and in order always |

**Process.** `MovesUnderMutex` is not inductive: nothing in it says that the task inside
`process_move_list` is the owner. `MutexInv` adds that whoever is in a critical section owns the
mutex, and that an exiting task's process is `moving`. `RunInv` adds to `RunsOnlyWhileActive` that a
process in the making is in one task's hands and on no list: otherwise dropping it could disturb a
task. `Inv` is both with the types. That no call ends its own program stays true after the entry by
`SelfInv`: a call keeps its argument, a process its PID. Most steps touch nothing of this and are
dealt with by one lemma (`QuietSafe`); those that move a process have a lemma each.

The next five rest on `Inv`. `ListStep` says how one step can move one process (`Passes`); with
`Stage` it gives `LifeGoesOn`, since a status is set only by a task of an active process.
`RunningThreadNotJoined` is inductive over it: a step sets a thread's bit only while it deletes the
thread (`ThreadBit`), a thread begins in the step that has its creator `starting` (`Begins`), and
the creator, who owns the mutex and cannot be deleted meanwhile, goes on to clear the bit
(`CreatorStays`). `ObjectInv` adds to
`EndedOwnsNothing` that an object in a task's hands is of the task's process, and that a process the
clean-up has between two lists owns nothing; a process on no list is then either one that is being
killed or one that was cleaned. `DestroyedOnce` is inductive as it stands. `WaitInv` follows a
waiter of `process_wait()`: its process has left the active list when the exit bit is set, is still
gone when the waiter is woken, has been taken from the destroy list when the clean-up at the entry
of the second call is over. The one escape is a task that ended itself inside the critical section;
then the mutex stays owned, and no call is entered any more (`Stuck`). With timeouts a wait can end
for another reason, which is the run `process_timeout`.

`KeepsLifecycle` rests on `Inv`, `ObjectInv` and `HeldInv`: an object in a task's hands is made or
unlinked and the task is at the place that says so, and no task has two. That is what makes "lost"
well defined: when tasks are deleted, the objects they held are exactly those that `ForgottenBy`
frees. There is one lemma for each kind of step: those that change neither life nor fate
(`UnnoticedStutters`), the clean-up, creations, ends, stops of a thread, starts, objects. The
clean-up is the one that does most, and is a single step of `Lifecycle` for each half: everything
destroyed, then settled or forgotten. `NothingOrphaned` is then a fact about the mapped variables.

`JoinMeansEnded` needs more than `RunningThreadNotJoined`, for the joiner may sleep: `FlagInv` says
that a task that waits for a thread's bit waits on its own program's flag, and that the flag of a
program that runs exists. A step that lets the joiner go finds the bit set, and then nobody runs in
the slot but a thread whose creator has still to clear the bit, or sets it, and then deletes the
thread in the same step.

`PidNamesOneProcess` is false in general (`process_pid`), and the theorem says how far it goes:
`PidInv` has `PID_cnt` equal to the number of processes that were ever given a PID and above every
PID, so up to `PidMax` creations `get_pid` returns a new one at its first attempt. The finding needs
`PID_cnt` to come round, and nothing else.

**Pipe.** For the owner `r` of the reading end, `ReaderInv(r)`: nobody else is in a read
(`OnlyReader`), so the length it saw is still there when it looks at the flag (`LengthSeen`); it
believes in the end only of a closed pipe (`EndSeen`); and if it sleeps on an empty closed pipe, a
closer is about to send its NUL (`SleepsSafe`). The second makes the fourth inductive: `r` goes to
sleep on an empty queue only after it saw the pipe open. A NUL is given up only on a full queue, and
then `r` does not sleep.

**Ramfs.** `TreeInv` is `TreeIsWhole` with the types of its variables, and is inductive as it stands
once a lookup is known to end in the list it came from, at the position it found (`LookupFound`);
that is where paths through files are excluded. `ListInv` makes `HandlesOwned` inductive: an entry
has one holder (`OneHolder`). `UseInv` adds that open nodes are alive and that a task inside a pipe
holds an open file of it (`BusyHolds`), which is what a lent FILE breaks. Cardinalities are those of
finite sets because `Node` is finite (`RootAssumption`). A lookup is a recursive function over the
path and "the first entry of that name" a search: neither needs an induction, as only the last step
of the path and the least index in a set matter.

**Vfs.** `TreeInv` is `TreeIsWhole`, `ChildrenCounted` and the types, with the unused instances not
in the table. A file system that an umount takes away has count 0, hence no children, hence is
nobody's parent; removing it from the table shifts positions and keeps their order. That needs the
counts not to wrap: `NeverWraps` says that there are fewer file systems and failed mounts than a
`u8_t` counts, which the code does not check. `NearestFoundThen` needs only the types: the longest
beginning of a path that matches anything matches the nearest mount point exactly, and that one
comes first in the table.

**Tree.** In both modules the refinement follows from the invariant of the tree with its types: an
entry of a list is one of a single list (`TreeIsWhole`), so the directory of a node is well defined
and an insertion or a removal by position changes it for that node only; a mount's parent is in the
table before it. That there is one root and that every set of nodes has a way out needs no induction
over the depth of the tree. In the table of mounts the earliest of a set has its parent before it.
In `Ramfs` `LeadsUp` is inductive over the steps of `Tree`: a leaf, whether it comes or goes, is
below a node that is there and above none.

**Sipc.** The order of chunks needs `OrderInv` alone: what is in the buffer, with the input thread
and on the line towards an end is a non-decreasing sequence of chunks, none later than the one the
sender is about. The rest is `Direction(e)`, for each sender `e` that is intact: `Rest`, what holds
in any phase (the buffer's bound, and that the last chunk that came is the last one reported as sent
or the next; whenever the sender may go on there is a byte of room, `Room`, and the chunk that fills
the buffer adds an MTU at most), and `Phase`, a case distinction on the one thing that stands
between the sender and its answer and on what that says of the chunk sent last: on its way or
damaged, it has not come; stored or answered by ACK or a promise, it has. Each action moves one
direction from one phase to the next, or leaves it alone, or makes it not intact. The refinement
follows: a chunk that is stored is the next one because it had not come, an ACK confirms it because
it had. It is proved for both ends at once, for an instance `Of(e)` of `Stream`, and then for the
two that the run checks. `DeliveredHolds` instantiates `StreamProofs` with the mapping, so that the
two theorems about `Stream` become theorems about the connection.

**Only model-checked.** The liveness properties `WaiterReleased`, `EndedIsCleaned`, `ReaderAwakened`
and `SenderAnswered`: liveness under fairness, and ENABLED, are beyond this prover, as are
inductions over data and RECURSIVE operators; no module here has either. Every invariant, action
property and refinement of the passing runs is a theorem. Of the violated properties
`PidNamesOneProcess` and `WokenWaiterFindsZombie` are theorems under the condition that excludes the
counterexample.

## 7. Where the code does something else than it says

The first five are the counterexamples of runs. `PROJECT.json` says of every hazard which properties
would catch it; those that none does say so there.

* `process_pid`: `get_pid` looks for a free PID on the active list, three times over
  (`process.c:1965-1979`), where the three lists were evidently meant. A new process can have the
  PID of a zombie, and `process_wait()` and `process_kill()` of the parent then reach the new one.
* `process_timeout`: `_flag_wait` takes any bits for success (`kwrapper.c:859`). A finite
  `process_wait()` reports the end of a process that runs, once one of its threads has ended;
  `thread.h:346-355` promises ETIME.
* `process_self`: `process_kill(getpid())`, and `exit()` in a thread, delete the calling task inside
  the critical section (`process.c:369, 465`). The process stays active, and every later system call
  of the whole system blocks.
* `pipe_end`: `_pipe_read` takes the length before the CLOSED flag (`pipe.c:199-201`). With a last
  write and a close in between, it reports the end of the file with data in the queue; if the queue
  is full by then, the reader waits for ever in its own send.
* `ramfs_removed`: the last close of a removed file looks for other openers and finds the entry
  being closed (`ramfs.c:849`): the file is never deleted.
* `SIPC_socket_send` takes any ACK for the answer to its last packet (`sipc.c:1107`). After a send
  that timed out, the late ACK counts the next chunk as sent, which may be lost; and a damaged
  answer of any kind is answered by REPEAT (`sipc.c:573`), upon which a sender that waits sends data
  again that was received, and there is no check for duplicates. Nothing in the repository promises
  otherwise, and `Stream` asks for exactly one copy only while `intact`; with `intact` taken out,
  `StopAndWait`, `HostStream` and `ClientStream` are false.
* The exit bit of a thread slot that is used again is cleared after the new thread may run
  (`process.c:1093-1102`), and a joiner takes no mutex: until then a `thread_join2()` of that slot
  ends at once, for the thread before, while a thread runs in it. `thread.h` says "Function wait
  until thread was closed or timeout occurred". `RunningThreadNotJoined` and `JoinMeansEnded` except
  the slot whose thread is being created (`BeingCreated`), and nothing else.
* A path through a file names the file (`ramfs.c:1240`): with `ThroughFiles = TRUE` `TreeIsWhole`
  fails. No run does this.

Four more have no run. TLC finds the property violated when it is added to the run named, or, the
last, when that run is changed as it says:

* `Sipc!BusyEnds` (`sipc`): the input thread looks at the room, and marks the socket busy and
  answers BUSY afterwards (`sipc.c:518`); a reader that empties the buffer in between sees no busy
  socket and sends no ACK (`sipc.c:1017`); nor does one that throws the buffer away with FREEBUF.
  The sender, without a time limit by default, waits until the client reads again, for which it has
  no data. The head of the file (`sipc.c:49-52`) has the ACK follow.
* `Vfs!NearestFound` (`vfs`): the search compares as many characters of a mount point as the path
  has left (`vfs.c:1488`), so with something mounted at `/mnt/sda` a file `/mnt/x` is looked for
  there.
* `Vfs!OpenFilesMounted` (`vfs`): a file opened in a file system that was unmounted between the
  look-up and the open (`vfs.c:884`); `mount.h:130-132` says that an umount needs all files closed.
* `Sipc!SenderAnswered` (`sipc`, when the client disconnects too): a `SIPC_socket_recv`
  that has begun goes on after the disconnection, and sends the ACK it owes on port 0 (`sipc.c:906,
  1019`). The sender, which waits without limit, is never answered; and the two ends, which have no
  socket for port 0, answer one another's NACK by NACK for ever (`sipc.c:563`).

Met while modelling and outside of the models' data: `rename` frees what the old name's bytes point
to, not the old name (`ramfs.c:523`); `detach_pid` of shared memory never returns success
(`shm.c:360-394`); `sipcbuf__destroy` gives its mutex back only when it could not take it
(`sipcbuf.c:122`); `_vfs_mount` does not set its pointer to the base when the table is empty and the
mount point is not the root (`vfs.c:202-205`).

## 8. What is not modelled

* In `Process`: kworker (it syncs file systems and starts the network, and makes no system call),
  priorities, CPU statistics, parsing of arguments and `#!`, standard streams and the working
  directory, memory (allocation may fail at any time: `OutOfMemory`, `CreateFail`, `ThreadFail`).
* In the wrapper: semaphores (they forward), calls from interrupts.
* In `Pipe`: create failing, destroy (its only caller has the file closed; see `InUseAlive`).
* In `Ramfs`: the data of regular files, modes, owners, times, directory streams. No program text
  promises what a directory stream shows while the directory changes.
* In `Vfs`: file positions and flags, names within a file system, the calls that only forward, sync.
* In `Sipc`: the interface going up and down, creation and destruction of sockets, more than one
  port per end, damage to ports and lengths (such packets are skipped, hence lost, or answered by
  NACK), memory running out. An end's packets stay in order: the line is serial.
* Driver control, shared memory, the heap, the log, the loop device and EEFS: not yet (section 9).
* Components left out: the network manager (a table of functions), lists and trees (their effect is
  part of the models), formatting, parsing, libc, time (functions without state), terminal (text),
  hardware drivers (registers of certain chips), procfs and romfs (read-only views), FAT and EXT4
  ports (vendored libraries), the programs and the IPC library (users of the system), FreeRTOS
  (vendored).

## 9. Plan

Done, in this order: `Process` (every program depends on it), `Pipe` (no lock at all), `Ramfs` (the
file system every dnx system has), `Stream` and `Sipc` (the one protocol of the system, with
faults), `Vfs` (what all file systems are reached through), `Lifecycle` and `Tree`, and the theorems
of section 6.

What is left:

1. `Driver` with `Shm`: instances and regions against release and PID reuse, `Shm` composed with the
   lists of `Process`.
2. `Kernel` = `Process` + the mutex and the list of open files of `Ramfs`: programs killed inside a
   handler.
3. `Stream` also for `Pipe`: with the writer's side closing only after its data has been read, a
   pipe implements it.
4. `Heap`, `Printk`: sequential algorithms against references.
