# Formal models of the b68k system

b68k is a small multitasking system for a 68000 board: a kernel with message passing, server
tasks (file system, clock, terminal, devices), and user processes started by fork and exec.
This directory holds TLA+ modules that follow its source, TLC runs that check them on small
instances, and TLAPS proofs that hold for every size. Paths below are relative to
`src/software/system/` unless they start with `src/`.

## 1. The system

| part | source | state it keeps | operations | what makes it correct |
|---|---|---|---|---|
| process table, scheduler, rendezvous | `kernel/proc.c`, `kernel/scall.c` | 32 slots with state, message peer, signals, owner; ready and free lists; the process on the CPU | create, fork, exec, exit, wait, kill, brk, schedule, `sendreceive`, `proc_sig` | every slot is in the list its state says; the head of the ready list is the one on the CPU; no message is lost or handed over twice |
| traps, interrupts, exceptions | `kernel/srt0.s`, `kernel/irq.c` | saved contexts, interrupt level | system interrupt, system call, exception, device interrupts | a context is saved where it is restored from; a signal may arrive anywhere outside a critical section and a handler |
| system task | `kernel/system.c` | the request it serves | boot, fork, exec, wait, kill, exit, brk, soft reset | each request is answered once, and an ended process is removed once |
| file system server | `kernel/vfs.c` | vnodes with reference counts, descriptors, current directories, mounts | open, close, read, write, lseek, chdir, mkdir, mount, fork, kill ... | as many references as holders; descriptors follow fork and kill |
| file systems | `kernel/fs/devfs.c`, `rfs.c`, `fat.c`, `kernel/dev.c`, `src/tools/rfsd/rfsd.c` | device nodes, remote handles, cluster positions | lookup, read, write, seek, inactive | positions stay on the cluster chain; remote handles are released |
| memory | `kernel/mem.c` | owner of each 4 KiB block | realloc, free, MMU setup | no block has two owners; nothing stays owned by nobody |
| clock | `kernel/clock.c` | milliseconds, a wake time per process | SLEEP, timer interrupt | every sleeper is woken |
| terminal | `kernel/tty.c` | ring of typed characters, character tables, frame buffer, state of the modifiers | keyboard interrupt, read, write, echo, blink, scroll | accepted keys arrive in order; the picture is the live table; no modifier is set without a key |
| serial, mouse, sound | `kernel/mio.c`, `mouse.c`, `av_*.c` | byte rings, packet and player state | interrupts that fill, tasks that drain | rings neither lose nor repeat input they accepted |
| C library | `lib/libc/src` | heap, environment, streams | malloc, free, setenv, fgetc, fgets, printf | no memory lost or owned twice; no byte of a file skipped |
| programs | `bin/init.c`, `bin/sh.c`, `lib/libc/src` | the child being waited for | fork, exec, wait, kill, exit | no zombie stays |

**Interaction.** Processes and tasks interact by `sendreceive` only: a sender and a receiver meet
and one message is copied. A user process always sends and waits for the answer; tasks also send
only or receive only. Device interrupts call `proc_sig`, which releases a blocked process with
`EABORT` or marks a ready one, whose next blocking call gives up. The system task is a client of
the file system server: fork, exec and kill each call it before they answer. Critical sections
(`k_lock`) mask every interrupt, and so does the system interrupt handler: it lowers the mask from 7 to 6
only, so the device interrupts wait, although its comment promises level 1 (`srt0.s`, `sys_irq`).

**What is hard.** Signals that arrive between any two steps; a call that has delivered its request
and then gives up; answers to somebody who no longer waits; the order of exit, wait and kill,
which come from two processes; slots and pids that are reused; a server that blocks on a client.

## 2. What is modelled

### `ProcList`: the two lists
`_proc_add_to_ready_list` and its three siblings as functions of a record of pointers
(`AddReady`, `RemoveReady`, `AddFree`, `RemoveFree`), because a kernel entry runs several of them in
one critical section. The pointers that the code leaves dangling stay dangling. `Ring(L, head, S)`
says what a well-formed list of the set `S` is: `next` and `prev` are inverse to each other on `S`
and no proper part of `S` is closed under `next`.

### `Proc`: the process table in an open environment
State: the pointers, the fields of `proc_desc_t` that decide anything (`state`, `m_from`, `m_to`,
`sig_mask`, `ppid`, `uid`, the saved result `d0`), `cur` (`_proc_ptr`), and the progress of the two
things that are not one critical section: the system interrupt handler (`irq`, `pick`: the ring
is read, the update comes after; signals in between are more than the code's interrupt mask allows) and a task's blocked call (`ops`:
`sendreceive` blocks in the self interrupt of `k_yield` and computes its result when it runs
again).

| action | code |
|---|---|
| `SysIrq`, `SysIrqEnd` | `sys_irq`, `k_sys_irq_handler`, `proc_schedule`, with the second chance when idle comes up |
| `SendNow`, `SendLocked`, `RecvNow`, `Wait` | the four outcomes of `sendreceive`: done at once as sender, refused (two senders), done as receiver, block or give up |
| `TaskReturn` | the end of `sendreceive` for a task |
| `Alarm` | `proc_sig` from a device interrupt |
| `Fault` | the exception handler: `proc_exit`, then `proc_schedule(PROC_PID_NONE)` |
| `CreateTask`, `CreateInit`, `StartInit`, `Fork`, `Exit`, `WaitChild`, `Kill` | the calls of the system task |

What the processes say is left open: whichever runs makes any call its kind can make, and the
system task performs life cycle operations on any user process in any state. This is the
environment the theorems are proved in.

### `System`: the processes that run on it
Adds the threads: the system task (boot, main loop, the calls to the server inside fork, exec and
kill), the server (receive, answer), and user programs that follow `init.c` and `sh.c`: print, fork,
wait, kill in the parent; exec in the child, exit when it fails. Every step is a step of `Proc`
with the caller, the callee and the message filled in, so the module adds control and no new
effect on the table; that every step is one of `Proc`'s specification is checked (property `Spec`
of run `system_live`), so that the theorems about `Proc` hold here too.

Two switches describe the environment. `Faults`: programs may take an exception. `Prompt`: a
program outlives the call of its parent to wait. The second is an assumption the code does not
enforce. Without it a child can end while its parent is still between fork and wait; the
parent then has SIGCHILD pending, which nothing ever clears, every blocking call it makes returns
`EABORT`, and the servers block answering it. It also is READY when its own wait or exit is served,
against the comments in `proc_wait` and `proc_exit`, and its exit returns. The runs `system` and
`system_live` assume `Prompt`, `system_reset` does not.

Ctrl-Alt-Del is a signal to the system task. If it is inside a request the signal cuts its call to the
server short instead, the request goes on with the result ignored, and no reset follows.

### `Mem`: block map and address spaces
State: the owner of each block (`blk`), `mem_ad` and `mem_sz` of each process (`mem`), where the message
buffer of each calling process is (`buf`), the work of the two tasks that run `proc_exec` (`job`), and,
to speak about contents, whose data each block holds (`ram`).

| action | code |
|---|---|
| `Fork`, `ForkFails` | `proc_fork`, one critical section |
| `Brk`, `BrkEnds` | `proc_brk`: the scan of `mem_realloc`, then its update and the remapped buffer |
| `Exec`, `Segment`, `Grow`, `Whole`, `WholeEnds`, `BadFile`, `Fails` | `proc_exec`: each program header may grow the memory, the end takes what the whole image needs |
| `Answers` | the answers of the system task, written to the buffers |
| `Kill`, `Start` | `proc_kill`; `proc_create_init` from the debug shell |

`mem_realloc` is `Finds` (the first aligned run whose blocks are free or the caller's), `NoRoom` or
`Endless`, followed by `Realloc`; fork does both in one step, the others with interrupts enabled in
two. `Allowed` names what may happen in an instance: `exec`; `shrink`, an image or a break smaller
than what the process has; `full`, no room in fork or at the end of exec; `debug`, the debug shell
starts programs. It exists because the code goes wrong in each of the last three cases, and the
properties of `mem_grow` are what is left without them. Each can be seen by changing `Allowed` there:

* with `shrink`, a reallocation to fewer blocks copies the old size, over the blocks of others
  (`OwnData`), and one that stays in place keeps its last blocks marked for good (`NoLeak`);
* with `full`, a failed fork loses its slot (`ghosts`), and an exec that finds no room for the whole
  image goes on at address 0, in the memory of the kernel (`Owned`);
* with `debug`, the system task and the debug task take the same blocks (`Owned`).

A size whose count overflows 16 bits makes the scan endless (`Endless`).

A block is the unit of contents, and sizes are multiples of what `ALIGN32` rounds to. The process
table appears only as the set `live` and the slots lost (`ghosts`); the pids that `Proc` allows a
server to see are those here. Boot that fails to load init ends there. `brk(0)`, after which the
MMU maps everything, is left out.

### `Vfs` and `OpenFiles`: the file system server
State: the vnodes (`vn`: the list each is in, its key, type, reference count and what is mounted on it),
the mounts (`fs`), descriptors and current directories, and the request in service with the vnode its
walk has reached (`req`). A path is the number of its elements; what a name leads to is left to the
file system, which finds any of its objects or none.

| action | code |
|---|---|
| `AskOpen`, `AskChdir`, `AskMkdir`, `AskMount` | the start of a request and of its walk: the root or the current directory is held |
| `Lookup`, `LookupDev`, `Dot`, `LookupFails` | one turn of `_lookuppn`: across a mount point, the lookup of the file system, release of the parent |
| `Open`, `OpenFails`, `Chdir`, `Drop` | what is done with the vnode reached |
| `Mount`, `MountFails`, `Mounted`, `NotMounted` | `_vfs_mount` in its two walks |
| `Close`, `Use`, `Fork`, `Kill`, `KillClose`, `KillEnd`, `Sysdir`, `SysdirBack` | the other requests; kill closes one descriptor a step |
| `ProcKill` | the system task gives up the slot of the process whose VFS_KILL has been answered (`dying`) |

The device file system is exact (`Named`: its lookup writes the device into the directory it looks in); for
the others `Lookup` is what `rfs.c` and `fat.c` have in common, one vnode per file in use. The model starts
after the two mounts of the boot and init's open of the terminal. `OpenFiles` is the abstract
specification, a table of open files: a descriptor names one object from its open to its close or
kill, fork copies, and what is done through it is done to that object. `KeepsPromise` is its
specification under the mapping from descriptors to what their vnodes stand for (`What`). The devices of a devfs all
stand for DEVFS there: that an open device stays the same one is not true, since a lookup writes its
device into the root of the devfs, which may itself have been handed out for one (`Named`), and no property says so.

`Allowed` again names what makes references leak: `leave`, chdir from one directory to another (the old one is
never released), `mount` (the device vnode and, on failure, the roots stay held), and `running`, the kill of a process
that has not stopped. Between VFS_KILL and `proc_kill` such a process may still ask for anything; a stopped one, the usual
victim, asks for nothing. What it opens then stays in its dead slot until a fork overwrites it (section 3). The kill of
the debug shell (`dsh/dsh.c:246`) calls `proc_kill` without VFS_KILL and is not modelled.

### `Remote`: client, serial port and daemon
The server has one call in progress. A command is a frame, sent whole (`Begin`, `Send`); the daemon serves it
(`Daemon`: `ServeLookup` ... `ServeReset`, with its list of descriptors newest first; `ServeOpen` may be refused by the host, whose `fopen` or `opendir`
returns NULL, and `ServeReset` may find no root, after which all but a reset is ignored, `Ignore`) and sends an answer
whose bytes arrive one by one (`Arrive`, the interrupt of `mio.c`); the client takes as many as its answer is
long, or what came within the 500 ms of the port (`Enough`, `Expired`, `Take`). A read has a head and a body for
each 64 bytes (`HeadDone`, `BodyDone`). Nothing ties an answer to its command. One fault per behaviour:
`noise` loses frames either way (whole ones: an answer of which some bytes are lost is not modelled), `late` lets answers pass the time-out, `share` lets a node be looked up while
it is open, `reboot` restarts the kernel while the daemon goes on; `none` is none. The properties say for which
of them they hold: with `late` an answer is taken for that of the next command, with `share` a second
lookup puts a descriptor without a handle before the one with it, and the daemon then uses a null stream. A client that drops the
refusal of an open (`OpenDoneUnchecked`) violates `HandleHeld` without any fault.

### `Clock`, `Terminal`: time and typed keys
`Clock` has two clients that post a SLEEP with `send`, listen, and are woken by a signal: the terminal and the
mouse. `due` counts the timer periods to the wake time. `Terminal` adds the ring of typed characters with the
code's indices and full test, the requests of the server, and the event branch (`Drain`, `Blink`). The
keyboard interrupt and the timer may come between any two steps. What the histories are for: `lost` says that a
SLEEP was thrown away (a signal cuts a send short and the task takes it for a wake-up), `overrun` that a
key was accepted into a full ring. The signal by which the mouse's interrupt tells its task that the mouse has answered
(`mouse.c:329`) is left out.

### `Screen`, `Keyboard`, `Console`: what is seen and what is typed
`Screen` holds the character table of each terminal and the frame buffer, in raster lines, with the
position of the picture in it: `Putc` (character, next line, scroll), the cursor, the flags. `Keyboard` is the decoder
of scan codes with prefixes, breaks, the map of keys and the modifiers; the keyboard itself sends the bytes of
any press, repeat or release. A code has eight bits, and the map and the tables see seven of them (`Fold`): F7 (0x83) sets the bit of
F5 (0x03) and types its character. The fake SHIFT that a keyboard sends around the keys of the cursor pad, up or
down first, is a key of its own, and the decoder takes it for SHIFT; so are bytes that are never taken back (0xE1 of PAUSE, 0xAA of the self test).
`NoneInvented` says what remains: a modifier is set only while a key with its code is down, and a bit only while a key is that folds onto it. `Console` joins them by the echo.

### `Fat`
The vnodes of a volume with their positions (cluster, sector, byte) and one-sector buffers; the volume is a
constant. `Lookup` is a whole search (a success, or a failure at any sector), `Chunk` is one turn of the
read loop, `Dent` one of the listing, `ReadFails` a sector that cannot be read (a listing then loses the names the call had stored, `Losing`), `RootFails` one of the
root (the entry is then taken from address 0, where the vector table begins with zeros: an end mark), `Lseek`, `Open` and `Release` are
whole calls. A buffer remembers the sector that was really read into it besides the one `buf_sector` claims, which is
what `ReadRight` and `ListedOnce` compare. `Walk` is a recursive function, `FatTable` the chains as the FAT has them. A file may be left
behind by a seek from its start; a directory is only rewound. Nothing remembers that a listing has met the end mark: `BeginDents` may
come at any time, and what lies behind the mark may be any entry, unless the model knows the sector (`EntryOn`); `want` notes how
far the listing has come (`AtEnd`, `Beyond`). `ListedOnce` speaks of the names up to the mark; that there are none beyond it does not hold (section 3). `VolumeAssumption` says what a volume in order is: every directory has an
end mark, chains have no cluster in common and room for what the entry says. The code tests none of this, and on another volume
neither property holds.

### `Heap`, `Environ`, `Stdio`, `Libc`: the C library
`Heap`: the list of chunks, `Malloc` (best fit, split, growth by the break), `Free` (joins with both neighbours).
`spoilt` says that one of two defects has broken the list, after which it is not followed: a split that leaves
exactly four bytes, and a break that starts in the arguments. `Environ`: the environment copied from the image
and setenv, unsetenv, each as one step with every malloc free to fail. `Stdio`: a stream buffered as `__buf_getc`
does, `fgetc` and `fgets` with short reads and errors, and the two formatters as one state machine each, run on
every format of the alphabet. Both use one operator for what stands between `%` and the conversion (`Flag`), so `SameText` compares how they
cut and write the text, not their two switches. `Libc` starts one of the three.

### Simplifications of `Proc` and `System`
* A message is its kind and a pid. The answer of a server carries the request it answers; its
  `type` field, which the server leaves uninitialised, is taken not to be the code of a request.
* The file system calls of exec (sysdir, open, reads, seeks, close) are one call; the boot mounts
  are left out; other tasks (terminal, clock, devices, debug shell) are not part of `System`, but
  `Proc` has tasks that call anybody at any time, and the two clients of the clock in `Clock` follow
  the same rules of `sendreceive` and `proc_sig`.
* `proc_schedule(PROC_PID_NONE)` reads the slot before the table; it is taken not to look READY.
* The two fork answers, the order of the free list and the reuse of pids are exact.
* Memory, and with it the failure of fork for lack of it, is in `Mem`.

## 3. Runs

| run | instance | shows |
|---|---|---|
| `system` | 6 slots: system, server, three users, idle; `Prompt` | `AnswersMatch`, `ServersServe`, `WaitedFor` |
| `system_live` | 5 slots, `Prompt`, fair | `CallsReturn`, `ZombiesGo`, `ReadyRuns`; every step is one of `Proc` (`Spec`) |
| `system_reset` | 5 slots, exceptions, not `Prompt`, Ctrl-Alt-Del at any time | `KillsOnce`, `NoMissedRendezvous`, `TypeOK`, `ReadyRing`, `FreeRing`, `OnCpu` |
| `mem_all` | 4 blocks, 2 users, everything allowed, counts overflow at 8 | `KernelKept` |
| `mem_grow` | 8 blocks, 2 reserved, 3 users, sizes of 1, 2 and 4 blocks; `exec` | `Owned`, `OwnData`, `NoLeak` |
| `vfs` | 2 processes of one descriptor, 5 vnodes, 2 mounts, a file, two directories and a terminal | `TypeOK`, `CountsExact`, `KeepsPromise` |
| `vfs_all` | one process, 5 vnodes, 3 mounts, a disk; `leave`, `mount`, `running` | `NoneFreed`, `OneVnode` |
| `remote` | a file of 3 bytes, a directory of one entry, 2 data bytes per answer, each fault, opens that are refused | `HandleHeld`, `NoHandleLeft`, `ReadRight`, `CallsReturn` |
| `terminal` | a ring of 3, two characters, 4 keys, sleeps of one period | `NoneForgotten`, `InOrder`, `LinesCounted`, `LinesArrive` |
| `console` | 2 terminals of 3 by 2, 7 raster lines, 8 keys (F5, F7 and the fake SHIFT among them) | `Shown`, `TableIsTail`, `NoneInvented`, `ResetMeant` |
| `fat` | the root, a directory of two clusters, a file of two, an empty one; 3 vnodes | `ReadRight`, `ListedOnce` |
| `libc` | a heap of 80 bytes, two variables, a file of 9 bytes, formats of 6 characters | `NothingLost`, `BlocksOwned`, `NothingSkipped`, `SameText` |

**What no run checks because it does not hold.** Besides the cases of `Mem` above, two places where the code does not do what a
comment in it says can be seen by adding an invariant. KILL means to close all open files of its victim (`system.c:510`), but a victim that
still runs can have an open served between VFS_KILL and `proc_kill`: with `running` in `Allowed`, TLC finds `DeadHoldNothing` of `Vfs` violated.
The next fork into the slot overwrites that descriptor, and the vnode keeps a reference for ever. The end mark is the end of the
catalogue (`fat.c:827`), but only a call that meets it first returns 0; one that met it after some names leaves the position behind
it, and its caller, or the owner of a second descriptor, calls again: in `MCFat`, TLC finds `NothingBeyond` of `Fat` violated. `ls` asks for
one entry at a time and is spared.

**Bounds.** Every list operation of the process table touches a slot, its two neighbours and the head, so
rings of length 1, 2 and 3 with each role of the slot cover its cases (the proofs cover the other sizes).
Three user slots hold init, a shell and its program, the deepest chain the wait protocol relates; fork on
a full table happens in every instance. Six user blocks hold runs of 1, 2 and 4 blocks with gaps between
them, so that a reallocation stays, moves up, moves down over its own blocks, or finds no room; three
processes are needed for the fragmentation that makes a move overlap a neighbour. The word of `mem_all` is 8
where the code has 2^16, so that three doublings overflow it; the other runs have 2^16.

`vfs`: 5 vnodes are two roots, "/dev", the terminal and one more, so the pool runs empty, and a walk through a mount
point (`MaxPath` 2) holds two at a time; two processes make fork, sharing and kill interact (769 thousand states; `MaxCount` is never reached). A second device is in `vfs_all` only, and in the proofs. In `vfs_all` a request
begins only with fewer than 8 references in all (`MaxCount`; the boot leaves 5), since leaks would let them grow for ever (691 thousand states). `remote`: a read of 3 bytes takes two answers of at most 2;
`MaxOpens` 2 lets descriptors share a node, `MaxDescs` stops the daemon's list, which grows with every lookup, and
answer lengths keep the order of the real ones. `MaxLate` 0 lets the next call begin only when the bytes of the last have been
taken or are on the wire. `terminal`: a ring of 3 wraps, fills and overruns with 4 keys; the read lengths 1 and 3 split
a line and reach past it. `console`: 7 raster lines are no multiple of a character's 2, as 256 is none of 5;
4 characters (`MaxChars`) scroll twice, and once there is one only the key in `Small` is used. `fat`: sectors of two
bytes and two entries make every cluster, sector and directory boundary occur; a listing of the root is followed for one sector (`MaxRootSectors`) behind its
last, which is the first of the directory `sub`, so that it goes on behind the end mark. `libc`: 80 bytes hold four
small chunks, so that a free one meets free ones on both sides; a growth (`BRK_INCREMENT_MIN`) fits once.

**Fairness.** `System`: `WF(Interrupt)`: the timer keeps interrupting; `SF(Step(p))` for every process but
idle: a process that is dispatched again and again takes its next step, because a time slice
(1 ms) is longer than any one step; weak fairness would not do, since a preempted process is
not continuously able to run. Nothing is assumed about users who type exit or Ctrl-Alt-Del. The other
modules have the scheduler's result as weak fairness of each task: `Remote` of the daemon, the
arrival of bytes and the kernel (the time-out is part of its step, `Expired`); `Terminal` of the
terminal task, the clock task and the timer. Clients, keys, failures and resets are never fair. `LinesArrive` has as
premise that the server lets the terminal task listen again and again and stops writing at some time: `receive` serves
senders before signals, and a server that does neither starves the keyboard.

**Faulty variants.** Definitions introduced as faulty variants (`RemoveFreeHeadOnly`,
`ProcExitSilent`, `ScrollKeeps`, ...) are plausible slips in the definition they precede. Each property of each
run is violated when one of them takes the place of the real one (`PROJECT.json`, mutants).

## 4. Proofs

`SystemProofs` begins with `Proc`. First the list operations: each, applied to two disjoint rings, yields two disjoint rings of the
expected sets (`ReadyAdded`, `ReadyRemoved`, `FreeAdded`, `FreeRemoved`, `HeadMoved`, `NextReady`), and
the boot table is one ring. That a set closed under `next` is all of the ring is reasoned about
with sets, not with path lengths; the boot ring uses the least element of a set of naturals. Then
`Spec => []IInv` for every `K_PROC_COUNT > 2`, `TaskPids`, `Signalled` and `Msg`, where

    IInv == TypeOK /\ ReadyRing /\ FreeRing /\ OnCpu /\ IdleReady

`ReadyRing` alone is not inductive: `RemoveReady` is right only if the list does not become empty,
and the head moves rightly only if the process that blocks is the head. `IdleReady` (idle is READY
and makes no call) gives the first, `OnCpu` the second; `OnCpu` in turn needs that what the
interrupt handler has picked stays READY, because nobody else runs meanwhile and signals only add
to the ring. The theorems `TypeCorrect`, `ReadyListCorrect`, `FreeListCorrect`, `CpuCorrect` follow. The
assumptions are those of the modules: more than two slots, idle is the last slot and no task or
alarm target.

`MemProofs`: for every number of blocks, reserved blocks, users and sizes,

* `TypeCorrect` and `KernelIsKept` (`[]KernelKept`), whatever is allowed. What the debug task has taken
  may be taken again, but what either has found lies above the reserved blocks (`JobAbove`);
* `ProcessesOwnTheirBlocks`: `[]Owned` if neither `full` nor `debug` is allowed. Invariant `OInv`: types,
  `Owned`, and `JobSound`, that the run a task has found (`Fits`) is still free or the process's own when
  it is taken. `Owned` alone is not inductive because scan and update are two steps;
* `NoBlockIsLost`: `[]NoLeak` if, besides, `shrink` is not allowed. `JobGrows` adds that what is being
  taken is at least what is given up, and `BlocksGrow` that counts of blocks grow with sizes.
* `ProcessesKeepTheirData`: under the same conditions `[]OwnData`. A copy of `mem_realloc` writes the run it has found, which
  `JobSound` says is free or the process's own, and copies as much as the process had, which `JobGrows` says fits.

`VfsProofs`: for every number of vnodes, mounts, processes, descriptors and all files and devices,

* `VfsInvariant`: `Spec => []IInv`, whatever is in `Allowed`, with `IInv` the types, `Balanced` (no vnode counts less than the
  places that refer to it, and exactly as many if none of `leave`, `mount` and `running` is allowed), what is in the free list, the
  mounts of the boot, what the request in service holds, and, unless `running` is allowed, that dead and dying slots hold nothing;
* `NoneFreedAlways` and `VfsTypes` follow for every `Allowed`: a leak makes a vnode stay, never go too early.
  `CountsExactAlways` needs the three conditions and `DeadHoldNothingAlways` that only stopped processes are killed; without them they are false in the code (section 5);
* `OneVnodeAlways`: a new vnode is allocated only after every other has been looked at for its key, and a key changes only when the
  vnode is allocated;
* `KeepsPromiseAlways`: `Spec => KeepsPromise`, the refinement of `OpenFiles`, if nothing is mounted after the boot and only stopped
  processes are killed, for any terminals and disks. Every step maps to an open, a close, a use, a fork, the closing of all, or a stutter.
  Beside `IInv` the proof needs `Listed`, that every vnode belongs to a file system or to the free list, and that a vnode somebody refers to
  stays in its file system and, outside devfs, keeps its key (`SharedListed`). A fork needs an empty child, hence the condition on kill.
  `leave` is not excluded: a leaked reference changes no promise.

Counts are not inductive alone. The places that refer to a vnode are the finite set `RefSlots`, so a step that
moves one reference changes two cardinalities by one (`MoveBalanced`, `HoldBalanced` and `ReleBalanced`): `Balanced` needs to know which
places a step changes, that the vnode released by `Rele` had a reference to give (the place it came from), and that a new vnode comes
from the free list, where no place refers to.

The rest of `SystemProofs` is about the system, for every size of the process table. First whatever signals arrive, whatever programs take
an exception and whenever a child ends (the environment of the run `system_reset`, and every other):

* `DisturbedInvariance`: `SystemSpec => []RInv`. A call can be cut short at any point and its answer can arrive in another call, so the
  invariant says little of who waits for what and much of who knows which child. `Holds`: a program has a child in hand from the answer to
  fork until its request to kill it is taken. `SysHolds`: the system task has it before and after. Each child is in one hand at most, and its slot is not
  freed while it is (`RHolds`); nobody but the system task knows of a child whose fork it is at (`RFork`); an answer fits the call
  at which it is read, if it comes from the system task (`RUser`);
* `SystemImplementsProc`: `SystemSpec => Spec`: each of the leaves of the system's next-state relation is a step of `Proc`, so that all the
  theorems about the process table hold of the system. It needs of `RInv` that the system task acts on processes only;
* `KillsOnceTheorem`: the code frees whatever slot it is told to, so this rests on the programs: on `RHolds`;
* `DisturbedFamilies`: `SystemSpec => []FInv`. fork copies its caller as it stands, and the child is left blocked with the rendezvous its parent is in: if a
  signal could release the parent between the request and the fork, the copy could be of a parent in another call, and the child be left
  waiting for a server that waits to hear it. So
  `FInv` adds to `RInv` who can still be disturbed. A program that is not `Inert` (stopped, or blocked where nobody can release it) is
  known to a parent that waits for it or is about to (`FChild`), so a parent blocked in any other call is signalled by nobody; a program with SIGCHILD
  pending never blocks (`Masked`; it can be forked blocked), gives up each call and leaves no rendezvous behind (`GaveUp`), or one with the server at a time
  when that is itself blocked answering a program and listens to nobody (`VfsStuck`);
* `NoMissedRendezvousTheorem`: follows step by step, and it is fork that needs `FInv`.

Then under `Quiet` (no device signals a task, no exceptions, `Prompt`: the environment of the runs `system` and `system_live`),

* `SystemInvariance`: `SystemSpec => []SInv`. `SInv` ties the threads together: which request each server has taken and that its client
  waits for nothing but the answer (`Pending`), where in its call each user process is, that a parent in wait and the child it
  waits for know each other (`FamilyOK`), that the child being forked is known to the system task only;
* `AnswersMatchTheorem`, `ServersServeTheorem`, `WaitedForTheorem` follow.

`Quiet` is what makes these three true: a signal cuts a call short, and then its answer goes astray (section 2, `System`).

`TerminalProofs`: for any clients, sleeps, sizes of the ring, characters and read lengths,

* `NoneForgottenAlways`. A blocked client alone says nothing about the step before; `CInv` says of a client on its way to
  receive where its wake-up is: posted, in the clock's hand, in its table, or pending as a signal (`Watched`);
* `InOrderAlways` and `LinesCountedAlways`. `RInv` says what lies between the read, the displayed and the write index, and that the
  lines counted end before the displayed one. Indices are compared modulo the size of the ring; a read takes up to the first
  end of line, which exists because a line is counted, and the least such position is found with `LeastNat` (subsets of an
  interval are well-founded), as induction is out of reach.

`ConsoleProofs`: for every map of keys, any number of terminals and every size of the screen, of a character and of the frame buffer,

* `NoneInventedAlways` and `ResetMeantAlways`, for any keys with codes of eight bits and the fake SHIFT. Between two bytes of a key the decoder lags behind the keyboard: `KInv` says what bytes
  are left and that whatever counts as down is down or is the key being released (`Sound`). Two keys with one code or one bit are why
  the converse is not true;
* `ShownAlways` and `TableIsTailAlways`. `Shown` is inductive only with `Ahead`: what lies right of the cursor is blank, otherwise the
  blank that removes the cursor would erase a character of the table. The raster line of a row is taken modulo the frame buffer, and
  a scroll renames all of them; `MovedRow`, `DrawnCell` and `ClearedRow` say what each drawing operation does to every row.

`FatProofs`: for every volume in order, every size of sectors, clusters and the root, and any number of vnodes,

* `ReadRightAlways` and `ListedOnceAlways`. `IInv` says of each vnode where it is: `OnFile`, that byte, sector and cluster are those of the next byte its
  reader wants (`want`, a history variable), `OnDir`, that so many entries are behind it; and that a buffer holds what it is marked with. The cluster is
  only known as far as the chain goes (`Follows`): a seek or a full last cluster leads beyond it, where the model does not say what
  is read;
* `EntryRight` (an entry is found where it lies, since no two lie in one place) and `ByteHere` say what a sector holds; `FileMoves` and `DirectoryMoves`,
  that a step keeps the vnode on its chain, which takes `NextOf`: the FAT leads along the chain. `WalkPlace` says where a seek ends: it
  exhibits the sequence of sectors in closed form and `WalkIs` shows that any such sequence is that of the recursive function, by the least
  index at which they differ;
* `ListSkip` and `ListNext` carry a listing over one entry, `ListLost` over a call that fails. Behind the end mark nothing is known of where a directory's vnode is but that it has
  listed all before it (`Settled`), so the proof puts no bound on what the code reads there. `Lists` states what has been named by positions in the directory, because what a filter of a
  sequence computes is induction over data.

`RemoteProofs`: for every tree, length of answers, limit of opens and size of reads, `Spec => []Inv` where `Inv` says of every fault but
`late`, which the properties themselves leave out:

* `Line`: on the line is nothing, the command of the call in progress, or its whole answer (for a read, what is behind the head);
  `Tells`: what the answer says of the daemon's descriptors, the position and the length is still true. Nothing ties an answer to its
  command, so every action is a step of this one argument: no other command comes before the answer is taken or the call given up;
* `Positions` and `Reads`: what has been read so far is the file from the start of the call on, and the position is behind it;
* `Hand`, if no node is shared either: a node is open at most once, the daemon runs, and it has a handle for every open node, since a refused open (`ServeOpen` with a null handle) is not one (`HandleHeldAlways`);
* `Tidy`, if no frame is lost either: a handle is the newest descriptor of its node and the kernel has the node open, or is about to hear
  of it, or the daemon of the reset (`NoHandleLeftAlways`). With `noise` it is false: the answer to an open may be lost.

`ReadRightAlways` follows from `Line` and `Reads`. With `late` none of this holds, and no theorem speaks of it.

`LibcProofs`: for every heap, environment, file, buffer and format,

* `NothingLostAlways` and `BlocksOwnedAlways`, as long as `spoilt` is "no". `MemoryInv` says of the list that no two chunks overlap (`Sound`),
  that they cover what was given (`Covered`, `Given`), and who owns the taken ones (`Owned`). A split and a join are one relation, `CutAt`,
  read in two directions: cutting a free chunk keeps what is covered and clear, and so does joining the parts. `MallocGives` says of a
  malloc that has not spoilt the list that it covers what it has been given besides and takes one block nobody had, or none;
  `setenv` is two of these and a free, so each way it can fail half way is a case of `SetNewKeepsInv`. Nothing is said about a heap after a
  split that leaves less than a header, or after a break in memory that is in use: then the list is broken, and the properties say so;
* `NothingSkippedAlways`: `Kept` adds the bounds of the buffer, without which the next byte need not be one of the file;
* `SameTextAlways`: `Chunked` adds that the open chunk of `vfprintf` ends where the format ends, and that it has none inside a conversion.

`BlocksLeast` (`MemProofs`) says that `_mem_blocks` returns the least power of two that is enough, or 0.

Every invariant and every action property the runs check is a theorem. All liveness (`CallsReturn`, `ZombiesGo`,
`ReadyRuns`, `LinesArrive`) stays with TLC, as does what recursive functions (the formatters run over a whole format) compute: temporal
properties under fairness, ENABLED and induction over data are out of the prover's reach.

## 5. What the models show of the code

Where the code does other than its comments say, or than one would expect, the model follows the code, and a
property is stated for what remains true. The places, by module:

**Processes.** The system interrupt handler leaves the device interrupts masked where its comment says otherwise (`srt0.s`, `sys_irq`); a task that resumes after a blocked send that succeeded gets EABORT (`proc.c:1044`); exit returns when SIGCHILD is
pending (`stdlib.c:32`, `proc.c:1009`); a faulted process keeps the CPU until the next system interrupt
(`srt0.s:389`); the answer of exec is written where the process was (`proc.c:610`); a shrinking reallocation copies the old size
(`mem.c:91`); fork without memory loses its slot (`proc.c:349`).

**Vnodes.** What a victim of kill opens between VFS_KILL and `proc_kill` is never closed (`system.c:517`), and the debug shell kills without VFS_KILL at
all (`dsh/dsh.c:246`); chdir leaks the old directory (`vfs.c:796`); mount never releases the device vnode, and a failed one leaves roots held; the
mount of the root writes through `pvn_at`, which is not set (433); EPERM of mount is overwritten (290);
`vfs_vnode_alloc` with an empty pool writes through NULL (951); `_vfs_fork` from a process is never answered; the lookup of devfs writes
into the parent (`devfs.c:382-386`) and its comments at 56, 353 and 396 say otherwise; mkdir in devfs returns +EROFS; `_lookuppn` does not ask that
an element be a directory, and fat then reads a file as entries.

**Remote files.** Answers carry no number, so one that comes after the time-out is taken for the next one and can overrun the reader's
buffer; a lookup of an open node hides its handle, and fseek gets NULL; the first of two closes ends the handle for both; a position beyond the
end makes the next count wrap (`rfs.c:408-412`); open resets the position of the other descriptors; a handle stays open when the answer to its open is
lost; the buffer of a read answer is one byte short; in rfsd an error of the command state falls into the next one; it sends `len` bytes whatever
`fread` gave; mkdir takes its error from an unset frame after a time-out; a name too long ends a listing.

**Clock and terminal.** A wake time in the past, or a SLEEP below one period, waits 49 days; a second SLEEP replaces the first; a key's
signal can be spent on the send of the SLEEP, and the key is displayed at the next blink (the comment of `tty.c:643` does not foresee it); if
the clock had the mouse's message in hand then, the SLEEP is lost for good; a writer that never stops keeps the event branch from running; the
message of a user process makes the task leave its loop (506); the test for a full ring is done on ints, so that at 255 the ring overruns (`tty.c:640`,
`mio.c:175`). The cursor in the last column erases its character; a hidden terminal that scrolls moves the live picture
(846); a display list may be overwritten while it is executed; accented characters are never echoed; releasing one of two
SHIFTs or CTRLs drops the modifier; F7 types what F5 does and shares its bit of the map, the fake SHIFT of a keyboard counts as SHIFT; the mouse's coordinates may be torn (146).

**FAT.** A lookup sets the first cluster only in the root; all empty files share the vnode of cluster 0; "." and ".." are compared as blanks; every
open, also a failing one, rewinds the position all descriptors share; lseek does not set `CurrentByte` (660-705), so a
later read is cut at the wrong place and SEEK_CUR and SEEK_END are off; read errors in the FAT are ignored; the vnode of an empty file has the sector
"cluster 0" begins with, which is that of the root if the root takes two clusters' room (512 entries and 16 sectors in a cluster), and then its lookup finds the root; a listing goes on behind the end mark (826), and a call that fails
has moved past the names it had read (811); a full directory without end mark runs off its chain; a read error after some progress loses data and moves the position; the search of a
root that cannot be read dereferences NULL; an 8.3 name is one byte short. **SD card** (not modelled): `card_type & SD_CARD_TYPE_V2HC` is true of every V2 card and an
error token is taken for the start of the data.

**C library.** The break is the word at `__e_heap`, a pointer to the first argument, so the first growth covers the arguments (`__libc.c:53`); a
split that leaves four bytes tears the list, against the comment of `stdlib.c:318`; growth is not joined with a free last chunk; setenv, unsetenv and
getenv match prefixes; unsetenv and getenv go through a NULL environ; fclose never frees; fgets drops a last line without a newline, ends at NUL, and
returns a full line without its terminator; `atoi` returns 0 when anything follows the digits; a stream buffered before fork is read by both.

## 6. Not modelled, and what could come next

* **Sound** (`av_pcm.c`, `av_opl2.c`), the **SD card** and partitions of `mio.c`, the loading of the graphics firmware, bitmaps: device input and output with
  no state that others read.
* **Mouse**: its loop is a client in `Clock`; the packet decoder is not modelled.
* **C library**: the division and printing of numbers, string functions, dirent, signals; **debug shell** beyond what it loads and kills.
* **Boot loader, games and player, fonts and keymaps, the VHDL test bench**: applications and data.
* **Contents**: the data of reads and writes in `Vfs` (they are in `Remote` and `Fat`), the images of exec.
