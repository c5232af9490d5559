-------------------------------- MODULE Vfs --------------------------------
(***************************************************************************)
(* The file server (kernel/vfs.c) with the device file system              *)
(* (kernel/fs/devfs.c) and the file systems that keep one vnode per file   *)
(* in use, as fs/rfs.c and fs/fat.c do: the pool of vnodes, their          *)
(* reference counts, path lookup, mount points and the descriptors of all  *)
(* processes.                                                              *)
(*                                                                         *)
(* One task serves one request at a time.  A path is the number of its     *)
(* elements: what a name leads to is left to the file system, which finds  *)
(* any of its objects or none.  The model starts when the two mounts of    *)
(* the boot and the open of the terminal by init are done.                 *)
(***************************************************************************)
EXTENDS Integers, FiniteSets, FiniteSetsExt

CONSTANTS Users, INIT_PID,          \* pids; INIT_PID has the terminal open
          K_PROC_FD_COUNT, K_VNODE_COUNT, K_VFS_COUNT,
          Files, Dirs,          \* objects of a disk or a remote file system
          ROOT, DEV,            \* two of Dirs: "/" and "/dev"
          Chars, Disks, TTY,    \* devices; TTY is one of Chars
          DEVFS,                \* the directory of devices
          Allowed,              \* what processes do, see VfsAssumption
          MaxPath,              \* bound: elements of a path
          MaxCount              \* bound: references to all vnodes (a 16-bit count each)

SYS    == 0                     \* PROC_PID_SYSTEM_TASK
Procs  == Users \cup {SYS}
Fds    == 0..(K_PROC_FD_COUNT - 1)
Nodes  == 1..K_VNODE_COUNT
Mounts == 1..K_VFS_COUNT
Devices == Chars \cup Disks
Objects == Files \cup Dirs \cup Devices \cup {DEVFS}
NoNode == 0
None   == "none"        \* no object

ASSUME VfsAssumption ==
  /\ Users \subseteq Nat \ {0} /\ IsFiniteSet(Users) /\ INIT_PID \in Users
  /\ K_PROC_FD_COUNT \in Nat \ {0}
  /\ K_VNODE_COUNT \in Nat /\ K_VNODE_COUNT >= 4
  /\ K_VFS_COUNT \in Nat /\ K_VFS_COUNT >= 2
  /\ ROOT \in Dirs /\ DEV \in Dirs /\ ROOT # DEV /\ TTY \in Chars
  /\ DEVFS \notin Devices /\ None \notin Objects
  /\ Allowed \subseteq {"leave",      \* chdir from a directory to another
                        "mount",      \* mounts after the boot
                        "running"}    \* kill of a process that has not stopped
  /\ MaxPath \in Nat /\ MaxCount \in Nat

VARIABLES
  vn,     \* _vfs_vnode_table: list (0 free, f in the list of mount f, -1 in
          \* none), key (rnode or device), type, count, mnt (v_vfsmountedhere)
  fs,     \* _vfs_vfs_table: kind, root vnode, covered vnode
  fd,     \* fd_table of each process: vnodes, 0 for none
  cwd,    \* cdir of each process
  alive,  \* the processes whose slot is in use
  dying,  \* the process that VFS_KILL was served for, until proc_kill frees it
  req,    \* the request in service and the vnode its walk has reached
  io      \* what the last read, write, seek, ioctl or getdents was done to

vars == <<vn, fs, fd, cwd, alive, dying, req, io>>

Idle   == [op |-> "idle", pid |-> SYS, left |-> 0, at |-> NoNode,
           new |-> NoNode]
Free   == [list |-> 0, key |-> ROOT, type |-> "dir", count |-> 0, mnt |-> 0]

FileType(o) == IF o \in Dirs THEN "dir" ELSE "reg"
DevType(d)  == IF d \in Chars THEN "chr" ELSE "blk"

\* A vnode of a disk or a remote file system is what its key says.  Those of
\* a devfs are not told apart: which device one is, a lookup of another may
\* change (see Named).
What(v) ==
  IF v = NoNode THEN None
  ELSE IF vn[v].list \in Mounts /\ fs[vn[v].list].kind = "devfs" THEN DEVFS
  ELSE vn[v].key

\* A guard of the model: the references stay below their bound.
Room == MapThenSumSet(LAMBDA v : vn[v].count, Nodes) < MaxCount

-----------------------------------------------------------------------------
(* Vnodes.  Operators on a table of vnodes n, so that they compose.        *)

Hold(n, v) == [n EXCEPT ![v].count = @ + 1]

\* VN_RELE: without a reference the vnode leaves its file system
\* (vn_inactive), unless it is in no list.
Rele(n, v) ==
  IF n[v].count > 1 THEN [n EXCEPT ![v].count = @ - 1]
  ELSE [n EXCEPT ![v] = [n[v] EXCEPT !.count = 0,
                                      !.list = IF n[v].list = -1 THEN -1 ELSE 0]]

\* The vnode at the head of the free list; which one it is does not matter.
Unused(n) == {v \in Nodes : n[v].list = 0}
NextFree(n) == {v \in Unused(n) : \A w \in Unused(n) : v <= w}

\* vfs_vnode_alloc and the _allocate_vnode of a file system.
Alloc(n, v, f, k, t) ==
  [n EXCEPT ![v] = [list |-> f, key |-> k, type |-> t, count |-> 0, mnt |-> 0]]

\* Faulty variant: a vnode that exists is not looked for.
FindNone(n, f, k) == {}

\* _find_vnode.  The root of a devfs is last in its list.
Match(n, f, k) == {v \in Nodes : n[v].list = f /\ n[v].key = k}
Find(n, f, k)  ==
  LET m == Match(n, f, k)
  IN  IF m \subseteq {fs[f].root} THEN m ELSE m \ {fs[f].root}

\* v_vfsmountedhere: the walk goes on at the root of the file system mounted
\* on the vnode it has reached.
Crossed(v) == IF vn[v].mnt = 0 THEN v ELSE fs[vn[v].mnt].root
Cross(v)   == IF vn[v].mnt = 0 THEN vn ELSE Rele(Hold(vn, Crossed(v)), v)

-----------------------------------------------------------------------------
(* Requests.                                                               *)

\* The mounts of the boot.
BootFs ==
  [f \in Mounts |->
     IF f = 1 THEN [kind |-> "rfs", root |-> 1, covered |-> NoNode]
     ELSE IF f = 2 THEN [kind |-> "devfs", root |-> 3, covered |-> 2]
     ELSE [kind |-> "none", root |-> NoNode, covered |-> NoNode]]

BootVn ==
  [v \in Nodes |->
     IF v = 1 THEN [Free EXCEPT !.list = 1, !.count = 1]
     ELSE IF v = 2 THEN [Free EXCEPT !.list = 1, !.key = DEV, !.count = 1, !.mnt = 2]
     ELSE IF v = 3 THEN [Free EXCEPT !.list = 2, !.key = TTY, !.count = 2]
     ELSE IF v = 4 THEN [Free EXCEPT !.list = 2, !.key = TTY, !.count = 1, !.type = "chr"]
     ELSE Free]

Init ==
  /\ vn = BootVn
  /\ fs = BootFs
  /\ fd = [p \in Procs |-> [i \in Fds |-> IF p = INIT_PID /\ i = 0 THEN 4 ELSE NoNode]]
  /\ cwd = [p \in Procs |-> NoNode]
  /\ alive = {SYS, INIT_PID} /\ dying = {}
  /\ req = Idle
  /\ io = <<>>

\* The request is answered; n is the table it leaves.
End(n) == vn' = n /\ req' = Idle /\ io' = <<>>

\* _lookuppn starts at the root, or for a relative path at the current
\* directory of the process, if it has one.
Start(p, v) == v # NoNode /\ v \in {fs[1].root, cwd[p]}

\* Who may send a request: the system task, unless it is on its way from
\* VFS_KILL to proc_kill; and any other process, a victim only if it still
\* runs.
Asks(p) ==
  /\ p \in alive
  /\ IF p = SYS THEN dying = {} ELSE p \in dying => "running" \in Allowed

\* The system task opens one image at a time and asks nothing else here.
Begin(p, op, len, v) ==
  /\ req.op = "idle" /\ Asks(p) /\ Start(p, v) /\ Room
  /\ p = SYS => op = "open" /\ \A i \in Fds : fd[SYS][i] = NoNode
  /\ vn' = Hold(vn, v)
  /\ req' = [op |-> op, pid |-> p, left |-> len, at |-> v, new |-> NoNode]
  /\ io' = <<>>
  /\ UNCHANGED <<fs, fd, cwd, alive, dying>>

\* The slots of _vfs_free_vfs_list: all but the root and what covers a vnode.
Slots == {f \in Mounts : f # 1 /\ fs[f].covered = NoNode}

\* open, chdir and mkdir, and the device of a mount that a user asks for.
AskOpen(p, len, v)  == Begin(p, "open", len, v)
AskChdir(p, len, v) ==
  ("leave" \in Allowed \/ cwd[p] = NoNode) /\ Begin(p, "chdir", len, v)
AskMkdir(p, len, v) == Begin(p, "mkdir", len, v)
AskMount(p, len, v) ==
  /\ "mount" \in Allowed /\ p # SYS
  /\ Slots # {}
  /\ Begin(p, "device", len, v)

Step(n, v) ==
  /\ vn' = n /\ io' = <<>>
  /\ req' = [req EXCEPT !.left = @ - 1, !.at = v]
  /\ UNCHANGED <<fs, fd, cwd, alive, dying>>

Walking == req.op \in {"open", "chdir", "mkdir", "device", "target"}

\* Faulty variant: the element after "." is lost.
DotTwo ==
  /\ Walking /\ req.left > 0
  /\ vn' = Cross(req.at) /\ io' = <<>>
  /\ req' = [req EXCEPT !.left = @ - 2, !.at = Crossed(req.at)]
  /\ UNCHANGED <<fs, fd, cwd, alive, dying>>

\* The element "." stays where the walk is.
Dot == Walking /\ req.left > 0 /\ Step(Cross(req.at), Crossed(req.at))

\* vn_lookup of a file system on a disk: a vnode in use is shared.
Lookup(o) ==
  LET v == Crossed(req.at)
      n == Cross(req.at)
      f == vn[v].list
  IN  /\ Walking /\ req.left > 0
      /\ fs[f].kind \in {"rfs", "fat"} /\ vn[v].type = "dir" /\ o \in Files \cup Dirs
      /\ \/ \E w \in Find(n, f, o) : Step(Rele(Hold(n, w), v), w)
         \/ /\ Find(n, f, o) = {}
            /\ \E w \in NextFree(n) :
                 Step(Rele(Hold(Alloc(n, w, f, o, FileType(o)), w), v), w)

\* _vn_lookup of devfs: it writes the device to the directory it looks in,
\* not to the vnode it found, so that the root can be found for a device.
Named(n, w, v, d) ==
  [u \in Nodes |->
     LET r == IF u = w THEN [n[u] EXCEPT !.type = DevType(d), !.mnt = 0] ELSE n[u]
     IN  IF u = v THEN [r EXCEPT !.key = d] ELSE r]

LookupDev(d) ==
  LET v == Crossed(req.at)
      n == Cross(req.at)
      f == vn[v].list
  IN  /\ Walking /\ req.left > 0
      /\ fs[f].kind = "devfs" /\ v = fs[f].root /\ d \in Devices
      /\ \/ \E w \in Find(n, f, d) : Step(Rele(Hold(Named(n, w, v, d), w), v), w)
         \/ /\ Find(n, f, d) = {}
            /\ \E w \in NextFree(n) :
                 Step(Rele(Hold(Named(Alloc(n, w, f, d, DevType(d)), w, v, d), w), v), w)

\* No such name, not a directory, or no vnode left.
LookupFails ==
  LET n == Rele(Cross(req.at), Crossed(req.at))
  IN  /\ Walking /\ req.left > 0
      /\ End(IF req.new = NoNode THEN n ELSE Rele(n, req.new))
      /\ UNCHANGED <<fs, fd, cwd, alive, dying>>

-----------------------------------------------------------------------------
(* The end of the walk.                                                    *)

Arrived(op) == req.op = op /\ req.left = 0
There   == Crossed(req.at)
Reached == Cross(req.at)

FirstFd(p, i) == fd[p][i] = NoNode /\ \A j \in Fds : j < i => fd[p][j] # NoNode

\* Faulty variant: the reference of the walk is not kept for the descriptor.
OpenReleases(i) ==
  /\ Arrived("open") /\ FirstFd(req.pid, i)
  /\ fd' = [fd EXCEPT ![req.pid][i] = There]
  /\ End(Rele(Reached, There))
  /\ UNCHANGED <<fs, cwd, alive, dying>>

Open(i) ==
  /\ Arrived("open") /\ FirstFd(req.pid, i)
  /\ fd' = [fd EXCEPT ![req.pid][i] = There]
  /\ End(Reached)
  /\ UNCHANGED <<fs, cwd, alive, dying>>

\* Faulty variant: a failed open keeps its reference.
OpenFailsKeeps ==
  /\ Arrived("open")
  /\ End(Reached)
  /\ UNCHANGED <<fs, fd, cwd, alive, dying>>

\* No descriptor is left, or the file system refuses.
OpenFails ==
  /\ Arrived("open")
  /\ End(Rele(Reached, There))
  /\ UNCHANGED <<fs, fd, cwd, alive, dying>>

\* The directory that the process leaves is not released.
Chdir ==
  /\ Arrived("chdir") /\ vn[There].type = "dir"
  /\ cwd' = [cwd EXCEPT ![req.pid] = There]
  /\ End(Reached)
  /\ UNCHANGED <<fs, fd, alive, dying>>

\* chdir to a file; mkdir, which the file system does or refuses.
Drop ==
  /\ Arrived("mkdir") \/ (Arrived("chdir") /\ vn[There].type # "dir")
  /\ End(Rele(Reached, There))
  /\ UNCHANGED <<fs, fd, cwd, alive, dying>>

\* _vfs_mount after the lookup of the device, whose vnode is never released:
\* the device is no disk, or the file system does not mount it.
MountFails ==
  /\ Arrived("device")
  /\ End(Reached)
  /\ UNCHANGED <<fs, fd, cwd, alive, dying>>

\* devfs and fat hold their root when they are mounted, and all do when it
\* is asked for.
Roots(kind) == IF kind = "rfs" THEN 1 ELSE 2

\* The slot is only taken when the mount succeeds; the vnodes of one that
\* failed there are in no list any more.
Mount(kind, f, w, len, v) ==
  LET n == [u \in Nodes |-> IF vn[u].list = f THEN [vn[u] EXCEPT !.list = -1]
                            ELSE Reached[u]]
  IN  /\ Arrived("device") /\ vn[There].type = "blk"
      /\ f \in Slots /\ \A g \in Slots : f <= g
      /\ w \in NextFree(Reached) /\ Start(req.pid, v)
      /\ fs' = [fs EXCEPT ![f].kind = kind, ![f].root = w]
      /\ vn' = Hold([n EXCEPT ![w] = [@ EXCEPT !.list = f, !.type = "dir",
                        !.key = IF kind = "devfs" THEN DEVFS ELSE ROOT,
                        !.count = Roots(kind)]], v)
      /\ req' = [req EXCEPT !.op = "target", !.left = len, !.at = v, !.new = w]
      /\ io' = <<>>
      /\ UNCHANGED <<fd, cwd, alive, dying>>

Mounted ==
  LET f == vn[req.new].list
  IN  /\ Arrived("target") /\ vn[There].type = "dir"
      /\ fs' = [fs EXCEPT ![f].covered = There]
      /\ End([Reached EXCEPT ![There].mnt = f])
      /\ UNCHANGED <<fd, cwd, alive, dying>>

\* The target is "/", or no directory.
NotMounted ==
  /\ Arrived("target") /\ (vn[There].type # "dir" \/ There = fs[1].root)
  /\ End(Rele(Rele(Reached, There), req.new))
  /\ UNCHANGED <<fs, fd, cwd, alive, dying>>

-----------------------------------------------------------------------------
(* Requests on descriptors and from the system task.                       *)

Close(p, i) ==
  /\ req.op = "idle" /\ Asks(p) /\ fd[p][i] # NoNode
  /\ fd' = [fd EXCEPT ![p][i] = NoNode]
  /\ End(Rele(vn, fd[p][i]))
  /\ UNCHANGED <<fs, cwd, alive, dying>>

\* read and write (no directory), getdents (a directory), lseek, ioctl.
Use(p, i) ==
  /\ req.op = "idle" /\ Asks(p) /\ fd[p][i] # NoNode
  /\ io' = <<p, i, What(fd[p][i])>>
  /\ UNCHANGED <<vn, fs, fd, cwd, alive, dying, req>>

\* How many references of p to v a fork copies.
Copies(p, v) ==
  Cardinality({i \in Fds : fd[p][i] = v}) + (IF cwd[p] = v THEN 1 ELSE 0)

\* What the slot of the child still holds is overwritten.
Fork(p, q) ==
  /\ req.op = "idle" /\ Asks(SYS) /\ Room
  /\ p \in alive \ {SYS} /\ q \in Users \ alive
  /\ fd' = [fd EXCEPT ![q] = fd[p]]
  /\ cwd' = [cwd EXCEPT ![q] = cwd[p]]
  /\ alive' = alive \cup {q}
  /\ vn' = [v \in Nodes |-> [vn[v] EXCEPT !.count = @ + Copies(p, v)]]
  /\ io' = <<>>
  /\ UNCHANGED <<fs, dying, req>>

Kill(p) ==
  /\ req.op = "idle" /\ Asks(SYS) /\ p \in alive \ {SYS}
  /\ req' = [Idle EXCEPT !.op = "kill", !.pid = p]
  /\ io' = <<>>
  /\ UNCHANGED <<vn, fs, fd, cwd, alive, dying>>

KillClose(i) ==
  /\ req.op = "kill" /\ fd[req.pid][i] # NoNode
  /\ \A j \in Fds : j < i => fd[req.pid][j] = NoNode
  /\ fd' = [fd EXCEPT ![req.pid][i] = NoNode]
  /\ vn' = Rele(vn, fd[req.pid][i])
  /\ io' = <<>>
  /\ UNCHANGED <<fs, cwd, alive, dying, req>>

\* Faulty variant: the last descriptor is not closed.
KillEndLast ==
  /\ req.op = "kill" /\ \A i \in Fds \ {K_PROC_FD_COUNT - 1} : fd[req.pid][i] = NoNode
  /\ dying' = {req.pid}
  /\ cwd' = [cwd EXCEPT ![req.pid] = NoNode]
  /\ End(IF cwd[req.pid] = NoNode THEN vn ELSE Rele(vn, cwd[req.pid]))
  /\ UNCHANGED <<fs, fd, alive>>

KillEnd ==
  /\ req.op = "kill" /\ \A i \in Fds : fd[req.pid][i] = NoNode
  /\ dying' = {req.pid}
  /\ cwd' = [cwd EXCEPT ![req.pid] = NoNode]
  /\ End(IF cwd[req.pid] = NoNode THEN vn ELSE Rele(vn, cwd[req.pid]))
  /\ UNCHANGED <<fs, fd, alive>>

\* The system task has the answer of the server and calls proc_kill, whatever
\* the server serves meanwhile.
ProcKill(p) ==
  /\ p \in dying
  /\ alive' = alive \ {p} /\ dying' = {}
  /\ io' = <<>>
  /\ UNCHANGED <<vn, fs, fd, cwd, req>>

\* proc_exec has the system task look paths up from the directory of the
\* process and always gives it back.
Sysdir(p) ==
  /\ req.op = "idle" /\ Asks(SYS) /\ cwd[SYS] = NoNode /\ Room
  /\ p \in alive \ {SYS}
  /\ cwd' = [cwd EXCEPT ![SYS] = cwd[p]]
  /\ End(IF cwd[p] = NoNode THEN vn ELSE Hold(vn, cwd[p]))
  /\ UNCHANGED <<fs, fd, alive, dying>>

SysdirBack ==
  /\ req.op = "idle" /\ Asks(SYS) /\ cwd[SYS] # NoNode
  /\ cwd' = [cwd EXCEPT ![SYS] = NoNode]
  /\ End(Rele(vn, cwd[SYS]))
  /\ UNCHANGED <<fs, fd, alive, dying>>

Next ==
  \/ \E p \in Procs, i \in Fds : Close(p, i) \/ Use(p, i)
  \/ \E p \in Procs, len \in 0..MaxPath, v \in Nodes :
       AskOpen(p, len, v) \/ AskChdir(p, len, v) \/ AskMkdir(p, len, v)
       \/ AskMount(p, len, v)
  \/ Dot \/ LookupFails
  \/ \E o \in Files \cup Dirs : Lookup(o)
  \/ \E d \in Devices : LookupDev(d)
  \/ \E i \in Fds : Open(i) \/ KillClose(i)
  \/ OpenFails \/ Chdir \/ Drop
  \/ MountFails \/ Mounted \/ NotMounted
  \/ \E kind \in {"rfs", "fat", "devfs"}, f \in Mounts, w \in Nodes,
        len \in 0..MaxPath, v \in Nodes : Mount(kind, f, w, len, v)
  \/ \E p, q \in Users : Fork(p, q)
  \/ \E p \in Users : Kill(p) \/ ProcKill(p) \/ Sysdir(p)
  \/ KillEnd \/ SysdirBack

Spec == Init /\ [][Next]_vars

-----------------------------------------------------------------------------
(* Properties.                                                             *)

\* Everything keeps its type.
VnodeType == [list : Mounts \cup {0, -1}, key : Objects,
              type : {"dir", "reg", "chr", "blk"}, count : Nat, mnt : Mounts \cup {0}]

TypeOK ==
  /\ vn \in [Nodes -> VnodeType]
  /\ fs \in [Mounts -> [kind : {"none", "rfs", "fat", "devfs"},
                        root : Nodes \cup {NoNode}, covered : Nodes \cup {NoNode}]]
  /\ fd \in [Procs -> [Fds -> Nodes \cup {NoNode}]]
  /\ cwd \in [Procs -> Nodes \cup {NoNode}]
  /\ alive \subseteq Procs /\ dying \subseteq Users
  /\ req \in [op : {"idle", "open", "chdir", "mkdir", "device", "target", "kill"},
              pid : Procs, left : 0..MaxPath, at : Nodes \cup {NoNode},
              new : Nodes \cup {NoNode}]

\* Where references to vnodes are: descriptors, current directories, mounts
\* (the vnode they cover, and their root), the walk in progress.
RefSlots ==
  ({"fd"} \X (Procs \X Fds)) \cup ({"cwd"} \X Procs)
    \cup ({"covers", "root", "mounted"} \X Mounts) \cup {<<"walk", 0>>}

MountRef(kind, f) ==
  IF kind = "covers" THEN fs[f].covered
  ELSE IF f \in Slots \/ (kind = "mounted" /\ fs[f].kind = "rfs") THEN NoNode
  ELSE fs[f].root

Refs ==
  [h \in RefSlots |->
     IF h[1] = "fd" THEN fd[h[2][1]][h[2][2]]
     ELSE IF h[1] = "cwd" THEN cwd[h[2]]
     ELSE IF h[1] = "walk" THEN (IF Walking THEN req.at ELSE NoNode)
     ELSE MountRef(h[1], h[2])]

Holders(v) == {h \in RefSlots : Refs[h] = v}

\* As long as no process leaves a directory, nothing is mounted after the boot
\* and only processes that have stopped are killed, a vnode counts exactly the
\* references to it: whatever processes open, fork, close or exec, and
\* whatever fails, none is lost and none is counted twice.
CountsExact == \A v \in Nodes : vn[v].count = Cardinality(Holders(v))

\* Whatever they do, no vnode in use is free to become another file.
NoneFreed ==
  \A v \in Nodes : vn[v].list = 0 => vn[v].count = 0 /\ Holders(v) = {}

\* "close all open files" (system.c, KILL): a process that is gone holds
\* nothing, so that the memcpy of a fork overwrites no reference.  It is false
\* for one that still runs and opens a file between VFS_KILL and proc_kill.
DeadHoldNothing ==
  \A p \in Procs \ alive :
    cwd[p] = NoNode /\ \A i \in Fds : fd[p][i] = NoNode

\* Two users of one file share its vnode.
OneVnode ==
  \A v, w \in Nodes :
    /\ vn[v].list > 0 /\ vn[v].list = vn[w].list /\ vn[v].key = vn[w].key
    => v = w \/ fs[vn[v].list].root \in {v, w}

\* The server keeps its promise to its clients, as long as only processes that
\* have stopped are killed: the file or directory a descriptor names never
\* changes, nor does it become a device, or a device a file.
Promise == INSTANCE OpenFiles WITH
  file <- [p \in Procs |-> [i \in Fds |-> What(fd[p][i])]],
  dir  <- [p \in Procs |-> What(cwd[p])]
KeepsPromise == Promise!Spec
=============================================================================
