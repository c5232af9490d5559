------------------------------- MODULE Remote -------------------------------
(***************************************************************************)
(* The remote file system: the client in the kernel (kernel/fs/rfs.c), the *)
(* serial port it reads (kernel/mio.c) and the daemon on the host          *)
(* (tools/rfsd/rfsd.c).                                                    *)
(*                                                                         *)
(* The file server has one call in progress.  A command is one frame and   *)
(* so is its answer; the daemon receives commands whole or drops them, but *)
(* the bytes of answers reach the serial ring in their own time.  The      *)
(* client takes as many bytes as the answer it waits for is long, or those *)
(* that came within the timeout of the port, and nothing ties an answer to *)
(* its command: a late one is taken for that of the next command.          *)
(***************************************************************************)
EXTENDS Integers, Sequences, FiniteSets

CONSTANTS
  Files, Dirs,          \* nodes of the remote tree below its root
  Bytes,                \* bytes of a file, or entries of a directory
  AnswerLen,            \* length of the answers by the letter of the command,
                        \* without the data of a read
  RFS_MAX_READ,         \* data bytes of an answer to a read
  Faults,               \* what may go wrong, see RemoteAssumption
  MaxDescs,             \* bound: descriptors of the daemon, for each fault
  MaxOpens,             \* bound: descriptors of the clients on one node
  MaxCount,             \* bound: bytes asked for by a read
  MaxLate               \* bound: bytes not yet taken when a call begins

Root  == "/"
Nodes == Files \cup Dirs
Kinds == {"L", "O", "C", "R", "D", "M", "I"}

ASSUME RemoteAssumption ==
  /\ Root \notin Nodes /\ Files \cap Dirs = {}
  /\ Bytes \in [Nodes -> Nat]
  /\ AnswerLen \in [Kinds -> Nat \ {0}]
  /\ RFS_MAX_READ \in Nat \ {0}
  /\ Faults \subseteq {"none",
                       "noise",     \* frames are lost
                       "late",      \* answers come after the timeout
                       "share",     \* a node is looked up while it is open
                       "reboot"}    \* the kernel restarts, the daemon goes on
  /\ MaxDescs \in [Faults -> Nat]
  /\ {MaxOpens, MaxCount, MaxLate} \subseteq Nat /\ MaxOpens > 0

VARIABLES
  fault,    \* the one fault of this behaviour
  \* the kernel
  opens,    \* how many descriptors are open on each node
  vnode,    \* FileSize and lseek of each node, shared by its descriptors
  call,     \* the call of the file server in progress
  last,     \* the last call that has returned, and what it returned
  ring,     \* bytes in the ring of the serial port
  \* the line
  cmds,     \* commands on their way
  wire,     \* bytes of answers on their way
  \* the daemon
  running,  \* it is
  tree,     \* nodes that exist
  descs     \* _descriptors, newest first: node and handle (-1: NULL; a
            \* directory is open at a position)

kernel == <<opens, vnode, call, last>>
daemon == <<running, tree, descs>>
vars   == <<fault, kernel, ring, cmds, wire, daemon>>

NoCall == [op |-> "none", node |-> Root, start |-> 0, count |-> 0, data |-> <<>>]
Fresh  == [size |-> 0, lseek |-> 0]
Clip(a, b) == IF a < b THEN a ELSE b

Init ==
  /\ fault \in Faults
  /\ opens = [n \in Nodes |-> 0] /\ vnode = [n \in Nodes |-> Fresh]
  /\ call = NoCall /\ last = NoCall
  /\ ring = <<>> /\ cmds = <<>> /\ wire = <<>>
  /\ running = TRUE /\ tree = Files
  /\ descs = <<[node |-> Root, h |-> -1]>>

-----------------------------------------------------------------------------
(* The daemon.                                                             *)

\* _find_by_node: the newest descriptor of a node, if it has one.
FindByNode(n) ==
  {i \in DOMAIN descs : /\ descs[i].node = n
                        /\ \A j \in DOMAIN descs : j < i => descs[j].node # n}
Opened(n) == \E i \in FindByNode(n) : descs[i].h >= 0

Frame(op, n, a, b) ==
  [op |-> op, node |-> n, a |-> a, b |-> b,
   len |-> AnswerLen[op] + (IF op = "R" THEN b ELSE 0)]

\* _send_msg, byte by byte.
Reply(f) ==
  \/ wire' = wire \o [k \in 1..f.len |-> <<f, k>>]
  \/ fault = "noise" /\ wire' = wire

\* The framer takes the next command; noise makes it drop one.  A daemon
\* without its root serves a reset only.
Serve(op) ==
  /\ running /\ cmds # <<>> /\ Head(cmds).op = op
  /\ op = "I" \/ descs # <<>>
  /\ cmds' = Tail(cmds)
  /\ UNCHANGED <<fault, kernel, ring>>

Ignore ==
  /\ running /\ descs = <<>> /\ cmds # <<>> /\ Head(cmds).op # "I"
  /\ cmds' = Tail(cmds)
  /\ UNCHANGED <<fault, kernel, ring, wire, daemon>>

Reject ==
  /\ fault = "noise" /\ running /\ cmds # <<>>
  /\ cmds' = Tail(cmds)
  /\ UNCHANGED <<fault, kernel, ring, wire, daemon>>

\* Each lookup adds a descriptor without a handle in front of the others.
ServeLookup ==
  LET n == Head(cmds).node
  IN  /\ Serve("L")
      /\ IF n \in tree
         THEN /\ Reply(Frame("L", n, 1, 0))
              /\ descs' = <<[node |-> n, h |-> -1]>> \o descs
         ELSE Reply(Frame("L", Root, 0, 0)) /\ UNCHANGED descs
      /\ UNCHANGED <<running, tree>>

SetHandle(i, h) == descs' = [descs EXCEPT ![i].h = h]

\* What opendir or fopen returned takes the place of the handle, NULL when
\* the host cannot open the node.
ServeOpen ==
  LET n == Head(cmds).node
  IN  /\ Serve("O")
      /\ \/ \E i \in FindByNode(n) :
              \/ /\ SetHandle(i, 0)
                 /\ Reply(Frame("O", n, 1, IF n \in Files THEN Bytes[n] ELSE 0))
              \/ SetHandle(i, -1) /\ Reply(Frame("O", n, 0, 0))
         \/ FindByNode(n) = {} /\ Reply(Frame("O", n, 0, 0)) /\ UNCHANGED descs
      /\ UNCHANGED <<running, tree>>

\* Faulty variant: the handle is not forgotten.
ServeCloseKeeps ==
  LET n == Head(cmds).node
  IN  /\ Serve("C")
      /\ Reply(Frame("C", n, IF FindByNode(n) = {} THEN 0 ELSE 1, 0))
      /\ UNCHANGED daemon

ServeClose ==
  LET n == Head(cmds).node
  IN  /\ Serve("C")
      /\ \/ \E i \in FindByNode(n) :
              SetHandle(i, -1) /\ Reply(Frame("C", n, 1, 0))
         \/ FindByNode(n) = {} /\ Reply(Frame("C", n, 0, 0)) /\ UNCHANGED descs
      /\ UNCHANGED <<running, tree>>

\* An answer without a name: the end of the directory, or it is not open.
ServeGetdents ==
  LET n == Head(cmds).node
  IN  /\ Serve("D")
      /\ \/ \E i \in FindByNode(n) :
              /\ descs[i].h >= 0 /\ descs[i].h < Bytes[n]
              /\ SetHandle(i, descs[i].h + 1)
              /\ Reply(Frame("D", n, descs[i].h + 1, 0))
         \/ /\ \A i \in FindByNode(n) : descs[i].h < 0 \/ descs[i].h >= Bytes[n]
            /\ Reply(Frame("D", n, 0, 0)) /\ UNCHANGED descs
      /\ UNCHANGED <<running, tree>>

\* The answer has as many bytes as were asked for; fseek of a handle that is
\* NULL is the end of the daemon.
ServeRead ==
  LET n == Head(cmds).node
  IN  /\ Serve("R")
      /\ \/ Opened(n) /\ Reply(Frame("R", n, Head(cmds).at, Head(cmds).count))
                      /\ UNCHANGED running
         \/ FindByNode(n) = {} /\ Reply(Frame("R", n, -1, 0)) /\ UNCHANGED running
         \/ /\ FindByNode(n) # {} /\ ~ Opened(n)
            /\ running' = FALSE /\ UNCHANGED wire
      /\ UNCHANGED <<tree, descs>>

ServeMkdir ==
  LET n == Head(cmds).node
  IN  /\ Serve("M")
      /\ Reply(Frame("M", n, IF n \in tree THEN 1 ELSE 0, 0))
      /\ tree' = tree \cup {n}
      /\ UNCHANGED <<running, descs>>

\* The client starts again: every descriptor is closed and freed.  The host
\* may have lost the root meanwhile, which the answer does not say.
ServeReset ==
  /\ Serve("I")
  /\ descs' = <<[node |-> Root, h |-> -1]>> \/ descs' = <<>>
  /\ Reply(Frame("I", Root, 1, 0))
  /\ UNCHANGED <<running, tree>>

Daemon == ServeLookup \/ ServeOpen \/ ServeClose \/ ServeGetdents \/ ServeRead
          \/ ServeMkdir \/ ServeReset \/ Ignore \/ Reject

-----------------------------------------------------------------------------
(* The serial port.                                                        *)

\* mio_interrupt; what comes between two bytes matters only when the client
\* may give up between them.
Arrive ==
  /\ wire # <<>>
  /\ \E k \in IF fault = "late" THEN 1..Len(wire) ELSE {Len(wire)} :
       /\ ring' = ring \o SubSeq(wire, 1, k)
       /\ wire' = SubSeq(wire, k + 1, Len(wire))
  /\ UNCHANGED <<fault, kernel, cmds, daemon>>

\* How many bytes the call in progress waits for: the head of the answer to
\* a read first, which is shorter than the answer, then what the head says.
Want == IF call.op \in {"none", "found", "failed"} THEN 0
        ELSE IF call.op = "R" THEN 1
        ELSE IF call.op = "body" THEN call.rest
        ELSE AnswerLen[call.op]

Enough  == Want > 0 /\ Len(ring) >= Want
\* Faulty variant: the port waits for as long as it takes.
ExpiredNever == FALSE

\* The timeout of _read, which takes what there is.
Expired ==
  /\ Want > 0 /\ Len(ring) < Want
  /\ fault = "late" \/ (wire = <<>> /\ (cmds = <<>> \/ ~ running))

Take == ring' = IF Enough THEN SubSeq(ring, Want + 1, Len(ring)) ELSE <<>>

\* _check_msg: the bytes taken begin with a whole frame, of any kind.
Valid == /\ Enough /\ ring[1][2] = 1 /\ ring[1][1].len <= Want
         /\ \A k \in 1..ring[1][1].len : ring[k] = <<ring[1][1], k>>
Answer == ring[1][1]

\* The fields of the answer; those of another kind of answer may be anything.
Status  == IF Answer.op = call.op THEN {Answer.a} ELSE {0, 1}
NewSize == IF Answer.op = call.op THEN {Answer.b} ELSE 0..1

-----------------------------------------------------------------------------
(* The calls of the file server.                                           *)

Send(c) == cmds' = IF running THEN Append(cmds, c) ELSE cmds
Cmd(op, n) == [op |-> op, node |-> n, at |-> 0, count |-> 0]

Idle == call.op = "none" /\ Len(cmds) <= 1 /\ Len(wire) + Len(ring) <= MaxLate

Begin(op, n) ==
  /\ call' = [NoCall EXCEPT !.op = op, !.node = n]
  /\ Send(Cmd(op, n))
  /\ last' = NoCall
  /\ UNCHANGED <<fault, opens, ring, wire, daemon>>

\* The call returns r, what it did with the data it got.
Return(r) == call' = NoCall /\ last' = r

Lookup(n) ==
  /\ Idle /\ Len(descs) < MaxDescs[fault] /\ (fault = "share" \/ opens[n] = 0)
  /\ Begin("L", n) /\ UNCHANGED vnode

\* vfs.c opens what it has found, or releases it.
Open(n) ==
  /\ call.op = "found" /\ call.node = n
  /\ Begin("O", n) /\ UNCHANGED vnode

Mkdir(n) == Idle /\ n \in Dirs /\ Begin("M", n) /\ UNCHANGED vnode

Close(n) == Idle /\ opens[n] > 0 /\ Begin("C", n) /\ UNCHANGED vnode

\* The position advances when the command is sent.
Getdents(n) ==
  /\ Idle /\ n \in Dirs /\ opens[n] > 0 /\ vnode[n].lseek <= Bytes[n]
  /\ call' = [NoCall EXCEPT !.op = "D", !.node = n, !.start = vnode[n].lseek]
  /\ vnode' = [vnode EXCEPT ![n].lseek = @ + 1]
  /\ Send(Cmd("D", n)) /\ last' = NoCall
  /\ UNCHANGED <<fault, opens, ring, wire, daemon>>

\* Seeking beyond the end is left out: the count of the next read wraps.
Lseek(n, at) ==
  /\ Idle /\ n \in Files /\ opens[n] > 0 /\ at <= vnode[n].size
  /\ vnode' = [vnode EXCEPT ![n].lseek = at]
  /\ last' = NoCall
  /\ UNCHANGED <<fault, opens, call, ring, cmds, wire, daemon>>

\* The next command of a read, or its end.
Chunk(c, at) ==
  LET left == c.count - Len(c.data)
  IN  IF left <= 0 THEN Return(c) /\ UNCHANGED cmds
      ELSE /\ call' = [c EXCEPT !.op = "R"]
           /\ Send([op |-> "R", node |-> c.node, at |-> at,
                    count |-> Clip(left, RFS_MAX_READ)])
           /\ UNCHANGED last

Read(n, count) ==
  LET v == vnode[n]
      c == [NoCall EXCEPT !.op = "R", !.node = n, !.start = v.lseek,
                          !.count = Clip(count, v.size - v.lseek)]
  IN  /\ Idle /\ n \in Files /\ opens[n] > 0
      /\ Chunk(c, v.lseek)
      /\ UNCHANGED <<fault, opens, vnode, ring, wire, daemon>>

Fork(n) ==
  /\ Idle /\ fault = "share" /\ opens[n] \in 1..(MaxOpens - 1)
  /\ opens' = [opens EXCEPT ![n] = @ + 1] /\ last' = NoCall
  /\ UNCHANGED <<fault, vnode, call, ring, cmds, wire, daemon>>

-----------------------------------------------------------------------------
(* The answers.                                                            *)

\* A vnode without descriptors is freed.
Released(n, v) == IF opens[n] = 0 THEN [v EXCEPT ![n] = Fresh] ELSE v

Got(op) ==
  /\ call.op = op /\ (Enough \/ Expired) /\ Take
  /\ UNCHANGED <<fault, wire, daemon>>

LookedUp ==
  /\ Got("L")
  /\ \/ /\ Valid /\ \E s \in Status : s # 0
        /\ \E n \in IF Answer.op = "L" THEN {Answer.node} ELSE Nodes :
             call' = [NoCall EXCEPT !.op = "found", !.node = n]
        /\ UNCHANGED last
     \/ /\ Valid => 0 \in Status
        /\ Return(NoCall)
  /\ UNCHANGED <<opens, vnode, cmds>>

\* The file server releases what it does not open.
Drop ==
  /\ call.op = "found"
  /\ vnode' = Released(call.node, vnode) /\ Return(NoCall)
  /\ UNCHANGED <<fault, opens, ring, cmds, wire, daemon>>

\* Faulty variant: the answer is not checked.
OpenDoneUnchecked ==
  LET n == call.node
  IN  /\ Got("O")
      /\ opens' = [opens EXCEPT ![n] = Clip(@ + 1, MaxOpens)]
      /\ vnode' = [vnode EXCEPT ![n] = Fresh]
      /\ Return(NoCall) /\ UNCHANGED cmds

OpenDone ==
  LET n == call.node
  IN  /\ Got("O")
      /\ \/ /\ Valid /\ 1 \in Status /\ opens[n] < MaxOpens
            /\ opens' = [opens EXCEPT ![n] = @ + 1]
            /\ \E s \in NewSize : vnode' = [vnode EXCEPT ![n] = [size |-> s, lseek |-> 0]]
         \/ /\ Valid => 0 \in Status \/ opens[n] = MaxOpens
            /\ vnode' = Released(n, vnode) /\ UNCHANGED opens
      /\ Return(NoCall) /\ UNCHANGED cmds

\* Whatever the answer, the descriptor is closed.
CloseDone ==
  LET n == call.node
  IN  /\ Got("C")
      /\ opens' = [opens EXCEPT ![n] = @ - 1]
      /\ vnode' = IF opens[n] = 1 THEN [vnode EXCEPT ![n] = Fresh] ELSE vnode
      /\ Return(NoCall) /\ UNCHANGED cmds

GetdentsDone ==
  /\ Got("D")
  /\ \/ Valid /\ \E s \in Status : Return([call EXCEPT !.data = <<s>>])
     \/ ~ Valid /\ Return([call EXCEPT !.data = <<-1>>])
  /\ UNCHANGED <<opens, vnode, cmds>>

\* The error number is read from a frame that did not come as well.
MkdirDone ==
  /\ Got("M")
  /\ \E s \in IF Valid THEN Status ELSE {0, 1} : Return([call EXCEPT !.data = <<s>>])
  /\ UNCHANGED <<opens, vnode, cmds>>

\* The head of the answer to a read.
HeadDone ==
  /\ Got("R")
  /\ \/ /\ Enough /\ ring[1][2] = 1 /\ ring[1][1].len <= AnswerLen["R"] + RFS_MAX_READ
        /\ call' = [op |-> "body", node |-> call.node, start |-> call.start,
                    count |-> call.count, data |-> call.data,
                    rest |-> Answer.len - 1, frame |-> Answer]
        /\ UNCHANGED last
     \/ /\ ~ (Enough /\ ring[1][2] = 1 /\ ring[1][1].len <= AnswerLen["R"] + RFS_MAX_READ)
        /\ Return(call)
  /\ UNCHANGED <<opens, vnode, cmds>>

\* The data of a frame; the bytes beyond the end of the file, and those of
\* another kind of answer, are none of the file.
Data(f) ==
  [k \in 1..(f.len - AnswerLen["R"]) |->
     IF f.op = "R" /\ f.a + k <= Bytes[f.node] THEN <<f.node, f.a + k - 1>>
     ELSE <<Root, 0>>]

Fetched == IF call.frame.len <= AnswerLen["R"] THEN <<>> ELSE Data(call.frame)
Reading == [op |-> "R", node |-> call.node, start |-> call.start,
            count |-> call.count, data |-> call.data]

\* Faulty variant: the position stays, so that the next command asks for the
\* same bytes.
BodyDoneStays ==
  LET d == Fetched
  IN  /\ Got("body")
      /\ IF Enough /\ d # <<>>
         THEN Chunk([Reading EXCEPT !.data = @ \o d], vnode[call.node].lseek)
         ELSE Return(Reading) /\ UNCHANGED cmds
      /\ UNCHANGED <<opens, vnode>>

BodyDone ==
  LET d  == Fetched
      at == vnode[call.node].lseek + Len(d)
  IN  /\ Got("body")
      /\ IF Enough /\ d # <<>>
         THEN /\ vnode' = [vnode EXCEPT ![call.node].lseek = at]
              /\ Chunk([Reading EXCEPT !.data = @ \o d], at)
         ELSE Return(Reading) /\ UNCHANGED <<vnode, cmds>>
      /\ UNCHANGED opens

\* The machine is reset while nothing is on the line: the kernel mounts the
\* file system again.
Reboot ==
  /\ fault = "reboot" /\ cmds = <<>> /\ wire = <<>>
  /\ opens' = [n \in Nodes |-> 0] /\ vnode' = [n \in Nodes |-> Fresh]
  /\ call' = [NoCall EXCEPT !.op = "I"] /\ last' = NoCall
  /\ ring' = <<>> /\ Send(Cmd("I", Root))
  /\ UNCHANGED <<fault, wire, daemon>>

\* rfs_mount; the kernel does not go on without its file system.
MountDone ==
  /\ Got("I")
  /\ IF Valid THEN Return(NoCall)
     ELSE call' = [NoCall EXCEPT !.op = "failed"] /\ UNCHANGED last
  /\ UNCHANGED <<opens, vnode, cmds>>

Kernel == LookedUp \/ OpenDone \/ CloseDone \/ GetdentsDone \/ MkdirDone
          \/ HeadDone \/ BodyDone \/ MountDone

\* What the file server does with what it has found.
Found == Drop \/ \E n \in Nodes : Open(n)

Next ==
  \/ Daemon \/ Arrive \/ Kernel \/ Found \/ Reboot
  \/ \E n \in Nodes :
       Lookup(n) \/ Mkdir(n) \/ Close(n) \/ Getdents(n) \/ Fork(n)
  \/ \E n \in Nodes, k \in 0..MaxCount : Lseek(n, k) \/ (k > 0 /\ Read(n, k))

\* The host serves, the line delivers and the kernel runs; nobody has to ask
\* for anything, and the machine is reset only so often.
Fairness == WF_vars(Daemon) /\ WF_vars(Arrive) /\ WF_vars(Kernel) /\ WF_vars(Found)

Spec == Init /\ [][Next]_vars /\ Fairness

-----------------------------------------------------------------------------
(* Properties.                                                             *)

\* As long as nobody looks up what is open and no answer is late, the daemon
\* holds a handle for every open descriptor, lost frames or not: no read can
\* reach a handle that is gone.
HandleHeld ==
  fault \notin {"late", "share"} =>
    running /\ \A n \in Nodes : opens[n] > 0 => Opened(n) \/ call.op = "C"

\* And if nothing is lost, it keeps no handle that the kernel has given up,
\* over any number of opens, closes and resets.
NoHandleLeft ==
  fault \in {"none", "reboot"} /\ call.op = "none" =>
    \A i \in DOMAIN descs : descs[i].h >= 0 => opens[descs[i].node] > 0

\* What a read returns is what the file has from the position on, and no more
\* than was asked for; without lost frames or sharing it is all of it.
ReadRight ==
  last.op = "R" /\ fault # "late" =>
    /\ Len(last.data) <= last.count
    /\ \A k \in DOMAIN last.data : last.data[k] = <<last.node, last.start + k - 1>>
    /\ fault \in {"none", "reboot"} => Len(last.data) = last.count

\* Whatever happens to the line and the daemon, every call returns, unless
\* the machine is reset or cannot mount.
CallsReturn ==
  (call.op # "none") ~> (call.op \in {"none", "failed"} \/ fault = "reboot")
=============================================================================
