---------------------------- MODULE RemoteProofs ----------------------------
(***************************************************************************)
(* Proofs about Remote, for every tree of files and directories, every     *)
(* length of answers and every size of reads: with any fault but late      *)
(* answers reads return the bytes of the file, and with any but late       *)
(* answers and sharing the daemon holds the handles that are needed.       *)
(*                                                                         *)
(* Nothing ties an answer to its command, so all of it rests on what may   *)
(* be on the line (Line): nothing, the command of the call in progress, or *)
(* its answer, whole.  What the answer says of the daemon's descriptors    *)
(* stays true until it is taken, because no other command comes before.    *)
(***************************************************************************)
EXTENDS Remote, SequenceTheorems, TLAPS

Places == Nodes \cup {Root}
Closed == {"none", "found", "failed"}
Safe   == fault \notin {"late", "share"}
Exact  == fault \in {"none", "reboot"}

Frames   == [op : Kinds, node : Places, a : Int, b : Nat, len : Nat]
Commands == [op : Kinds, node : Places, at : Nat, count : Nat]
Fetches  == Seq(Places \X Nat)

CallType ==
  \/ call \in [op : Kinds \cup Closed, node : Places, start : Nat, count : Nat, data : Fetches]
  \/ call \in [op : {"body"}, node : Places, start : Nat, count : Nat, data : Fetches,
               rest : Nat, frame : Frames]

KernelType ==
  /\ fault \in Faults /\ running \in BOOLEAN
  /\ opens \in [Nodes -> Nat]
  /\ vnode \in [Nodes -> [size : Nat, lseek : Nat]]
  /\ CallType
  /\ call.op \in {"L", "O", "C", "R", "D", "M", "found", "body"} => call.node \in Nodes
  /\ call.op = "C" => opens[call.node] > 0
  /\ descs \in Seq([node : Places, h : Int])

(* The line. *)
Whole(f)  == [k \in 1..f.len |-> <<f, k>>]
Behind(f) == [k \in 1..(f.len - 1) |-> <<f, k + 1>>]    \* the head is taken

Silent  == cmds = <<>> /\ wire = <<>> /\ ring = <<>>
Sent(c) == cmds = <<c>> /\ wire = <<>> /\ ring = <<>>
Came(f) == /\ cmds = <<>>
           /\ \/ wire = Whole(f) /\ ring = <<>>
              \/ wire = <<>> /\ ring = Whole(f)

Remaining == call.count - Len(call.data)

Asks(c) ==
  /\ c.op = call.op /\ c.node = call.node
  /\ c.op = "R" => c.at = vnode[call.node].lseek /\ c.count = Clip(Remaining, RFS_MAX_READ)

(* The answer f is that of the call in progress, and still true. *)
Tells(f) ==
  /\ f \in Frames /\ f.len = AnswerLen[f.op] + (IF f.op = "R" THEN f.b ELSE 0)
  /\ f.op = "R" => IF f.b = 0 THEN ~Safe
                   ELSE /\ f.node = call.node /\ f.a = vnode[call.node].lseek
                        /\ f.b = Clip(Remaining, RFS_MAX_READ)
  /\ f.op = "L" /\ f.a # 0 => f.node = call.node
  /\ f.op = "O" => /\ f.a \in {0, 1}
                   /\ f.a = 1 => f.b = IF call.node \in Files THEN Bytes[call.node] ELSE 0
                   /\ Safe => IF f.a = 1 THEN Opened(call.node)
                              ELSE ~Opened(call.node)

Asking    == call.op \in Kinds /\ running /\ \E c \in Commands : Sent(c) /\ Asks(c)
Answering == \E f \in Frames : call.op = f.op /\ Came(f) /\ Tells(f)
Mute      == descs = <<>> /\ call.op # "I"    \* the daemon ignores the call
Lost      == call.op \in Kinds /\ Silent /\ (fault = "noise" \/ ~running \/ Mute)
HalfTaken == /\ call.op = "body" /\ call.frame.op = "R" /\ call.rest = call.frame.len - 1
             /\ cmds = <<>> /\ wire = <<>> /\ ring = Behind(call.frame) /\ Tells(call.frame)

Line == (call.op \in Closed /\ Silent) \/ Asking \/ Answering \/ Lost \/ HalfTaken

(* Reads. *)
Positions == \A n \in Files : vnode[n].lseek <= vnode[n].size /\ vnode[n].size <= Bytes[n]

\* data is what the file n has from start on.
Content(n, start, data) == \A k \in DOMAIN data : data[k] = <<n, start + k - 1>>

Reads ==
  call.op \in {"R", "body"} =>
    /\ call.node \in Files
    /\ Len(call.data) < call.count
    /\ vnode[call.node].lseek = call.start + Len(call.data)
    /\ call.start + call.count <= vnode[call.node].size
    /\ Content(call.node, call.start, call.data)

(* Handles. *)
Hand ==
  /\ running
  /\ opens \in [Nodes -> {0, 1}]
  /\ \A n \in Nodes : opens[n] = 1 => Opened(n) \/ (call.op = "C" /\ call.node = n)
  /\ call.op \in {"L", "found", "O"} => opens[call.node] = 0
  /\ call.op \in {"C", "R", "body", "D"} => opens[call.node] = 1
  /\ call.op \in {"I", "failed"} => \A n \in Nodes : opens[n] = 0

Newest(i) == \A j \in DOMAIN descs : j < i => descs[j].node # descs[i].node

\* The kernel has not yet heard of the handle, or the daemon not of the reset.
Underway(n) == \/ call.op = "I" /\ cmds # <<>>
               \/ call.op = "O" /\ call.node = n /\ cmds = <<>>

Tidy ==
  /\ call.op # "failed"
  /\ \A i \in DOMAIN descs : descs[i].h >= 0 =>
       /\ Newest(i) /\ descs[i].node \in Nodes
       /\ opens[descs[i].node] = 1 \/ Underway(descs[i].node)
  /\ call.op = "C" /\ cmds = <<>> =>
       \A i \in DOMAIN descs : descs[i].h >= 0 => descs[i].node # call.node

Good ==
  /\ KernelType /\ Line /\ Positions /\ Reads /\ ReadRight
  /\ Safe => Hand
  /\ Exact => Tidy

Inv == fault # "late" => Good

-----------------------------------------------------------------------------
(* Frames on the line.                                                     *)

LEMMA FrameLength ==
  ASSUME NEW f \in Frames, f.len = AnswerLen[f.op] + (IF f.op = "R" THEN f.b ELSE 0)
  PROVE  f.len \in Nat /\ f.len > 0
BY RemoteAssumption DEF Frames

LEMMA WholeFrame ==
  ASSUME NEW f \in Frames
  PROVE  /\ Len(Whole(f)) = f.len /\ <<>> \o Whole(f) = Whole(f)
         /\ \A k \in 1..f.len : Whole(f)[k] = <<f, k>>
         /\ SubSeq(Whole(f), 1, f.len) = Whole(f)
         /\ SubSeq(Whole(f), f.len + 1, f.len) = <<>>
         /\ f.len > 0 => SubSeq(Whole(f), 2, f.len) = Behind(f)
<1>1. PICK n \in Nat : n = f.len BY DEF Frames
<1>2. PICK w : w = [k \in 1..n |-> <<f, k>>] OBVIOUS
<1>3. /\ w \in Seq(Frames \X Nat) /\ Len(w) = n /\ \A k \in 1..n : w[k] = <<f, k>>
  BY <1>2
<1>4. Whole(f) = w BY <1>1, <1>2 DEF Whole
<1>5. <<>> \o w = w BY <1>3
<1>6. SubSeq(w, 1, n) = w BY <1>3
<1>7. SubSeq(w, n + 1, n) = <<>> BY <1>3
<1>8. ASSUME n > 0 PROVE SubSeq(w, 2, n) = Behind(f)
  <2>1. PICK b : b = [k \in 1..(n - 1) |-> <<f, k + 1>>] OBVIOUS
  <2>2. b \in Seq(Frames \X Nat) /\ Len(b) = n - 1
        /\ \A k \in 1..(n - 1) : b[k] = <<f, k + 1>>
    BY <2>1, <1>8
  <2>3. PICK s : s = SubSeq(w, 2, n) OBVIOUS
  <2>4. s \in Seq(Frames \X Nat) /\ Len(s) = n - 1 BY <2>3, <1>3, <1>8
  <2>5. ASSUME NEW k \in 1..(n - 1) PROVE s[k] = b[k]
    <3>1. s[k] = w[k + 1] BY <2>3, <1>3, <1>8
    <3>2. k + 1 \in 1..n /\ k + 1 \in Int OBVIOUS
    <3>3. w[k + 1] = <<f, k + 1>> BY <3>2, <1>3
    <3>. QED BY <3>1, <3>3, <2>2
  <2>6. s = b BY <2>2, <2>4, <2>5, SeqEqual
  <2>. QED BY <2>1, <2>3, <2>6, <1>1 DEF Behind
<1>. QED BY <1>1, <1>3, <1>4, <1>5, <1>6, <1>7, <1>8

LEMMA BehindFrame ==
  ASSUME NEW f \in Frames, f.len > 0
  PROVE  /\ Len(Behind(f)) = f.len - 1
         /\ SubSeq(Behind(f), f.len, f.len - 1) = <<>>
<1>1. PICK n \in Nat : n = f.len BY DEF Frames
<1>2. PICK b : b = [k \in 1..(n - 1) |-> <<f, k + 1>>] OBVIOUS
<1>3. b \in Seq(Frames \X Nat) /\ Len(b) = n - 1 BY <1>1, <1>2
<1>4. SubSeq(b, n, n - 1) = <<>> BY <1>3, <1>1
<1>. QED BY <1>1, <1>2, <1>3, <1>4 DEF Behind

(* A command that is on the line is that of the call in progress. *)
LEMMA Served ==
  ASSUME Line, NEW op \in Kinds, Serve(op)
  PROVE  /\ running /\ Head(cmds) \in Commands
         /\ Head(cmds).op = op /\ call.op = op /\ Head(cmds).node = call.node
         /\ Asks(Head(cmds))
         /\ cmds' = <<>> /\ wire = <<>> /\ ring = <<>> /\ ring' = <<>>
         /\ UNCHANGED <<fault, opens, vnode, call, last>>
<1>1. Asking
  BY DEF Line, Serve, Silent, Answering, Came, Lost, HalfTaken
<1>2. PICK c \in Commands : Sent(c) /\ Asks(c) BY <1>1 DEF Asking
<1>3. Head(cmds) = c /\ Tail(cmds) = <<>> BY <1>2 DEF Sent
<1>. QED BY <1>1, <1>2, <1>3 DEF Serve, Asking, Asks, Sent, kernel

LEMMA Replied ==
  ASSUME Line, NEW op \in Kinds, Serve(op), running' = running,
         NEW f \in Frames, f.op = op, Reply(f), Tells(f)'
  PROVE  Line'
<1>1. /\ cmds' = <<>> /\ wire = <<>> /\ ring' = <<>> /\ call.op = op /\ fault' = fault
      /\ call' = call
  BY Served
<1>2. CASE wire' = Whole(f)
  <2>1. Answering' BY <1>1, <1>2 DEF Answering, Came, Whole
  <2>. QED BY <2>1 DEF Line
<1>3. CASE fault = "noise" /\ wire' = wire
  <2>1. Lost' BY <1>1, <1>3 DEF Lost, Silent
  <2>. QED BY <2>1 DEF Line
<1>. QED BY <1>1, <1>2, <1>3, WholeFrame DEF Reply, Whole

(* The call sends its command. *)
LEMMA Asked ==
  ASSUME NEW c \in Commands, Send(c), cmds = <<>>, ring' = <<>>, wire' = <<>>, running' = running,
         running \in BOOLEAN, call'.op = c.op, Asks(c)'
  PROVE  Line'
<1>1. CASE running
  <2>1. Sent(c)' BY <1>1 DEF Send, Sent
  <2>2. Asking' BY <1>1, <2>1 DEF Asking, Commands
  <2>. QED BY <2>2 DEF Line
<1>2. CASE ~running
  <2>1. Lost' BY <1>2 DEF Send, Lost, Silent, Commands
  <2>. QED BY <2>1 DEF Line
<1>. QED BY <1>1, <1>2

LEMMA Quieted ==
  ASSUME call'.op \in Closed, cmds' = <<>>, wire' = <<>>, ring' = <<>>
  PROVE  Line'
BY DEF Line, Silent

(* What a call that does not read gets is its answer or, when a frame was
   lost, none. *)
LEMMA Gotten ==
  ASSUME fault # "late", Line, NEW op \in Kinds \ {"R"}, Got(op)
  PROVE  /\ call.op = op
         /\ cmds = <<>> /\ wire = <<>> /\ ring' = <<>>
         /\ UNCHANGED <<fault, wire, running, tree, descs>>
         /\ \/ Valid /\ Answer \in Frames /\ Answer.op = op /\ Tells(Answer)
            \/ ~Valid /\ (fault = "noise" \/ ~running \/ Mute)
<1>1. call.op = op /\ UNCHANGED <<fault, wire, running, tree, descs>> /\ Take
      /\ (Enough \/ Expired)
  BY DEF Got, daemon
<1>2. Want = AnswerLen[op] /\ Want \in Nat /\ Want > 0
  BY <1>1, RemoteAssumption DEF Want, Kinds
<1>3. CASE Asking
  <2>1. cmds # <<>> /\ running /\ Len(ring) = 0 BY <1>3 DEF Asking, Sent
  <2>. QED BY <1>1, <1>2, <2>1 DEF Enough, Expired
<1>4. CASE Answering
  <2>1. PICK f \in Frames : call.op = f.op /\ Came(f) /\ Tells(f) BY <1>4 DEF Answering
  <2>2. f.len = Want /\ f.len \in Nat /\ f.len > 0 BY <2>1, <1>1, <1>2 DEF Tells
  <2>3. Len(Whole(f)) = f.len BY WholeFrame
  <2>4. CASE wire = Whole(f) /\ ring = <<>>
    <3>1. wire # <<>> /\ Len(ring) = 0 BY <2>2, <2>3, <2>4
    <3>. QED BY <3>1, <1>1, <1>2 DEF Enough, Expired
  <2>5. CASE wire = <<>> /\ ring = Whole(f)
    <3>1. Enough BY <2>5, <2>3, <2>2 DEF Enough
    <3>2. ring' = <<>>
      <4>1. ring' = SubSeq(Whole(f), f.len + 1, f.len) BY <3>1, <1>1, <2>5, <2>2, <2>3 DEF Take
      <4>. QED BY <4>1, WholeFrame
    <3>3. \A k \in 1..f.len : ring[k] = <<f, k>> BY <2>5, WholeFrame
    <3>4. ring[1] = <<f, 1>> BY <3>3, <2>2
    <3>5. Answer = f BY <3>4 DEF Answer
    <3>6. Valid BY <3>1, <3>3, <3>4, <2>2 DEF Valid
    <3>. QED BY <3>2, <3>5, <3>6, <1>1, <2>1, <2>5 DEF Came
  <2>. QED BY <2>1, <2>4, <2>5 DEF Came
<1>5. CASE Lost
  <2>1. Len(ring) = 0 BY <1>5 DEF Lost, Silent
  <2>2. ~Enough BY <2>1, <1>2 DEF Enough
  <2>. QED BY <2>2, <1>1, <1>5 DEF Valid, Take, Lost, Silent
<1>. QED BY <1>1, <1>3, <1>4, <1>5 DEF Line, Closed, Kinds, HalfTaken

-----------------------------------------------------------------------------
(* The descriptors of the daemon.                                          *)

LEMMA DescIn ==
  ASSUME descs \in Seq([node : Places, h : Int]), NEW i \in DOMAIN descs
  PROVE  i \in Int /\ descs[i].node \in Places /\ descs[i].h \in Int
<1>1. PICK T : T = [node : Places, h : Int] OBVIOUS
<1>2. descs \in Seq(T) BY <1>1
<1>3. i \in Int BY <1>2
<1>4. descs[i] \in T BY <1>2
<1>. QED BY <1>1, <1>3, <1>4

LEMMA HandleSet ==
  ASSUME descs \in Seq([node : Places, h : Int]), NEW n \in Places, NEW i \in FindByNode(n),
         NEW h \in Int, SetHandle(i, h)
  PROVE  /\ i \in DOMAIN descs /\ descs[i].node = n /\ Newest(i)
         /\ (descs \in Seq([node : Places, h : Int]))' /\ DOMAIN descs' = DOMAIN descs
         /\ \A j \in DOMAIN descs : descs'[j].node = descs[j].node
         /\ \A j \in DOMAIN descs : descs'[j].h = IF j = i THEN h ELSE descs[j].h
         /\ \A m \in Places : FindByNode(m)' = FindByNode(m)
         /\ \A j \in DOMAIN descs : Newest(j)' <=> Newest(j)
         /\ Opened(n)' <=> h >= 0
         /\ \A m \in Places \ {n} : Opened(m)' <=> Opened(m)
<1>1. i \in DOMAIN descs /\ descs[i].node = n /\ Newest(i) BY DEF FindByNode, Newest
<1>2. PICK D : D = DOMAIN descs OBVIOUS
<1>0. PICK T : T = [node : Places, h : Int] OBVIOUS
<1>10. descs \in Seq(T) BY <1>0
<1>11. \A j \in D : descs[j] \in T BY <1>10, <1>2
<1>12. PICK q : q = [descs[i] EXCEPT !.h = h] OBVIOUS
<1>13. q \in T /\ q.node = descs[i].node /\ q.h = h BY <1>0, <1>11, <1>12, <1>1, <1>2
<1>14. descs' = [descs EXCEPT ![i] = q] BY <1>12 DEF SetHandle
<1>15. descs' \in Seq(T) /\ DOMAIN descs' = D
       /\ \A j \in D : descs'[j] = IF j = i THEN q ELSE descs[j]
  BY <1>10, <1>14, <1>13, <1>1, <1>2
<1>3. (descs \in Seq([node : Places, h : Int]))' /\ DOMAIN descs' = D BY <1>15, <1>0
<1>4. \A j \in D : descs'[j].node = descs[j].node /\ descs'[j].h = IF j = i THEN h ELSE descs[j].h
  BY <1>13, <1>15
<1>5. ASSUME NEW m \in Places PROVE FindByNode(m)' = FindByNode(m)
  BY <1>2, <1>3, <1>4 DEF FindByNode
<1>6. ASSUME NEW j \in D PROVE Newest(j)' <=> Newest(j)
  BY <1>2, <1>3, <1>4 DEF Newest
<1>7. ASSUME NEW j \in FindByNode(n) PROVE j = i
  <2>1. j \in Int /\ i \in Int BY DEF FindByNode
  <2>. QED BY <2>1 DEF FindByNode
<1>8. Opened(n)' <=> h >= 0
  BY <1>1, <1>2, <1>4, <1>5, <1>7 DEF Opened
<1>9. ASSUME NEW m \in Places \ {n} PROVE Opened(m)' <=> Opened(m)
  <2>1. FindByNode(m)' = FindByNode(m) BY <1>5
  <2>2. \A j \in FindByNode(m) : j \in D /\ j # i BY <1>1, <1>2 DEF FindByNode
  <2>. QED BY <2>1, <2>2, <1>4 DEF Opened
<1>. QED BY <1>1, <1>2, <1>3, <1>4, <1>5, <1>6, <1>8, <1>9

LEMMA InFront ==
  ASSUME descs \in Seq([node : Places, h : Int]), NEW n \in Places,
         descs' = <<[node |-> n, h |-> -1]>> \o descs
  PROVE  /\ (descs \in Seq([node : Places, h : Int]))'
         /\ \A m \in Places \ {n} : Opened(m)' <=> Opened(m)
         /\ \A i \in DOMAIN descs' : descs'[i].h >= 0 =>
              /\ i - 1 \in DOMAIN descs /\ descs'[i] = descs[i - 1]
              /\ Newest(i - 1) /\ descs[i - 1].node # n => Newest(i)'
<1>1. PICK d : d = [node |-> n, h |-> -1] OBVIOUS
<1>2. d \in [node : Places, h : Int] /\ d.node = n /\ d.h = -1 BY <1>1
<1>3. PICK s \in Seq([node : Places, h : Int]) : s = descs OBVIOUS
<1>4. <<d>> \o s \in Seq([node : Places, h : Int])
  <2>1. <<d>> \in Seq([node : Places, h : Int]) BY <1>2
  <2>. QED BY <2>1, <1>3
<1>0. PICK t \in Seq([node : Places, h : Int]) : t = <<d>> \o s BY <1>4
<1>5. Len(t) = Len(s) + 1 /\ t[1] = d /\ Len(s) \in Nat BY <1>2, <1>0
<1>6. \A i \in 1..Len(s) : t[i + 1] = s[i] BY <1>2, <1>0
<1>7. descs' = t BY <1>1, <1>3, <1>0
<1>8. DOMAIN s = 1..Len(s) /\ DOMAIN t = 1..(Len(s) + 1) BY <1>5
<1>9. \A i \in DOMAIN t : i # 1 => i - 1 \in DOMAIN s /\ t[i] = s[i - 1]
  <2>1. ASSUME NEW i \in DOMAIN t, i # 1 PROVE i - 1 \in DOMAIN s /\ t[i] = s[i - 1]
    <3>1. i - 1 \in 1..Len(s) /\ (i - 1) + 1 = i BY <2>1, <1>8, <1>5, SMTT(30)
    <3>. QED BY <3>1, <1>6, <1>8
  <2>. QED BY <2>1
<1>10. \A i \in DOMAIN s : i + 1 \in DOMAIN t /\ i \in Int /\ t[i + 1] = s[i]
  BY <1>6, <1>8, <1>5
<1>11. 1 \in DOMAIN t BY <1>8, <1>5
<1>12. ASSUME NEW i \in DOMAIN t, t[i].h >= 0
       PROVE  /\ i - 1 \in DOMAIN s /\ t[i] = s[i - 1]
              /\ Newest(i - 1) /\ s[i - 1].node # n => Newest(i)'
  <2>1. i # 1 BY <1>12, <1>5, <1>2
  <2>2. i - 1 \in DOMAIN s /\ t[i] = s[i - 1] BY <2>1, <1>9
  <2>3. ASSUME Newest(i - 1), s[i - 1].node # n, NEW j \in DOMAIN t, j < i
        PROVE  t[j].node # t[i].node
    <3>1. CASE j = 1 BY <3>1, <2>2, <2>3, <1>2, <1>5
    <3>2. CASE j # 1
      <4>1. j - 1 \in DOMAIN s /\ t[j] = s[j - 1] BY <3>2, <1>9
      <4>2. j - 1 < i - 1 BY <2>3, <1>8, <1>5
      <4>. QED BY <4>1, <4>2, <2>2, <2>3, <1>3 DEF Newest
    <3>. QED BY <3>1, <3>2
  <2>. QED BY <2>2, <2>3, <1>3, <1>7 DEF Newest
<1>13. ASSUME NEW m \in Places \ {n} PROVE Opened(m)' <=> Opened(m)
  <2>1. ASSUME NEW i \in FindByNode(m), s[i].h >= 0 PROVE Opened(m)'
    <3>1. i \in DOMAIN s /\ s[i].node = m /\ \A j \in DOMAIN s : j < i => s[j].node # m
      BY <1>3 DEF FindByNode
    <3>2. i + 1 \in DOMAIN t /\ t[i + 1] = s[i] /\ i \in Int BY <3>1, <1>10
    <3>3. ASSUME NEW j \in DOMAIN t, j < i + 1 PROVE t[j].node # m
      <4>1. CASE j = 1 BY <4>1, <1>2, <1>5
      <4>2. CASE j # 1
        <5>1. j - 1 \in DOMAIN s /\ t[j] = s[j - 1] BY <4>2, <1>9
        <5>2. j - 1 < i BY <3>3, <3>2, <1>8, <1>5
        <5>. QED BY <5>1, <5>2, <3>1
      <4>. QED BY <4>1, <4>2
    <3>4. i + 1 \in FindByNode(m)' BY <3>1, <3>2, <3>3, <1>7 DEF FindByNode
    <3>. QED BY <3>2, <3>4, <2>1, <1>7 DEF Opened
  <2>2. ASSUME NEW i \in FindByNode(m)', t[i].h >= 0 PROVE Opened(m)
    <3>1. i \in DOMAIN t /\ t[i].node = m /\ \A j \in DOMAIN t : j < i => t[j].node # m
      BY <1>7 DEF FindByNode
    <3>2. i # 1 BY <3>1, <1>2, <1>5
    <3>3. i - 1 \in DOMAIN s /\ t[i] = s[i - 1] BY <3>1, <3>2, <1>9
    <3>4. ASSUME NEW j \in DOMAIN s, j < i - 1 PROVE s[j].node # m
      <4>1. j + 1 \in DOMAIN t /\ t[j + 1] = s[j] /\ j \in Int BY <1>10
      <4>2. j + 1 < i BY <3>4, <4>1, <3>1, <1>8, <1>5
      <4>. QED BY <4>1, <4>2, <3>1
    <3>5. i - 1 \in FindByNode(m) BY <3>1, <3>3, <3>4, <1>3 DEF FindByNode
    <3>. QED BY <3>3, <3>5, <2>2, <1>3 DEF Opened
  <2>. QED BY <2>1, <2>2, <1>3, <1>7 DEF Opened
<1>. QED BY <1>3, <1>4, <1>7, <1>12, <1>13

LEMMA OnlyRoot ==
  ASSUME descs' = <<[node |-> Root, h |-> -1]>>
  PROVE  /\ (descs \in Seq([node : Places, h : Int]))'
         /\ \A i \in DOMAIN descs' : descs'[i].h = -1
<1>1. [node |-> Root, h |-> -1] \in [node : Places, h : Int] BY DEF Places
<1>2. PICK d \in [node : Places, h : Int] : d = [node |-> Root, h |-> -1] BY <1>1
<1>0. <<d>> \in Seq([node : Places, h : Int]) OBVIOUS
<1>3. PICK s \in Seq([node : Places, h : Int]) : s = <<d>> BY <1>0
<1>4. DOMAIN s = {1} /\ s[1] = d /\ d.h = -1 BY <1>2, <1>3
<1>. QED BY <1>2, <1>3, <1>4

-----------------------------------------------------------------------------
(* The daemon.                                                             *)

LEMMA NoDescs ==
  ASSUME descs' = <<>>
  PROVE  /\ (descs \in Seq([node : Places, h : Int]))'
         /\ \A i \in DOMAIN descs' : descs'[i].h = -1
<1>1. PICK T : T = [node : Places, h : Int] OBVIOUS
<1>2. <<>> \in Seq(T) OBVIOUS
<1>3. DOMAIN <<>> = {} OBVIOUS
<1>. QED BY <1>1, <1>2, <1>3

LEMMA NoneOpened == descs = <<>> => DOMAIN descs = {} /\ \A n \in Nodes : ~Opened(n)
<1>1. DOMAIN <<>> = {} OBVIOUS
<1>. QED BY <1>1 DEF Opened, FindByNode

LEMMA FrameOf ==
  ASSUME NEW op \in Kinds, NEW n \in Places, NEW a \in Int, NEW b \in Nat
  PROVE  /\ Frame(op, n, a, b) \in Frames
         /\ Frame(op, n, a, b).op = op /\ Frame(op, n, a, b).node = n
         /\ Frame(op, n, a, b).a = a /\ Frame(op, n, a, b).b = b
         /\ Frame(op, n, a, b).len = AnswerLen[op] + (IF op = "R" THEN b ELSE 0)
<1>1. AnswerLen[op] \in Nat BY RemoteAssumption
<1>2. PICK l \in Nat : l = AnswerLen[op] + (IF op = "R" THEN b ELSE 0) BY <1>1
<1>. QED BY <1>2 DEF Frame, Frames

(* What the daemon does leaves the kernel alone. *)
LEMMA KernelKept ==
  ASSUME KernelType, Positions, Reads, ReadRight,
         UNCHANGED <<fault, opens, vnode, call, last>>, running' \in BOOLEAN,
         (descs \in Seq([node : Places, h : Int]))'
  PROVE  KernelType' /\ Positions' /\ Reads' /\ ReadRight'
BY DEF KernelType, CallType, Positions, Reads, ReadRight, Remaining, Content

LEMMA HandKept ==
  ASSUME Hand, UNCHANGED <<opens, call, running>>,
         \A m \in Nodes : opens[m] = 1 /\ Opened(m) => Opened(m)'
  PROVE  Hand'
BY DEF Hand

LEMMA TidyKept ==
  ASSUME Tidy, UNCHANGED <<opens, call, descs>>, call.op \notin {"O", "C", "I"}
  PROVE  Tidy'
BY DEF Tidy, Underway, Newest

LEMMA NodesArePlaces == Nodes \subseteq Places /\ Root \in Places /\ Root \notin Nodes
BY RemoteAssumption DEF Places

LEMMA SafeExact == (Exact => Safe) /\ (fault' = fault => (Safe' <=> Safe) /\ (Exact' <=> Exact))
BY DEF Exact, Safe

LEMMA ServeLookupOK ==
  ASSUME fault # "late", Good, ServeLookup PROVE Good'
<1>1. Serve("L") /\ running' = running BY DEF ServeLookup
<1>2. "L" \in Kinds BY DEF Kinds
<1>3. /\ call.op = "L" /\ Head(cmds).node = call.node /\ cmds' = <<>>
      /\ UNCHANGED <<fault, opens, vnode, call, last>>
  BY <1>1, <1>2, Served DEF Good
<1>4. PICK n \in Nodes : n = call.node BY <1>3 DEF Good, KernelType
<1>5. KernelType /\ Line /\ Positions /\ Reads /\ ReadRight /\ running \in BOOLEAN
  BY DEF Good, KernelType
<1>6. n \in Places /\ Root \in Places BY NodesArePlaces
<1>7. CASE n \in tree
  <2>1. Reply(Frame("L", n, 1, 0)) /\ descs' = <<[node |-> n, h |-> -1]>> \o descs
    BY <1>7, <1>3, <1>4 DEF ServeLookup
  <2>2. descs \in Seq([node : Places, h : Int]) BY <1>5 DEF KernelType
  <2>3. /\ (descs \in Seq([node : Places, h : Int]))'
        /\ \A m \in Places \ {n} : Opened(m)' <=> Opened(m)
        /\ \A i \in DOMAIN descs' : descs'[i].h >= 0 =>
              /\ i - 1 \in DOMAIN descs /\ descs'[i] = descs[i - 1]
              /\ Newest(i - 1) /\ descs[i - 1].node # n => Newest(i)'
    BY <2>1, <2>2, <1>6, InFront
  <2>4. PICK f \in Frames : f = Frame("L", n, 1, 0) BY <1>2, <1>6, FrameOf
  <2>5. f.op = "L" /\ f.node = n /\ f.len = AnswerLen["L"] BY <2>4, <1>2, <1>6, FrameOf, RemoteAssumption
  <2>6. Tells(f)' BY <2>5, <1>3, <1>4, <1>2, RemoteAssumption DEF Tells
  <2>7. Line' BY <1>1, <1>2, <1>5, <2>1, <2>4, <2>5, <2>6, Replied
  <2>8. ASSUME Safe PROVE Hand'
    <3>1. Hand /\ opens[n] = 0 BY <2>8, <1>3, <1>4 DEF Good, Hand
    <3>. QED BY <3>1, <1>1, <1>3, <2>3, HandKept, NodesArePlaces
  <2>9. ASSUME Exact PROVE Tidy'
    <3>1. Tidy /\ Hand BY <2>9, SafeExact DEF Good
    <3>2. opens[n] = 0 BY <3>1, <1>3, <1>4 DEF Hand
    <3>3. ASSUME NEW i \in DOMAIN descs', descs'[i].h >= 0
          PROVE  /\ Newest(i)' /\ descs'[i].node \in Nodes
                 /\ opens[descs'[i].node] = 1
      <4>1. i - 1 \in DOMAIN descs /\ descs'[i] = descs[i - 1] BY <3>3, <2>3
      <4>2. Newest(i - 1) /\ descs[i - 1].node \in Nodes /\ opens[descs[i - 1].node] = 1
        BY <4>1, <3>1, <3>3, <1>3 DEF Tidy, Underway
      <4>. QED BY <4>1, <4>2, <3>2, <3>3, <2>3
    <3>. QED BY <3>1, <3>3, <1>3 DEF Tidy
  <2>. QED BY <2>3, <2>7, <2>8, <2>9, <1>1, <1>3, <1>5, KernelKept, SafeExact DEF Good
<1>8. CASE n \notin tree
  <2>1. Reply(Frame("L", Root, 0, 0)) /\ descs' = descs BY <1>8, <1>3, <1>4 DEF ServeLookup
  <2>2. PICK f \in Frames : f = Frame("L", Root, 0, 0) BY <1>2, <1>6, FrameOf
  <2>3. f.op = "L" /\ f.a = 0 /\ f.len = AnswerLen["L"] BY <2>2, <1>2, <1>6, FrameOf, RemoteAssumption
  <2>4. Tells(f)' BY <2>3, <1>2, RemoteAssumption DEF Tells
  <2>5. Line' BY <1>1, <1>2, <1>5, <2>1, <2>2, <2>3, <2>4, Replied
  <2>6. (descs \in Seq([node : Places, h : Int]))' BY <1>5, <2>1 DEF KernelType
  <2>7. ASSUME Safe PROVE Hand'
    <3>1. Hand BY <2>7 DEF Good
    <3>. QED BY <3>1, <1>1, <1>3, <2>1 DEF Hand, Opened, FindByNode
  <2>8. ASSUME Exact PROVE Tidy' BY <2>8, <1>3, <2>1, TidyKept DEF Good
  <2>. QED BY <2>5, <2>6, <2>7, <2>8, <1>1, <1>3, <1>5, KernelKept, SafeExact DEF Good
<1>. QED BY <1>7, <1>8

LEMMA ServedOK ==
  ASSUME Good, NEW op \in Kinds, Serve(op), running' = running,
         NEW f \in Frames, f.op = op, Reply(f), Tells(f)',
         (descs \in Seq([node : Places, h : Int]))', Safe => Hand', Exact => Tidy'
  PROVE  Good'
<1>1. KernelType /\ Line /\ Positions /\ Reads /\ ReadRight /\ running \in BOOLEAN
  BY DEF Good, KernelType
<1>2. UNCHANGED <<fault, opens, vnode, call, last>> BY <1>1, Served
<1>3. Line' BY <1>1, Replied
<1>. QED BY <1>1, <1>2, <1>3, KernelKept, SafeExact DEF Good

LEMMA ServeOpenOK ==
  ASSUME fault # "late", Good, ServeOpen PROVE Good'
<1>1. Serve("O") /\ running' = running BY DEF ServeOpen
<1>2. "O" \in Kinds /\ AnswerLen["O"] \in Nat BY RemoteAssumption DEF Kinds
<1>3. /\ call.op = "O" /\ Head(cmds).node = call.node /\ cmds' = <<>>
      /\ UNCHANGED <<fault, opens, vnode, call, last>>
  BY <1>1, <1>2, Served DEF Good
<1>4. PICK n \in Nodes : n = call.node BY <1>3 DEF Good, KernelType
<1>5. KernelType BY DEF Good
<1>6. n \in Places /\ Root \in Places BY NodesArePlaces
<1>7. descs \in Seq([node : Places, h : Int]) BY <1>5 DEF KernelType
<1>8. ASSUME NEW i \in FindByNode(n), SetHandle(i, 0),
             Reply(Frame("O", n, 1, IF n \in Files THEN Bytes[n] ELSE 0))
      PROVE  Good'
  <2>1. PICK b \in Nat : b = IF n \in Files THEN Bytes[n] ELSE 0
    BY RemoteAssumption DEF Nodes
  <2>0. 1 \in Int /\ b \in Nat BY <2>1
  <2>2. PICK f \in Frames : f = Frame("O", n, 1, b) BY <2>0, <1>2, <1>6, FrameOf
  <2>3. f.op = "O" /\ f.a = 1 /\ f.b = b /\ f.len = AnswerLen["O"]
    BY <2>2, <1>2, <1>6, FrameOf
  <2>4. /\ (descs \in Seq([node : Places, h : Int]))' /\ DOMAIN descs' = DOMAIN descs
        /\ i \in DOMAIN descs /\ descs[i].node = n /\ Newest(i)
        /\ \A j \in DOMAIN descs : descs'[j].node = descs[j].node
        /\ \A j \in DOMAIN descs : descs'[j].h = IF j = i THEN 0 ELSE descs[j].h
        /\ \A j \in DOMAIN descs : Newest(j)' <=> Newest(j)
        /\ Opened(n)' /\ \A m \in Places \ {n} : Opened(m)' <=> Opened(m)
    BY <1>7, <1>6, <1>8, HandleSet
  <2>5. Tells(f)' BY <2>1, <2>3, <2>4, <1>2, <1>3, <1>4 DEF Tells
  <2>6. ASSUME Safe PROVE Hand'
    <3>1. Hand BY <2>6 DEF Good
    <3>. QED BY <3>1, <1>1, <1>3, <2>4, HandKept, NodesArePlaces
  <2>7. ASSUME Exact PROVE Tidy'
    <3>1. Tidy BY <2>7 DEF Good
    <3>2. ASSUME NEW j \in DOMAIN descs', descs'[j].h >= 0
          PROVE  /\ Newest(j)' /\ descs'[j].node \in Nodes
                 /\ opens[descs'[j].node] = 1 \/ descs'[j].node = n
      <4>1. CASE j = i BY <4>1, <2>4
      <4>2. CASE j # i BY <4>2, <3>1, <3>2, <2>4, <1>3, <1>4 DEF Tidy, Underway
      <4>. QED BY <4>1, <4>2
    <3>. QED BY <3>1, <3>2, <1>3, <1>4 DEF Tidy, Underway
  <2>. QED BY <1>1, <1>2, <1>8, <2>1, <2>2, <2>3, <2>4, <2>5, <2>6, <2>7, ServedOK
<1>9. ASSUME FindByNode(n) = {}, Reply(Frame("O", n, 0, 0)), descs' = descs
      PROVE  Good'
  <2>2. PICK f \in Frames : f = Frame("O", n, 0, 0) BY <1>2, <1>6, FrameOf
  <2>3. f.op = "O" /\ f.a = 0 /\ f.b = 0 /\ f.len = AnswerLen["O"]
    BY <2>2, <1>2, <1>6, FrameOf
  <2>4. ~Opened(n)' BY <1>9 DEF Opened, FindByNode
  <2>5. Tells(f)' BY <2>3, <2>4, <1>2, <1>3, <1>4 DEF Tells
  <2>6. ASSUME Safe PROVE Hand'
    <3>1. Hand BY <2>6 DEF Good
    <3>. QED BY <3>1, <1>1, <1>3, <1>9 DEF Hand, Opened, FindByNode
  <2>7. ASSUME Exact PROVE Tidy'
    <3>1. Tidy BY <2>7 DEF Good
    <3>. QED BY <3>1, <1>3, <1>4, <1>9 DEF Tidy, Underway, Newest
  <2>8. (descs \in Seq([node : Places, h : Int]))' BY <1>7, <1>9
  <2>. QED BY <1>1, <1>2, <1>9, <2>2, <2>3, <2>5, <2>6, <2>7, <2>8, ServedOK
<1>10. ASSUME NEW i \in FindByNode(n), SetHandle(i, -1),
             Reply(Frame("O", n, 0, 0))
      PROVE  Good'
  <2>1. -1 \in Int OBVIOUS
  <2>2. PICK f \in Frames : f = Frame("O", n, 0, 0) BY <1>2, <1>6, FrameOf
  <2>3. f.op = "O" /\ f.a = 0 /\ f.b = 0 /\ f.len = AnswerLen["O"]
    BY <2>2, <1>2, <1>6, FrameOf
  <2>4. /\ (descs \in Seq([node : Places, h : Int]))' /\ DOMAIN descs' = DOMAIN descs
        /\ i \in DOMAIN descs /\ descs[i].node = n /\ Newest(i)
        /\ \A j \in DOMAIN descs : descs'[j].node = descs[j].node
        /\ \A j \in DOMAIN descs : descs'[j].h = IF j = i THEN -1 ELSE descs[j].h
        /\ \A j \in DOMAIN descs : Newest(j)' <=> Newest(j)
        /\ ~Opened(n)' /\ \A m \in Places \ {n} : Opened(m)' <=> Opened(m)
    BY <1>7, <1>6, <1>10, <2>1, HandleSet
  <2>5. Tells(f)' BY <2>1, <2>3, <2>4, <1>2, <1>3, <1>4 DEF Tells
  <2>6. ASSUME Safe PROVE Hand'
    <3>1. Hand BY <2>6 DEF Good
    <3>2. opens[n] = 0 BY <3>1, <1>3, <1>4 DEF Hand
    <3>. QED BY <3>1, <3>2, <1>1, <1>3, <2>4, HandKept, NodesArePlaces
  <2>7. ASSUME Exact PROVE Tidy'
    <3>1. Tidy BY <2>7 DEF Good
    <3>2. ASSUME NEW j \in DOMAIN descs', descs'[j].h >= 0
          PROVE  /\ Newest(j)' /\ descs'[j].node \in Nodes
                 /\ opens[descs'[j].node] = 1 \/ descs'[j].node = n
      <4>1. CASE j = i BY <4>1, <2>4
      <4>2. CASE j # i BY <4>2, <3>1, <3>2, <2>4, <1>3, <1>4 DEF Tidy, Underway
      <4>. QED BY <4>1, <4>2
    <3>. QED BY <3>1, <3>2, <1>3, <1>4 DEF Tidy, Underway
  <2>. QED BY <1>1, <1>2, <1>10, <2>1, <2>2, <2>3, <2>4, <2>5, <2>6, <2>7, ServedOK
<1>. QED BY <1>3, <1>4, <1>8, <1>9, <1>10 DEF ServeOpen

LEMMA ServeCloseOK ==
  ASSUME fault # "late", Good, ServeClose PROVE Good'
<1>1. Serve("C") /\ running' = running BY DEF ServeClose
<1>2. "C" \in Kinds /\ AnswerLen["C"] \in Nat BY RemoteAssumption DEF Kinds
<1>3. /\ call.op = "C" /\ Head(cmds).node = call.node /\ cmds' = <<>>
      /\ UNCHANGED <<fault, opens, vnode, call, last>>
  BY <1>1, <1>2, Served DEF Good
<1>4. PICK n \in Nodes : n = call.node BY <1>3 DEF Good, KernelType
<1>5. KernelType BY DEF Good
<1>6. n \in Places /\ Root \in Places BY NodesArePlaces
<1>7. descs \in Seq([node : Places, h : Int]) BY <1>5 DEF KernelType
<1>8. ASSUME NEW i \in FindByNode(n), SetHandle(i, -1), Reply(Frame("C", n, 1, 0))
      PROVE  Good'
  <2>2. PICK f \in Frames : f = Frame("C", n, 1, 0) BY <1>2, <1>6, FrameOf
  <2>3. f.op = "C" /\ f.len = AnswerLen["C"] BY <2>2, <1>2, <1>6, FrameOf
  <2>4. /\ (descs \in Seq([node : Places, h : Int]))' /\ DOMAIN descs' = DOMAIN descs
        /\ i \in DOMAIN descs /\ descs[i].node = n /\ Newest(i)
        /\ \A j \in DOMAIN descs : descs'[j].node = descs[j].node
        /\ \A j \in DOMAIN descs : descs'[j].h = IF j = i THEN -1 ELSE descs[j].h
        /\ \A j \in DOMAIN descs : Newest(j)' <=> Newest(j)
        /\ \A m \in Places \ {n} : Opened(m)' <=> Opened(m)
    BY <1>7, <1>6, <1>8, HandleSet
  <2>5. Tells(f)' BY <2>3, <1>2 DEF Tells
  <2>6. ASSUME Safe PROVE Hand'
    <3>1. Hand BY <2>6 DEF Good
    <3>2. \A m \in Nodes \ {n} : Opened(m)' <=> Opened(m) BY <2>4, NodesArePlaces
    <3>. QED BY <3>1, <3>2, <1>1, <1>3, <1>4 DEF Hand
  <2>7. ASSUME Exact PROVE Tidy'
    <3>1. Tidy BY <2>7 DEF Good
    <3>2. ASSUME NEW j \in DOMAIN descs', descs'[j].h >= 0
          PROVE  /\ Newest(j)' /\ descs'[j].node \in Nodes
                 /\ opens[descs'[j].node] = 1 /\ descs'[j].node # n
      <4>1. j # i BY <3>2, <2>4
      <4>2. /\ Newest(j) /\ descs[j].node \in Nodes /\ opens[descs[j].node] = 1
        BY <4>1, <3>1, <3>2, <2>4, <1>3, <1>4 DEF Tidy, Underway
      <4>3. i \in Int /\ j \in Int BY <3>2, <2>4, <1>7
      <4>4. descs[j].node # n BY <4>1, <4>2, <4>3, <2>4, <3>2 DEF Newest
      <4>. QED BY <4>2, <4>4, <3>2, <2>4
    <3>. QED BY <3>1, <3>2, <1>3, <1>4 DEF Tidy, Underway
  <2>. QED BY <1>1, <1>2, <1>8, <2>2, <2>3, <2>4, <2>5, <2>6, <2>7, ServedOK
<1>9. ASSUME FindByNode(n) = {}, Reply(Frame("C", n, 0, 0)), descs' = descs
      PROVE  Good'
  <2>2. PICK f \in Frames : f = Frame("C", n, 0, 0) BY <1>2, <1>6, FrameOf
  <2>3. f.op = "C" /\ f.len = AnswerLen["C"] BY <2>2, <1>2, <1>6, FrameOf
  <2>5. Tells(f)' BY <2>3, <1>2 DEF Tells
  <2>6. ASSUME Safe PROVE Hand'
    <3>1. Hand BY <2>6 DEF Good
    <3>. QED BY <3>1, <1>1, <1>3, <1>9 DEF Hand, Opened, FindByNode
  <2>7. ASSUME Exact PROVE Tidy'
    <3>1. Tidy BY <2>7 DEF Good
    <3>2. ASSUME NEW j \in DOMAIN descs, descs[j].h >= 0 PROVE descs[j].node # n
      <4>1. Newest(j) BY <3>1, <3>2 DEF Tidy
      <4>. QED BY <4>1, <1>9 DEF Newest, FindByNode
    <3>. QED BY <3>1, <3>2, <1>3, <1>4, <1>9 DEF Tidy, Underway, Newest
  <2>8. (descs \in Seq([node : Places, h : Int]))' BY <1>7, <1>9
  <2>. QED BY <1>1, <1>2, <1>9, <2>2, <2>3, <2>5, <2>6, <2>7, <2>8, ServedOK
<1>. QED BY <1>3, <1>4, <1>8, <1>9 DEF ServeClose

LEMMA ServeGetdentsOK ==
  ASSUME fault # "late", Good, ServeGetdents PROVE Good'
<1>1. Serve("D") /\ running' = running BY DEF ServeGetdents
<1>2. "D" \in Kinds /\ AnswerLen["D"] \in Nat BY RemoteAssumption DEF Kinds
<1>3. /\ call.op = "D" /\ Head(cmds).node = call.node /\ cmds' = <<>>
      /\ UNCHANGED <<fault, opens, vnode, call, last>>
  BY <1>1, <1>2, Served DEF Good
<1>4. PICK n \in Nodes : n = call.node BY <1>3 DEF Good, KernelType
<1>5. KernelType BY DEF Good
<1>6. n \in Places /\ Root \in Places BY NodesArePlaces
<1>7. descs \in Seq([node : Places, h : Int]) BY <1>5 DEF KernelType
<1>8. ASSUME NEW i \in FindByNode(n), descs[i].h >= 0, SetHandle(i, descs[i].h + 1),
             Reply(Frame("D", n, descs[i].h + 1, 0))
      PROVE  Good'
  <2>1. PICK h \in Int : h = descs[i].h + 1
    <3>1. i \in DOMAIN descs BY <1>8 DEF FindByNode
    <3>2. descs[i].h \in Int BY <3>1, <1>7, DescIn
    <3>. QED BY <3>2
  <2>2. PICK f \in Frames : f = Frame("D", n, h, 0) BY <2>1, <1>2, <1>6, FrameOf
  <2>3. f.op = "D" /\ f.len = AnswerLen["D"] BY <2>2, <1>2, <1>6, FrameOf
  <2>4. /\ (descs \in Seq([node : Places, h : Int]))' /\ DOMAIN descs' = DOMAIN descs
        /\ i \in DOMAIN descs /\ descs[i].node = n /\ Newest(i)
        /\ \A j \in DOMAIN descs : descs'[j].node = descs[j].node
        /\ \A j \in DOMAIN descs : descs'[j].h = IF j = i THEN h ELSE descs[j].h
        /\ \A j \in DOMAIN descs : Newest(j)' <=> Newest(j)
        /\ Opened(n)' <=> h >= 0
        /\ \A m \in Places \ {n} : Opened(m)' <=> Opened(m)
    BY <1>7, <1>6, <1>8, <2>1, HandleSet
  <2>5. h >= 0
    <3>1. i \in DOMAIN descs BY <2>4
    <3>2. PICK g : g = descs[i].h OBVIOUS
    <3>3. g \in Int BY <3>1, <3>2, <1>7, DescIn
    <3>. QED BY <3>2, <3>3, <2>1, <1>8
  <2>6. Tells(f)' BY <2>3, <1>2 DEF Tells
  <2>7. ASSUME Safe PROVE Hand'
    <3>1. Hand BY <2>7 DEF Good
    <3>. QED BY <3>1, <1>1, <1>3, <2>4, <2>5, HandKept, NodesArePlaces
  <2>8. ASSUME Exact PROVE Tidy'
    <3>1. Tidy BY <2>8 DEF Good
    <3>2. \A j \in DOMAIN descs : descs'[j].h >= 0 => descs[j].h >= 0
      BY <2>4, <1>8
    <3>. QED BY <3>1, <3>2, <2>4, <1>3, <1>4 DEF Tidy, Underway
  <2>. QED BY <1>1, <1>2, <1>8, <2>1, <2>2, <2>3, <2>4, <2>6, <2>7, <2>8, ServedOK
<1>9. ASSUME Reply(Frame("D", n, 0, 0)), descs' = descs PROVE Good'
  <2>2. PICK f \in Frames : f = Frame("D", n, 0, 0) BY <1>2, <1>6, FrameOf
  <2>3. f.op = "D" /\ f.len = AnswerLen["D"] BY <2>2, <1>2, <1>6, FrameOf
  <2>5. Tells(f)' BY <2>3, <1>2 DEF Tells
  <2>6. ASSUME Safe PROVE Hand'
    <3>1. Hand BY <2>6 DEF Good
    <3>. QED BY <3>1, <1>1, <1>3, <1>9 DEF Hand, Opened, FindByNode
  <2>7. ASSUME Exact PROVE Tidy' BY <2>7, <1>3, <1>9, TidyKept DEF Good
  <2>8. (descs \in Seq([node : Places, h : Int]))' BY <1>7, <1>9
  <2>. QED BY <1>1, <1>2, <1>9, <2>2, <2>3, <2>5, <2>6, <2>7, <2>8, ServedOK
<1>. QED BY <1>3, <1>4, <1>8, <1>9 DEF ServeGetdents

LEMMA ReadFacts ==
  ASSUME KernelType, Reads, call.op \in {"R", "body"}
  PROVE  /\ call.node \in Nodes /\ call.node \in Files
         /\ call.count \in Nat /\ call.start \in Nat /\ Len(call.data) \in Nat
         /\ call.data \in Fetches
         /\ vnode[call.node].lseek \in Nat /\ vnode[call.node].size \in Nat
         /\ vnode \in [Nodes -> [size : Nat, lseek : Nat]]
         /\ Remaining \in Nat /\ Remaining > 0
         /\ Clip(Remaining, RFS_MAX_READ) \in Nat
         /\ Clip(Remaining, RFS_MAX_READ) \in 1..RFS_MAX_READ
         /\ Clip(Remaining, RFS_MAX_READ) <= Remaining
<1>1. call.count \in Nat /\ call.start \in Nat /\ call.data \in Fetches /\ call.node \in Nodes
  BY DEF KernelType, CallType
<1>2. Len(call.data) \in Nat BY <1>1 DEF Fetches
<1>3. vnode \in [Nodes -> [size : Nat, lseek : Nat]] BY DEF KernelType
<1>4. vnode[call.node] \in [size : Nat, lseek : Nat] BY <1>1, <1>3
<1>5. Len(call.data) < call.count /\ call.node \in Files BY DEF Reads
<1>6. PICK r : r = Remaining OBVIOUS
<1>7. r \in Nat /\ r > 0 BY <1>1, <1>2, <1>5, <1>6 DEF Remaining
<1>8. RFS_MAX_READ \in Nat /\ RFS_MAX_READ > 0 BY RemoteAssumption
<1>9. Clip(r, RFS_MAX_READ) \in 1..RFS_MAX_READ /\ Clip(r, RFS_MAX_READ) <= r
  BY <1>7, <1>8 DEF Clip
<1>. QED BY <1>1, <1>2, <1>3, <1>4, <1>5, <1>6, <1>7, <1>9

LEMMA ServeReadOK ==
  ASSUME fault # "late", Good, ServeRead PROVE Good'
<1>1. Serve("R") /\ UNCHANGED <<tree, descs>> BY DEF ServeRead
<1>2. "R" \in Kinds /\ AnswerLen["R"] \in Nat BY RemoteAssumption DEF Kinds
<1>0. KernelType /\ Line /\ Positions /\ Reads /\ ReadRight BY DEF Good
<1>3. /\ call.op = "R" /\ Head(cmds).node = call.node /\ cmds' = <<>>
      /\ UNCHANGED <<fault, opens, vnode, call, last>>
      /\ Asks(Head(cmds)) /\ Head(cmds).op = "R" /\ wire = <<>> /\ ring' = <<>>
  BY <1>0, <1>1, <1>2, Served
<1>4. PICK n \in Nodes : n = call.node BY <1>3, <1>0 DEF KernelType
<1>6. n \in Places BY NodesArePlaces
<1>7. descs \in Seq([node : Places, h : Int]) BY <1>0 DEF KernelType
<1>8. (descs \in Seq([node : Places, h : Int]))' BY <1>7, <1>1
<1>9. Safe => Opened(n)
  <2>1. ASSUME Safe PROVE Opened(n)
    <3>1. Hand /\ opens[n] = 1 BY <2>1, <1>3, <1>4 DEF Good, Hand
    <3>. QED BY <3>1, <1>3 DEF Hand
  <2>. QED BY <2>1
<1>10. Safe /\ running' = running => Hand'
  <2>1. ASSUME Safe, running' = running PROVE Hand'
    <3>1. Hand BY <2>1 DEF Good
    <3>. QED BY <3>1, <1>1, <1>3, <2>1 DEF Hand, Opened, FindByNode
  <2>. QED BY <2>1
<1>11. Exact => Tidy' BY <1>1, <1>3, TidyKept DEF Good
<1>12. CASE Opened(n) /\ Reply(Frame("R", n, Head(cmds).at, Head(cmds).count)) /\ running' = running
  <2>1. PICK a \in Nat : a = vnode[n].lseek BY <1>0, <1>3, <1>4, ReadFacts
  <2>2. PICK b \in Nat : b = Clip(Remaining, RFS_MAX_READ) BY <1>0, <1>3, ReadFacts
  <2>3. b > 0 BY <1>0, <1>3, <2>2, ReadFacts, RemoteAssumption
  <2>4. Head(cmds).at = a /\ Head(cmds).count = b BY <1>3, <1>4, <2>1, <2>2 DEF Asks
  <2>0. a \in Int BY <2>1
  <2>5. PICK f \in Frames : f = Frame("R", n, a, b) BY <2>0, <2>2, <1>2, <1>6, FrameOf
  <2>6. f.op = "R" /\ f.node = n /\ f.a = a /\ f.b = b /\ f.len = AnswerLen["R"] + b
    BY <2>5, <2>0, <2>2, <1>2, <1>6, FrameOf
  <2>7. Remaining' = Remaining BY <1>3 DEF Remaining
  <2>8. Tells(f)' BY <2>1, <2>2, <2>3, <2>6, <2>7, <1>3, <1>4 DEF Tells
  <2>. QED BY <1>1, <1>2, <1>8, <1>10, <1>11, <1>12, <2>4, <2>5, <2>6, <2>8, ServedOK
<1>13. CASE FindByNode(n) = {} /\ Reply(Frame("R", n, -1, 0)) /\ running' = running
  <2>1. ~Safe BY <1>9, <1>13 DEF Opened
  <2>2. PICK f \in Frames : f = Frame("R", n, -1, 0) BY <1>2, <1>6, FrameOf
  <2>3. f.op = "R" /\ f.b = 0 /\ f.len = AnswerLen["R"] + 0 BY <2>2, <1>2, <1>6, FrameOf
  <2>4. Tells(f)' BY <2>1, <2>3, <1>2, <1>3, SafeExact DEF Tells
  <2>. QED BY <1>1, <1>2, <1>8, <1>10, <1>11, <1>13, <2>2, <2>3, <2>4, ServedOK
<1>14. CASE ~Opened(n) /\ running' = FALSE /\ wire' = wire
  <2>1. ~Safe BY <1>9, <1>14
  <2>2. Lost' BY <1>14, <1>2, <1>3 DEF Lost, Silent
  <2>3. Line' BY <2>2 DEF Line
  <2>4. running' \in BOOLEAN BY <1>14
  <2>. QED BY <1>0, <1>3, <1>8, <2>1, <2>3, <2>4, KernelKept, SafeExact DEF Good
<1>. QED BY <1>3, <1>4, <1>12, <1>13, <1>14 DEF ServeRead

LEMMA ServeMkdirOK ==
  ASSUME fault # "late", Good, ServeMkdir PROVE Good'
<1>1. Serve("M") /\ running' = running /\ descs' = descs BY DEF ServeMkdir
<1>2. "M" \in Kinds /\ AnswerLen["M"] \in Nat BY RemoteAssumption DEF Kinds
<1>3. /\ call.op = "M" /\ Head(cmds).node = call.node /\ cmds' = <<>>
      /\ UNCHANGED <<fault, opens, vnode, call, last>>
  BY <1>1, <1>2, Served DEF Good
<1>4. PICK n \in Nodes : n = call.node BY <1>3 DEF Good, KernelType
<1>6. n \in Places BY NodesArePlaces
<1>7. PICK a \in Int : a = IF n \in tree THEN 1 ELSE 0 OBVIOUS
<1>8. PICK f \in Frames : f = Frame("M", n, a, 0) BY <1>2, <1>6, <1>7, FrameOf
<1>9. f.op = "M" /\ f.len = AnswerLen["M"] BY <1>8, <1>2, <1>6, <1>7, FrameOf
<1>10. Tells(f)' BY <1>9, <1>2 DEF Tells
<1>11. Reply(f) BY <1>3, <1>4, <1>7, <1>8 DEF ServeMkdir
<1>12. ASSUME Safe PROVE Hand'
  <2>1. Hand BY <1>12 DEF Good
  <2>. QED BY <2>1, <1>1, <1>3 DEF Hand, Opened, FindByNode
<1>13. Exact => Tidy' BY <1>1, <1>3, TidyKept DEF Good
<1>14. (descs \in Seq([node : Places, h : Int]))' BY <1>1 DEF Good, KernelType
<1>. QED BY <1>1, <1>2, <1>8, <1>9, <1>10, <1>11, <1>12, <1>13, <1>14, ServedOK

LEMMA ServeResetOK ==
  ASSUME fault # "late", Good, ServeReset PROVE Good'
<1>1. /\ Serve("I") /\ running' = running /\ Reply(Frame("I", Root, 1, 0))
      /\ descs' = <<[node |-> Root, h |-> -1]>> \/ descs' = <<>>
  BY DEF ServeReset
<1>2. "I" \in Kinds /\ AnswerLen["I"] \in Nat /\ 1 \in Int BY RemoteAssumption DEF Kinds
<1>3. call.op = "I" /\ UNCHANGED <<fault, opens, vnode, call, last>>
  BY <1>1, <1>2, Served DEF Good
<1>4. /\ (descs \in Seq([node : Places, h : Int]))'
      /\ \A i \in DOMAIN descs' : descs'[i].h = -1
  BY <1>1, OnlyRoot, NoDescs
<1>5. PICK f \in Frames : f = Frame("I", Root, 1, 0) BY <1>2, NodesArePlaces, FrameOf
<1>6. f.op = "I" /\ f.len = AnswerLen["I"] BY <1>5, <1>2, NodesArePlaces, FrameOf
<1>7. Tells(f)' BY <1>6, <1>2 DEF Tells
<1>8. ASSUME Safe PROVE Hand'
  <2>1. Hand BY <1>8 DEF Good
  <2>2. \A n \in Nodes : opens[n] = 0 BY <2>1, <1>3 DEF Hand
  <2>. QED BY <2>1, <2>2, <1>1, <1>3 DEF Hand
<1>9. Exact => Tidy' BY <1>3, <1>4 DEF Tidy
<1>. QED BY <1>1, <1>2, <1>4, <1>5, <1>6, <1>7, <1>8, <1>9, ServedOK

LEMMA RejectOK ==
  ASSUME fault # "late", Good, Reject PROVE Good'
<1>1. /\ fault = "noise" /\ cmds # <<>> /\ cmds' = Tail(cmds)
      /\ UNCHANGED <<fault, opens, vnode, call, last, ring, wire, running, descs>>
  BY DEF Reject, kernel, daemon
<1>2. KernelType /\ Line /\ Positions /\ Reads /\ ReadRight BY DEF Good
<1>3. Asking BY <1>1, <1>2 DEF Line, Silent, Answering, Came, Lost, HalfTaken
<1>4. PICK c \in Commands : Sent(c) BY <1>3 DEF Asking
<1>5. cmds' = <<>> BY <1>1, <1>4 DEF Sent
<1>6. Lost' BY <1>1, <1>3, <1>4, <1>5 DEF Lost, Silent, Asking, Sent
<1>7. Line' BY <1>6 DEF Line
<1>8. ~Exact /\ ~Exact' BY <1>1 DEF Exact
<1>9. ASSUME Safe PROVE Hand'
  <2>1. Hand BY <1>9 DEF Good
  <2>. QED BY <2>1, <1>1 DEF Hand, Opened, FindByNode
<1>10. running' \in BOOLEAN /\ (descs \in Seq([node : Places, h : Int]))' BY <1>1, <1>2 DEF KernelType
<1>. QED BY <1>1, <1>2, <1>7, <1>8, <1>9, <1>10, KernelKept, SafeExact DEF Good

(* Without a root the daemon leaves a call without an answer. *)
LEMMA IgnoreOK ==
  ASSUME fault # "late", Good, Ignore PROVE Good'
<1>1. /\ descs = <<>> /\ cmds # <<>> /\ cmds' = Tail(cmds) /\ Head(cmds).op # "I"
      /\ UNCHANGED <<fault, opens, vnode, call, last, ring, wire, running, descs>>
  BY DEF Ignore, kernel, daemon
<1>2. KernelType /\ Line /\ Positions /\ Reads /\ ReadRight BY DEF Good
<1>3. Asking BY <1>1, <1>2 DEF Line, Silent, Answering, Came, Lost, HalfTaken
<1>4. PICK c \in Commands : Sent(c) /\ Asks(c) BY <1>3 DEF Asking
<1>5. cmds' = <<>> /\ Head(cmds) = c BY <1>1, <1>4 DEF Sent
<1>6. Mute' BY <1>1, <1>4, <1>5 DEF Mute, Asks
<1>7. Lost' BY <1>1, <1>3, <1>4, <1>5, <1>6 DEF Lost, Silent, Asking, Sent
<1>8. Line' BY <1>7 DEF Line
<1>9. ASSUME Safe PROVE Hand'
  <2>1. Hand BY <1>9 DEF Good
  <2>. QED BY <2>1, <1>1 DEF Hand, Opened, FindByNode
<1>10. ASSUME Exact PROVE Tidy'
  <2>1. \A i \in DOMAIN descs : descs[i].h = -1
    <3>1. descs' = <<>> BY <1>1
    <3>. QED BY <3>1, <1>1, NoDescs
  <2>. QED BY <2>1, <1>10, <1>1 DEF Tidy, Good
<1>11. running' \in BOOLEAN /\ (descs \in Seq([node : Places, h : Int]))' BY <1>1, <1>2 DEF KernelType
<1>. QED BY <1>1, <1>2, <1>8, <1>9, <1>10, <1>11, KernelKept, SafeExact DEF Good

(* The line brings what is on it. *)
LEMMA ArriveOK ==
  ASSUME fault # "late", Good, Arrive PROVE Good'
<1>1. /\ wire # <<>> /\ UNCHANGED <<fault, opens, vnode, call, last, cmds, running, descs>>
      /\ ring' = ring \o SubSeq(wire, 1, Len(wire))
      /\ wire' = SubSeq(wire, Len(wire) + 1, Len(wire))
  BY DEF Arrive, kernel, daemon
<1>2. KernelType /\ Line /\ Positions /\ Reads /\ ReadRight BY DEF Good
<1>3. Answering
  BY <1>1, <1>2 DEF Line, Silent, Asking, Sent, Lost, HalfTaken
<1>4. PICK f \in Frames : call.op = f.op /\ Came(f) /\ Tells(f) BY <1>3 DEF Answering
<1>5. wire = Whole(f) /\ ring = <<>> BY <1>1, <1>4 DEF Came
<1>6. ring' = Whole(f) /\ wire' = <<>> BY <1>1, <1>5, WholeFrame
<1>7. Tells(f)' BY <1>4, <1>1 DEF Tells, Safe, Remaining, Opened, FindByNode
<1>8. Came(f)' BY <1>6, <1>4, <1>1 DEF Came, Whole
<1>9. Answering' BY <1>4, <1>7, <1>8, <1>1 DEF Answering
<1>10. Line' BY <1>9 DEF Line
<1>11. ASSUME Safe PROVE Hand'
  <2>1. Hand BY <1>11 DEF Good
  <2>. QED BY <2>1, <1>1 DEF Hand, Opened, FindByNode
<1>12. ASSUME Exact PROVE Tidy'
  <2>1. Tidy BY <1>12 DEF Good
  <2>. QED BY <2>1, <1>1 DEF Tidy, Underway, Newest
<1>13. running' \in BOOLEAN /\ (descs \in Seq([node : Places, h : Int]))' BY <1>1, <1>2 DEF KernelType
<1>. QED BY <1>1, <1>2, <1>10, <1>11, <1>12, <1>13, KernelKept, SafeExact DEF Good

LEMMA DaemonOK ==
  ASSUME fault # "late", Good, Daemon PROVE Good'
BY ServeLookupOK, ServeOpenOK, ServeCloseOK, ServeGetdentsOK, ServeReadOK, ServeMkdirOK,
   ServeResetOK, IgnoreOK, RejectOK DEF Daemon

-----------------------------------------------------------------------------
(* The calls.                                                              *)

Call == [op : Kinds \cup Closed, node : Places, start : Nat, count : Nat, data : Fetches]
Open0 == [Nodes -> [size : Nat, lseek : Nat]]

LEMMA NoFetch == <<>> \in Fetches /\ Len(<<>>) = 0
BY DEF Fetches

LEMMA NoCallAt ==
  NoCall \in Call /\ NoCall.op = "none" /\ NoCall.start = 0 /\ NoCall.count = 0 /\ NoCall.data = <<>>
BY NoFetch, NodesArePlaces DEF NoCall, Call, Closed

LEMMA CallingPlain ==
  ASSUME NEW op \in Kinds \cup Closed, NEW n \in Places
  PROVE  \E q \in Call : /\ q = [NoCall EXCEPT !.op = op, !.node = n]
                         /\ q.op = op /\ q.node = n /\ q.start = 0 /\ q.count = 0 /\ q.data = <<>>
<1>1. PICK e \in Call : e = NoCall /\ e.start = 0 /\ e.count = 0 /\ e.data = <<>> BY NoCallAt
<1>2. PICK q : q = [e EXCEPT !.op = op, !.node = n] OBVIOUS
<1>3. /\ q \in Call /\ q.op = op /\ q.node = n /\ q.start = e.start
      /\ q.count = e.count /\ q.data = e.data
  BY <1>2 DEF Call
<1>. QED BY <1>1, <1>2, <1>3

LEMMA CmdOf ==
  ASSUME NEW op \in Kinds, NEW n \in Places
  PROVE  Cmd(op, n) \in Commands /\ Cmd(op, n).op = op /\ Cmd(op, n).node = n
BY DEF Cmd, Commands

LEMMA ClosedSilent ==
  ASSUME Line, call.op \in Closed PROVE Silent
BY DEF Line, Closed, Kinds, Asking, Answering, Lost, HalfTaken, Frames

(* A command is sent. *)
LEMMA SentOK ==
  ASSUME Good, cmds = <<>>, ring' = <<>>, wire' = <<>>,
         UNCHANGED <<fault, opens, running, descs>>,
         NEW c \in Commands, Send(c), Asks(c)', call' \in Call,
         call'.op \in Kinds \ {"I"}, call'.node \in Nodes,
         call'.op = "C" => opens[call'.node] > 0,
         vnode' \in Open0, Positions', Reads', ReadRight',
         \A n \in Nodes : Safe /\ opens[n] = 1 => Opened(n),
         Safe /\ call'.op \in {"L", "O"} => opens[call'.node] = 0,
         Safe /\ call'.op \in {"C", "R", "D"} => opens[call'.node] = 1,
         \A n \in Nodes : ~Underway(n)
  PROVE  Good'
<1>1. KernelType /\ Line BY DEF Good
<1>2. KernelType'
  BY <1>1 DEF KernelType, CallType, Call, Open0, Kinds
<1>3. call'.op = c.op BY DEF Asks
<1>4. Line' BY <1>1, <1>3, Asked DEF KernelType
<1>5. ASSUME Safe PROVE Hand'
  <2>1. Hand BY <1>5 DEF Good
  <2>2. \A n \in Nodes : Opened(n)' <=> Opened(n) BY DEF Opened, FindByNode
  <2>. QED BY <2>1, <2>2, <1>5 DEF Hand, Kinds
<1>6. ASSUME Exact PROVE Tidy'
  <2>1. Tidy /\ running BY <1>6, SafeExact DEF Good, Hand
  <2>2. cmds' = <<c>> BY <2>1 DEF Send, Commands
  <2>3. cmds' # <<>> BY <2>2
  <2>. QED BY <2>1, <2>3 DEF Tidy, Newest, Kinds
<1>. QED BY <1>2, <1>4, <1>5, <1>6, SafeExact DEF Good

(* A call begins or goes on without a word to the daemon, or has ended. *)
LEMMA BackOK ==
  ASSUME Good, cmds' = <<>>, wire' = <<>>, ring' = <<>>,
         UNCHANGED <<fault, running, descs>>, call' \in Call, call'.op \in Closed,
         call'.op = "found" => call'.node \in Nodes,
         opens' \in [Nodes -> Nat], vnode' \in Open0, Positions', ReadRight',
         Safe => Hand', Exact => Tidy'
  PROVE  Good'
<1>1. KernelType BY DEF Good
<1>2. call'.op \notin Kinds /\ call'.op # "body" BY DEF Closed, Kinds
<1>3. KernelType'
  BY <1>1, <1>2 DEF KernelType, CallType, Call, Open0, Kinds, Closed
<1>4. Line' BY Quieted
<1>5. Reads' BY <1>2 DEF Reads, Kinds
<1>. QED BY <1>3, <1>4, <1>5, SafeExact DEF Good

LEMMA BeginOK ==
  ASSUME Good, call.op \in Closed, NEW op \in {"L", "O", "C", "M"}, NEW n \in Nodes,
         Begin(op, n), UNCHANGED vnode,
         op = "C" => opens[n] > 0, op \in {"L", "O"} /\ Safe => opens[n] = 0
  PROVE  Good'
<1>1. KernelType /\ Line /\ Positions /\ (Safe => Hand) /\ Silent BY ClosedSilent DEF Good
<1>2. UNCHANGED <<fault, opens, ring, wire, running, descs>> /\ last' = NoCall /\ Send(Cmd(op, n))
  BY DEF Begin, daemon
<1>3. n \in Places /\ op \in Kinds BY NodesArePlaces DEF Kinds
<1>0. op \in Kinds \cup Closed BY <1>3
<1>4. PICK q \in Call : /\ q = [NoCall EXCEPT !.op = op, !.node = n]
                        /\ q.op = op /\ q.node = n
  BY <1>0, <1>3, CallingPlain
<1>5. call' = q BY <1>4 DEF Begin
<1>6. PICK c \in Commands : c = Cmd(op, n) /\ c.op = op /\ c.node = n BY <1>3, CmdOf
<1>7. Asks(c)' BY <1>4, <1>5, <1>6 DEF Asks
<1>8. cmds = <<>> /\ wire' = <<>> /\ ring' = <<>> BY <1>1, <1>2 DEF Silent
<1>9. vnode' \in Open0 /\ Positions' BY <1>1 DEF KernelType, Open0, Positions
<1>10. Reads' BY <1>4, <1>5 DEF Reads
<1>11. ReadRight' BY <1>2, NoCallAt DEF ReadRight
<1>12. \A m \in Nodes : Safe /\ opens[m] = 1 => Opened(m) BY <1>1 DEF Hand, Closed
<1>13. Safe /\ op = "C" => opens[n] = 1 BY <1>1 DEF Hand
<1>14. \A m \in Nodes : ~Underway(m) BY DEF Underway, Closed
<1>15. op \in Kinds \ {"I"} BY DEF Kinds
<1>. QED BY <1>2, <1>4, <1>5, <1>6, <1>7, <1>8, <1>9, <1>10, <1>11, <1>12, <1>13, <1>14,
            <1>15, SentOK

LEMMA IdleClosed == Idle => call.op \in Closed
BY DEF Idle, Closed

LEMMA LookupOK ==
  ASSUME fault # "late", Good, NEW n \in Nodes, Lookup(n) PROVE Good'
<1>1. Safe => opens[n] = 0 BY DEF Lookup, Safe
<1>. QED BY <1>1, BeginOK, IdleClosed DEF Lookup

LEMMA OpenOK ==
  ASSUME fault # "late", Good, NEW n \in Nodes, Open(n) PROVE Good'
<1>1. Safe => opens[n] = 0 BY DEF Open, Good, Hand
<1>2. call.op \in Closed BY DEF Open, Closed
<1>. QED BY <1>1, <1>2, BeginOK DEF Open

LEMMA MkdirOK ==
  ASSUME fault # "late", Good, NEW n \in Nodes, Mkdir(n) PROVE Good'
BY BeginOK, IdleClosed DEF Mkdir

LEMMA CloseOK ==
  ASSUME fault # "late", Good, NEW n \in Nodes, Close(n) PROVE Good'
BY BeginOK, IdleClosed DEF Close

LEMMA GetdentsOK ==
  ASSUME fault # "late", Good, NEW n \in Nodes, Getdents(n) PROVE Good'
<1>0. call.op \in Closed BY IdleClosed DEF Getdents
<1>1. KernelType /\ Line /\ Positions /\ (Safe => Hand) /\ Silent BY <1>0, ClosedSilent DEF Good
<1>2. /\ UNCHANGED <<fault, opens, ring, wire, running, descs>> /\ last' = NoCall
      /\ Send(Cmd("D", n)) /\ n \in Dirs /\ opens[n] > 0
      /\ vnode' = [vnode EXCEPT ![n].lseek = @ + 1]
      /\ call' = [NoCall EXCEPT !.op = "D", !.node = n, !.start = vnode[n].lseek]
  BY DEF Getdents, daemon
<1>3. n \in Places /\ "D" \in Kinds \ {"I"} BY NodesArePlaces DEF Kinds
<1>4. vnode \in Open0 BY <1>1 DEF KernelType, Open0
<1>5. PICK v \in [size : Nat, lseek : Nat] : v = vnode[n] BY <1>4 DEF Open0
<1>6. PICK w \in [size : Nat, lseek : Nat] : w = [v EXCEPT !.lseek = @ + 1]
  <2>1. [v EXCEPT !.lseek = @ + 1] \in [size : Nat, lseek : Nat] BY <1>5
  <2>. QED BY <2>1
<1>7. vnode' = [vnode EXCEPT ![n] = w] BY <1>2, <1>5, <1>6
<1>8. vnode' \in Open0 BY <1>4, <1>7 DEF Open0
<1>9. Positions'
  <2>1. n \notin Files BY <1>2, RemoteAssumption
  <2>2. \A m \in Files : m \in Nodes /\ vnode'[m] = vnode[m]
    BY <2>1, <1>7, <1>4 DEF Open0, Nodes
  <2>. QED BY <1>1, <2>2 DEF Positions
<1>10. PICK q \in Call : q = call' /\ q.op = "D" /\ q.node = n
  <2>1. v.lseek \in Nat /\ "D" \in Kinds \cup Closed BY <1>3, <1>5
  <2>2. call' = [NoCall EXCEPT !.op = "D", !.node = n, !.start = v.lseek] BY <1>2, <1>5
  <2>3. PICK e \in Call : e = NoCall BY NoCallAt
  <2>4. PICK q : q = [e EXCEPT !.op = "D", !.node = n, !.start = v.lseek] OBVIOUS
  <2>5. q \in Call /\ q.op = "D" /\ q.node = n BY <1>3, <2>1, <2>4 DEF Call
  <2>. QED BY <2>2, <2>3, <2>4, <2>5
<1>11. PICK c \in Commands : c = Cmd("D", n) /\ c.op = "D" /\ c.node = n BY <1>3, CmdOf
<1>12. Asks(c)' BY <1>10, <1>11 DEF Asks
<1>13. cmds = <<>> /\ wire' = <<>> /\ ring' = <<>> BY <1>1, <1>2 DEF Silent
<1>14. Reads' BY <1>10 DEF Reads
<1>15. ReadRight' BY <1>2, NoCallAt DEF ReadRight
<1>16. \A m \in Nodes : Safe /\ opens[m] = 1 => Opened(m) BY <1>0, <1>1 DEF Hand, Closed
<1>17. Safe => opens[n] = 1 BY <1>1, <1>2 DEF Hand
<1>18. \A m \in Nodes : ~Underway(m) BY <1>0 DEF Underway, Closed
<1>. QED BY <1>2, <1>3, <1>8, <1>9, <1>10, <1>11, <1>12, <1>13, <1>14, <1>15, <1>16, <1>17,
            <1>18, SentOK

(* Sizes and positions. *)
LEMMA Moved ==
  ASSUME vnode \in Open0, Positions, NEW n \in Nodes, NEW w \in [size : Nat, lseek : Nat],
         n \in Files => w.lseek <= w.size /\ w.size <= Bytes[n],
         vnode' = [vnode EXCEPT ![n] = w]
  PROVE  vnode' \in Open0 /\ Positions' /\ vnode'[n] = w
         /\ \A m \in Nodes \ {n} : vnode'[m] = vnode[m]
<1>1. vnode' \in Open0 /\ vnode'[n] = w /\ \A m \in Nodes \ {n} : vnode'[m] = vnode[m]
  BY DEF Open0
<1>2. ASSUME NEW m \in Files PROVE vnode'[m].lseek <= vnode'[m].size /\ vnode'[m].size <= Bytes[m]
  <2>1. m \in Nodes BY DEF Nodes
  <2>2. CASE m = n BY <2>2, <1>1
  <2>3. CASE m # n BY <2>1, <2>3, <1>1 DEF Positions
  <2>. QED BY <2>2, <2>3
<1>. QED BY <1>1, <1>2 DEF Positions

LEMMA FreshAt == Fresh \in [size : Nat, lseek : Nat] /\ Fresh.size = 0 /\ Fresh.lseek = 0
BY DEF Fresh

LEMMA Freed ==
  ASSUME vnode \in Open0, Positions, NEW n \in Nodes,
         vnode' = vnode \/ vnode' = [vnode EXCEPT ![n] = Fresh]
  PROVE  vnode' \in Open0 /\ Positions'
<1>1. n \in Files => Bytes[n] \in Nat BY RemoteAssumption
<1>2. CASE vnode' = vnode BY <1>2 DEF Positions
<1>3. CASE vnode' = [vnode EXCEPT ![n] = Fresh]
  <2>1. PICK w \in [size : Nat, lseek : Nat] : w = Fresh /\ w.size = 0 /\ w.lseek = 0 BY FreshAt
  <2>2. n \in Files => w.lseek <= w.size /\ w.size <= Bytes[n] BY <1>1, <2>1
  <2>. QED BY <1>3, <2>1, <2>2, Moved
<1>. QED BY <1>2, <1>3

LEMMA BackHand ==
  ASSUME Good, Safe, UNCHANGED <<opens, running, descs>>, call'.op = "none",
         \A m \in Nodes : opens[m] = 1 => Opened(m)
  PROVE  Hand'
<1>1. \A m \in Nodes : Opened(m)' <=> Opened(m) BY DEF Opened, FindByNode
<1>. QED BY <1>1 DEF Good, Hand

LEMMA BackTidy ==
  ASSUME Good, Exact, UNCHANGED <<opens, descs>>, call'.op = "none",
         \A n \in Nodes : ~Underway(n)
  PROVE  Tidy'
BY DEF Good, Tidy, Newest

(* The next command of a read, or its end. *)
LEMMA ChunkOK ==
  ASSUME Good, NEW c \in Call, c.op = "R", c.node \in Files, NEW at \in Nat,
         vnode' \in Open0, Positions', vnode'[c.node].lseek = at,
         at = c.start + Len(c.data), Len(c.data) <= c.count,
         c.start + c.count <= vnode'[c.node].size, Content(c.node, c.start, c.data),
         Chunk(c, at), cmds = <<>>, ring' = <<>>, wire' = <<>>,
         UNCHANGED <<fault, opens, running, descs>>,
         Safe => opens[c.node] = 1, \A m \in Nodes : Safe /\ opens[m] = 1 => Opened(m),
         \A n \in Nodes : ~Underway(n)
  PROVE  Good'
<1>1. PICK l \in Nat : l = Len(c.data) BY DEF Call, Fetches
<1>2. PICK k \in Nat : k = c.count BY DEF Call
<1>3. PICK s \in Nat : s = c.start BY DEF Call
<1>4. c.node \in Nodes BY DEF Nodes
<1>5. CASE k - l <= 0
  <2>1. call' = NoCall /\ last' = c /\ cmds' = cmds BY <1>1, <1>2, <1>5 DEF Chunk, Return
  <2>2. l = k BY <1>1, <1>2, <1>5
  <2>3. ReadRight' BY <2>1, <2>2, <1>1, <1>2 DEF ReadRight, Content
  <2>4. call' \in Call /\ call'.op = "none" BY <2>1, NoCallAt
  <2>5. opens' \in [Nodes -> Nat] BY DEF Good, KernelType
  <2>6. call'.op \in Closed /\ call'.op # "found" BY <2>4 DEF Closed
  <2>7. Safe => Hand' BY <2>4, BackHand
  <2>8. Exact => Tidy' BY <2>4, BackTidy
  <2>. QED BY <2>1, <2>3, <2>4, <2>5, <2>6, <2>7, <2>8, BackOK
<1>6. CASE ~(k - l <= 0)
  <2>1. PICK r \in Nat : r = k - l /\ r > 0 BY <1>6
  <2>2. PICK e : e = [op |-> "R", node |-> c.node, at |-> at, count |-> Clip(r, RFS_MAX_READ)]
    OBVIOUS
  <2>3. call' = [c EXCEPT !.op = "R"] /\ Send(e) /\ last' = last
    BY <2>1, <2>2, <1>1, <1>2, <1>6 DEF Chunk
  <2>4. call' = c BY <2>3 DEF Call
  <2>5. Clip(r, RFS_MAX_READ) \in Nat BY <2>1, RemoteAssumption DEF Clip
  <2>6. c.node \in Places /\ "R" \in Kinds \ {"I"} BY <1>4, NodesArePlaces DEF Kinds
  <2>7. e \in Commands BY <2>2, <2>5, <2>6 DEF Commands
  <2>8. Remaining' = r BY <2>1, <2>4, <1>1, <1>2 DEF Remaining
  <2>9. e.op = "R" /\ e.node = c.node /\ e.at = at /\ e.count = Clip(r, RFS_MAX_READ) BY <2>2
  <2>10. Asks(e)' BY <2>4, <2>8, <2>9 DEF Asks
  <2>11. Reads'
    <3>1. l < k BY <1>6
    <3>. QED BY <3>1, <2>4, <1>1, <1>2 DEF Reads, Content
  <2>12. ReadRight' BY <2>3 DEF Good, ReadRight
  <2>. QED BY <2>3, <2>4, <2>6, <2>7, <2>10, <2>11, <2>12, <1>4, SentOK
<1>. QED BY <1>5, <1>6

LEMMA QuietFacts ==
  ASSUME Good, call.op \in Closed
  PROVE  /\ cmds = <<>> /\ wire = <<>> /\ ring = <<>> /\ call \in Call
         /\ vnode \in Open0 /\ Positions /\ opens \in [Nodes -> Nat]
         /\ \A m \in Nodes : Safe /\ opens[m] = 1 => Opened(m)
         /\ \A m \in Nodes : ~Underway(m)
<1>1. Silent BY ClosedSilent DEF Good
<1>2. call \in Call BY DEF Good, KernelType, CallType, Call, Closed
<1>. QED BY <1>1, <1>2 DEF Silent, Good, KernelType, Open0, Hand, Closed, Underway

LEMMA ReadOK ==
  ASSUME fault # "late", Good, NEW n \in Nodes, NEW count \in Nat, Read(n, count) PROVE Good'
<1>0. call.op \in Closed BY IdleClosed DEF Read
<1>1. /\ cmds = <<>> /\ wire = <<>> /\ ring = <<>> /\ vnode \in Open0 /\ Positions
      /\ \A m \in Nodes : Safe /\ opens[m] = 1 => Opened(m)
      /\ \A m \in Nodes : ~Underway(m)
  BY <1>0, QuietFacts
<1>2. n \in Files /\ opens[n] > 0 /\ UNCHANGED <<fault, opens, vnode, ring, wire, running, descs>>
  BY DEF Read, daemon
<1>3. PICK v \in [size : Nat, lseek : Nat] : v = vnode[n] BY <1>1 DEF Open0
<1>4. v.lseek <= v.size BY <1>1, <1>2, <1>3 DEF Positions
<1>5. PICK k \in Nat : k = Clip(count, v.size - v.lseek) /\ k <= v.size - v.lseek
  BY <1>3, <1>4 DEF Clip
<1>6. PICK e \in Call : e = NoCall /\ e.data = <<>> BY NoCallAt
<1>7. PICK c : c = [e EXCEPT !.op = "R", !.node = n, !.start = v.lseek, !.count = k] OBVIOUS
<1>8. n \in Places /\ "R" \in Kinds BY NodesArePlaces DEF Kinds
<1>9. /\ c \in Call /\ c.op = "R" /\ c.node = n /\ c.start = v.lseek /\ c.count = k
      /\ c.data = <<>>
  BY <1>3, <1>5, <1>6, <1>7, <1>8 DEF Call
<1>10. Chunk(c, v.lseek) BY <1>3, <1>5, <1>6, <1>7 DEF Read
<1>11. Len(c.data) = 0 /\ Content(c.node, c.start, c.data) BY <1>9 DEF Content
<1>12. c.start + c.count <= v.size BY <1>3, <1>5, <1>9
<1>13. Safe => opens[n] = 1 BY <1>2 DEF Good, Hand
<1>14. v.lseek \in Nat BY <1>3
<1>15. v.lseek = c.start + Len(c.data) /\ Len(c.data) <= c.count BY <1>3, <1>9, <1>11, <1>5
<1>16. vnode' \in Open0 /\ Positions' BY <1>1, <1>2 DEF Positions
<1>. QED BY <1>1, <1>2, <1>3, <1>9, <1>10, <1>11, <1>12, <1>13, <1>14, <1>15, <1>16, ChunkOK

LEMMA LseekOK ==
  ASSUME fault # "late", Good, NEW n \in Nodes, NEW at \in Nat, Lseek(n, at) PROVE Good'
<1>0. call.op \in Closed /\ call.op = "none" BY IdleClosed DEF Lseek, Idle
<1>1. /\ cmds = <<>> /\ wire = <<>> /\ ring = <<>> /\ vnode \in Open0 /\ Positions
      /\ call \in Call /\ opens \in [Nodes -> Nat]
      /\ \A m \in Nodes : Safe /\ opens[m] = 1 => Opened(m)
      /\ \A m \in Nodes : ~Underway(m)
  BY <1>0, QuietFacts
<1>2. /\ n \in Files /\ at <= vnode[n].size /\ last' = NoCall
      /\ UNCHANGED <<fault, opens, call, cmds, ring, wire, running, descs>>
      /\ vnode' = [vnode EXCEPT ![n].lseek = at]
  BY DEF Lseek, daemon
<1>3. PICK v \in [size : Nat, lseek : Nat] : v = vnode[n] BY <1>1 DEF Open0
<1>4. PICK w : w = [v EXCEPT !.lseek = at] OBVIOUS
<1>5. w \in [size : Nat, lseek : Nat] /\ w.lseek = at /\ w.size = v.size BY <1>3, <1>4
<1>6. vnode' = [vnode EXCEPT ![n] = w] BY <1>2, <1>3, <1>4
<1>7. w.lseek <= w.size /\ w.size <= Bytes[n] BY <1>1, <1>2, <1>3, <1>5 DEF Positions
<1>8. vnode' \in Open0 /\ Positions' BY <1>1, <1>5, <1>6, <1>7, Moved
<1>9. ReadRight' BY <1>2, NoCallAt DEF ReadRight
<1>10. Safe => Hand' BY <1>0, <1>1, <1>2, BackHand
<1>11. Exact => Tidy' BY <1>0, <1>1, <1>2, BackTidy
<1>. QED BY <1>0, <1>1, <1>2, <1>8, <1>9, <1>10, <1>11, BackOK

LEMMA ForkOK ==
  ASSUME fault # "late", Good, NEW n \in Nodes, Fork(n) PROVE Good'
<1>0. call.op \in Closed /\ call.op = "none" BY IdleClosed DEF Fork, Idle
<1>1. /\ cmds = <<>> /\ wire = <<>> /\ ring = <<>> /\ vnode \in Open0 /\ Positions
      /\ call \in Call /\ opens \in [Nodes -> Nat]
  BY <1>0, QuietFacts
<1>2. /\ fault = "share" /\ last' = NoCall /\ opens' = [opens EXCEPT ![n] = @ + 1]
      /\ UNCHANGED <<fault, vnode, call, cmds, ring, wire, running, descs>>
  BY DEF Fork, daemon
<1>3. opens' \in [Nodes -> Nat]
  <2>1. opens[n] + 1 \in Nat BY <1>1
  <2>. QED BY <1>1, <1>2, <2>1
<1>4. ~Safe /\ ~Exact BY <1>2 DEF Safe, Exact
<1>5. ReadRight' BY <1>2, NoCallAt DEF ReadRight
<1>6. vnode' \in Open0 /\ Positions' BY <1>1, <1>2 DEF Positions
<1>. QED BY <1>0, <1>1, <1>2, <1>3, <1>4, <1>5, <1>6, BackOK

LEMMA DropOK ==
  ASSUME fault # "late", Good, Drop PROVE Good'
<1>0. call.op \in Closed /\ call.op = "found" BY DEF Drop, Closed
<1>1. /\ cmds = <<>> /\ wire = <<>> /\ ring = <<>> /\ vnode \in Open0 /\ Positions
      /\ call \in Call /\ opens \in [Nodes -> Nat]
      /\ \A m \in Nodes : Safe /\ opens[m] = 1 => Opened(m)
      /\ \A m \in Nodes : ~Underway(m)
  BY <1>0, QuietFacts
<1>2. /\ last' = NoCall /\ call' = NoCall /\ vnode' = Released(call.node, vnode)
      /\ UNCHANGED <<fault, opens, cmds, ring, wire, running, descs>>
  BY DEF Drop, daemon, Return
<1>3. call.node \in Nodes BY <1>0 DEF Good, KernelType
<1>4. vnode' \in Open0 /\ Positions' BY <1>1, <1>2, <1>3, Freed DEF Released
<1>5. ReadRight' BY <1>2, NoCallAt DEF ReadRight
<1>6. call' \in Call /\ call'.op = "none" /\ call'.op \in Closed BY <1>2, NoCallAt DEF Closed
<1>7. Safe => Hand' BY <1>1, <1>2, <1>6, BackHand
<1>8. Exact => Tidy' BY <1>1, <1>2, <1>6, BackTidy
<1>. QED BY <1>1, <1>2, <1>4, <1>5, <1>6, <1>7, <1>8, BackOK

(* The kernel starts again. *)
LEMMA RebootOK ==
  ASSUME fault # "late", Good, Reboot PROVE Good'
<1>1. /\ fault = "reboot" /\ cmds = <<>> /\ wire' = <<>> /\ ring' = <<>> /\ last' = NoCall
      /\ opens' = [n \in Nodes |-> 0] /\ vnode' = [n \in Nodes |-> Fresh]
      /\ call' = [NoCall EXCEPT !.op = "I"] /\ Send(Cmd("I", Root))
      /\ UNCHANGED <<fault, running, descs>>
  BY DEF Reboot, daemon
<1>2. Safe /\ Exact BY <1>1 DEF Safe, Exact
<1>3. KernelType /\ Hand /\ Tidy BY <1>2 DEF Good
<1>4. "I" \in Kinds /\ Root \in Places BY NodesArePlaces DEF Kinds
<1>5. PICK e \in Call : e = NoCall /\ e.node = Root BY NoCallAt DEF NoCall
<1>6. PICK q : q = [e EXCEPT !.op = "I"] OBVIOUS
<1>7. q \in Call /\ q.op = "I" /\ q.node = Root BY <1>4, <1>5, <1>6 DEF Call
<1>8. call' = q BY <1>1, <1>5, <1>6
<1>9. PICK c \in Commands : c = Cmd("I", Root) /\ c.op = "I" /\ c.node = Root BY <1>4, CmdOf
<1>10. Asks(c)' BY <1>7, <1>8, <1>9 DEF Asks
<1>11. Line' BY <1>1, <1>3, <1>7, <1>8, <1>9, <1>10, Asked DEF KernelType
<1>12. opens' \in [Nodes -> Nat] /\ vnode' \in Open0 BY <1>1, FreshAt DEF Open0
<1>13. KernelType' BY <1>1, <1>3, <1>7, <1>8, <1>12 DEF KernelType, CallType, Call, Open0
<1>14. Positions'
  <2>1. ASSUME NEW n \in Files PROVE vnode'[n] = Fresh /\ Bytes[n] \in Nat
    BY <1>1, RemoteAssumption DEF Nodes
  <2>. QED BY <2>1, FreshAt DEF Positions
<1>15. Reads' BY <1>7, <1>8 DEF Reads
<1>16. ReadRight' BY <1>1, NoCallAt DEF ReadRight
<1>17. Hand'
  <2>1. opens' \in [Nodes -> {0, 1}] /\ \A n \in Nodes : opens'[n] = 0 BY <1>1
  <2>. QED BY <2>1, <1>1, <1>3, <1>7, <1>8 DEF Hand
<1>18. Tidy'
  <2>1. cmds' # <<>> BY <1>1, <1>3, <1>9 DEF Send, Hand, Commands
  <2>. QED BY <2>1, <1>1, <1>3, <1>7, <1>8 DEF Tidy, Newest, Underway
<1>. QED BY <1>11, <1>13, <1>14, <1>15, <1>16, <1>17, <1>18 DEF Good

-----------------------------------------------------------------------------
(* The answers.                                                            *)

LEMMA Received ==
  ASSUME fault # "late", Good, NEW op \in Kinds \ {"R"}, Got(op), cmds' = cmds
  PROVE  /\ call.op = op /\ cmds' = <<>> /\ wire' = <<>> /\ ring' = <<>>
         /\ UNCHANGED <<fault, running, descs>>
         /\ call \in Call /\ vnode \in Open0 /\ Positions /\ opens \in [Nodes -> Nat]
         /\ \/ Valid /\ Answer \in Frames /\ Answer.op = op /\ Tells(Answer)
            \/ ~Valid /\ (~Exact \/ Mute)
         /\ \A m \in Nodes : Safe /\ opens[m] = 1 => Opened(m) \/ (op = "C" /\ call.node = m)
         /\ \A m \in Nodes : ~Underway(m) \/ (op = "O" /\ call.node = m)
<1>1. Line /\ KernelType BY DEF Good
<1>2. /\ call.op = op /\ cmds = <<>> /\ wire = <<>> /\ ring' = <<>>
      /\ UNCHANGED <<fault, wire, running, tree, descs>>
      /\ \/ Valid /\ Answer \in Frames /\ Answer.op = op /\ Tells(Answer)
         \/ ~Valid /\ (fault = "noise" \/ ~running \/ Mute)
  BY <1>1, Gotten
<1>3. fault = "noise" \/ ~running => ~Exact
  BY SafeExact DEF Good, Hand, Exact
<1>4. call \in Call BY <1>1, <1>2 DEF KernelType, CallType, Call, Kinds
<1>5. \A m \in Nodes : Safe /\ opens[m] = 1 => Opened(m) \/ (op = "C" /\ call.node = m)
  BY <1>2 DEF Good, Hand
<1>6. \A m \in Nodes : ~Underway(m) \/ (op = "O" /\ call.node = m) BY <1>2 DEF Underway
<1>. QED BY <1>1, <1>2, <1>3, <1>4, <1>5, <1>6 DEF Good, KernelType, Open0

(* A call that changes no descriptor returns what is no read. *)
LEMMA ReturnOK ==
  ASSUME fault # "late", Good, NEW op \in {"L", "D", "M", "I"}, Got(op), UNCHANGED <<cmds, opens, vnode>>,
         call' = NoCall, last'.op # "R"
  PROVE  Good'
<1>0. op \in Kinds \ {"R"} BY DEF Kinds
<1>1. /\ call.op = op /\ cmds' = <<>> /\ wire' = <<>> /\ ring' = <<>>
      /\ UNCHANGED <<fault, running, descs>>
      /\ vnode \in Open0 /\ Positions /\ opens \in [Nodes -> Nat]
      /\ \A m \in Nodes : Safe /\ opens[m] = 1 => Opened(m)
      /\ \A m \in Nodes : ~Underway(m)
  BY <1>0, Received
<1>2. vnode' \in Open0 /\ Positions' BY <1>1 DEF Positions
<1>3. call' \in Call /\ call'.op = "none" /\ call'.op \in Closed BY NoCallAt DEF Closed
<1>4. ReadRight' BY DEF ReadRight
<1>5. Safe => Hand' BY <1>1, <1>3, BackHand
<1>6. Exact => Tidy' BY <1>1, <1>3, BackTidy
<1>. QED BY <1>1, <1>2, <1>3, <1>4, <1>5, <1>6, BackOK

LEMMA LookedUpOK ==
  ASSUME fault # "late", Good, LookedUp PROVE Good'
<1>1. Got("L") /\ UNCHANGED <<cmds, opens, vnode>> BY DEF LookedUp
<1>2. CASE Return(NoCall)
  <2>1. call' = NoCall /\ last'.op # "R" BY <1>2, NoCallAt DEF Return
  <2>. QED BY <1>1, <2>1, ReturnOK
<1>3. CASE ~Return(NoCall)
  <2>0. "L" \in Kinds \ {"R"} BY DEF Kinds
  <2>1. /\ call.op = "L" /\ cmds' = <<>> /\ wire' = <<>> /\ ring' = <<>>
        /\ UNCHANGED <<fault, running, descs>>
        /\ vnode \in Open0 /\ Positions /\ opens \in [Nodes -> Nat]
        /\ Valid => Answer \in Frames /\ Answer.op = "L" /\ Tells(Answer)
        /\ \A m \in Nodes : Safe /\ opens[m] = 1 => Opened(m)
        /\ \A m \in Nodes : ~Underway(m)
    BY <1>1, <2>0, Received
  <2>2. PICK f : f = Answer OBVIOUS
  <2>3. /\ Valid /\ f.op = "L" /\ Tells(f) /\ f.a # 0 /\ last' = last
        /\ call' = [NoCall EXCEPT !.op = "found", !.node = f.node]
    BY <1>3, <2>1, <2>2 DEF LookedUp, Status
  <2>4. PICK n \in Nodes : n = call.node BY <2>1 DEF Good, KernelType
  <2>5. f.node = n BY <2>3, <2>4 DEF Tells
  <2>6. PICK e \in Call : e = NoCall BY NoCallAt
  <2>7. PICK q : q = [e EXCEPT !.op = "found", !.node = n] OBVIOUS
  <2>8. n \in Places /\ "found" \in Closed BY NodesArePlaces DEF Closed
  <2>9. q \in Call /\ q.op = "found" /\ q.node = n BY <2>6, <2>7, <2>8 DEF Call
  <2>10. call' = q BY <2>3, <2>5, <2>6, <2>7
  <2>11. vnode' \in Open0 /\ Positions' BY <1>1, <2>1 DEF Positions
  <2>12. ReadRight' BY <2>1, <2>3 DEF Good, ReadRight
  <2>13. ASSUME Safe PROVE Hand'
    <3>1. Hand /\ opens[n] = 0 BY <2>13, <2>1, <2>4 DEF Good, Hand
    <3>2. \A m \in Nodes : Opened(m)' <=> Opened(m) BY <2>1 DEF Opened, FindByNode
    <3>. QED BY <3>1, <3>2, <2>13, <1>1, <2>1, <2>9, <2>10 DEF Hand
  <2>14. ASSUME Exact PROVE Tidy'
    <3>1. Tidy BY <2>14 DEF Good
    <3>. QED BY <3>1, <1>1, <2>1, <2>9, <2>10 DEF Tidy, Newest
  <2>. QED BY <1>1, <2>1, <2>8, <2>9, <2>10, <2>11, <2>12, <2>13, <2>14, BackOK
<1>. QED BY <1>2, <1>3

LEMMA OpenDoneOK ==
  ASSUME fault # "late", Good, OpenDone PROVE Good'
<1>1. Got("O") /\ cmds' = cmds /\ call' = NoCall /\ last' = NoCall BY DEF OpenDone, Return
<1>2. "O" \in Kinds \ {"R"} BY DEF Kinds
<1>3. /\ call.op = "O" /\ cmds' = <<>> /\ wire' = <<>> /\ ring' = <<>>
      /\ UNCHANGED <<fault, running, descs>>
      /\ vnode \in Open0 /\ Positions /\ opens \in [Nodes -> Nat]
      /\ \/ Valid /\ Answer \in Frames /\ Answer.op = "O" /\ Tells(Answer)
         \/ ~Valid /\ (~Exact \/ Mute)
      /\ \A m \in Nodes : Safe /\ opens[m] = 1 => Opened(m)
      /\ \A m \in Nodes : ~Underway(m) \/ call.node = m
  BY <1>1, <1>2, Received
<1>4. PICK n \in Nodes : n = call.node BY <1>3 DEF Good, KernelType
<1>5. call' \in Call /\ call'.op = "none" /\ call'.op \in Closed BY <1>1, NoCallAt DEF Closed
<1>6. ReadRight' BY <1>1, NoCallAt DEF ReadRight
<1>7. \A m \in Nodes : Opened(m)' <=> Opened(m) BY <1>3 DEF Opened, FindByNode
<1>8. Safe => opens[n] = 0 BY <1>3, <1>4 DEF Good, Hand
<1>9. PICK f : f = Answer OBVIOUS
<1>10. CASE /\ Valid /\ 1 \in Status /\ opens' = [opens EXCEPT ![n] = @ + 1]
            /\ \E s \in NewSize : vnode' = [vnode EXCEPT ![n] = [size |-> s, lseek |-> 0]]
  <2>1. /\ f \in Frames /\ f.op = "O" /\ Tells(f) /\ Status = {f.a}
        /\ NewSize = {f.b}
    BY <1>3, <1>9, <1>10 DEF Status, NewSize
  <2>2. f.a = 1 BY <2>1, <1>10
  <2>3. f.b \in Nat BY <2>1 DEF Frames
  <2>4. n \in Files => f.b = Bytes[n] BY <2>1, <2>2, <1>4 DEF Tells
  <2>5. PICK w \in [size : Nat, lseek : Nat] : w = [size |-> f.b, lseek |-> 0]
    BY <2>3
  <2>6. vnode' = [vnode EXCEPT ![n] = w] BY <2>1, <2>5, <1>10
  <2>7. w.lseek <= w.size /\ (n \in Files => w.size <= Bytes[n])
    <3>1. w.lseek = 0 /\ w.size = f.b BY <2>5
    <3>. QED BY <3>1, <2>3, <2>4
  <2>8. vnode' \in Open0 /\ Positions' BY <1>3, <2>6, <2>7, Moved
  <2>9. opens' \in [Nodes -> Nat]
    <3>1. opens[n] + 1 \in Nat BY <1>3
    <3>. QED BY <3>1, <1>3, <1>10
  <2>12. Safe => opens' = [opens EXCEPT ![n] = 1]
    <3>1. PICK k : k = opens[n] + 1 OBVIOUS
    <3>2. opens' = [opens EXCEPT ![n] = k] BY <3>1, <1>10
    <3>3. Safe => k = 1 BY <3>1, <1>8
    <3>. QED BY <3>2, <3>3
  <2>10. ASSUME Safe PROVE Hand'
    <3>1. Hand BY <2>10 DEF Good
    <3>2. Opened(n) BY <2>1, <2>2, <2>10, <1>4 DEF Tells
    <3>3. opens' = [opens EXCEPT ![n] = 1] BY <2>10, <2>12
    <3>4. opens' \in [Nodes -> {0, 1}] BY <3>1, <3>3 DEF Hand
    <3>5. ASSUME NEW m \in Nodes, opens'[m] = 1 PROVE Opened(m)'
      <4>1. CASE m = n BY <4>1, <3>2, <1>7
      <4>2. CASE m # n BY <4>2, <3>3, <3>5, <1>3, <1>7, <2>10
      <4>. QED BY <4>1, <4>2
    <3>. QED BY <3>1, <3>4, <3>5, <1>3, <1>5 DEF Hand
  <2>11. ASSUME Exact PROVE Tidy'
    <3>1. Tidy BY <2>11 DEF Good
    <3>2. opens' = [opens EXCEPT ![n] = 1] BY <2>11, <2>12, SafeExact
    <3>3. ASSUME NEW i \in DOMAIN descs, descs[i].h >= 0
          PROVE  Newest(i) /\ descs[i].node \in Nodes /\ opens'[descs[i].node] = 1
      <4>1. Newest(i) /\ descs[i].node \in Nodes BY <3>1, <3>3 DEF Tidy
      <4>2. opens[descs[i].node] = 1 \/ descs[i].node = n
        BY <3>1, <3>3, <4>1, <1>3, <1>4 DEF Tidy
      <4>. QED BY <4>1, <4>2, <3>2, <1>3
    <3>. QED BY <3>1, <3>3, <1>3, <1>5 DEF Tidy, Newest
  <2>. QED BY <1>3, <1>5, <1>6, <2>8, <2>9, <2>10, <2>11, BackOK
<1>11. CASE /\ Valid => 0 \in Status \/ opens[n] = MaxOpens
            /\ vnode' = Released(n, vnode) /\ opens' = opens
  <2>1. vnode' \in Open0 /\ Positions' BY <1>3, <1>11, Freed DEF Released
  <2>2. Safe => Hand' BY <1>3, <1>5, <1>11, BackHand
  <2>3. ASSUME Exact PROVE Tidy'
    <3>1. Tidy /\ Safe BY <2>3, SafeExact DEF Good
    <3>2. ASSUME Valid PROVE ~Opened(n)
      <4>1. f.op = "O" /\ Tells(f) /\ Status = {f.a} BY <1>3, <1>9, <3>2 DEF Status
      <4>2. opens[n] # MaxOpens BY <1>8, <3>1, RemoteAssumption
      <4>3. f.a # 1 BY <4>1, <4>2, <3>2, <1>11
      <4>. QED BY <4>1, <4>3, <3>1, <1>4 DEF Tells
    <3>3. ASSUME ~Valid PROVE ~Opened(n) BY <3>3, <1>3, <2>3, NoneOpened DEF Mute
    <3>4. ~Opened(n) BY <3>2, <3>3
    <3>5. ASSUME NEW i \in DOMAIN descs, descs[i].h >= 0 PROVE descs[i].node # n
      <4>1. Newest(i) BY <3>1, <3>5 DEF Tidy
      <4>. QED BY <4>1, <3>4, <3>5 DEF Newest, FindByNode, Opened
    <3>6. ASSUME NEW i \in DOMAIN descs, descs[i].h >= 0
          PROVE  Newest(i) /\ descs[i].node \in Nodes /\ opens[descs[i].node] = 1
      <4>1. Newest(i) /\ descs[i].node \in Nodes BY <3>1, <3>6 DEF Tidy
      <4>. QED BY <4>1, <3>1, <3>5, <3>6, <1>3, <1>4 DEF Tidy
    <3>. QED BY <3>1, <3>6, <1>3, <1>5, <1>11 DEF Tidy, Newest
  <2>. QED BY <1>3, <1>5, <1>6, <1>11, <2>1, <2>2, <2>3, BackOK
<1>. QED BY <1>4, <1>10, <1>11 DEF OpenDone

LEMMA CloseDoneOK ==
  ASSUME fault # "late", Good, CloseDone PROVE Good'
<1>1. /\ Got("C") /\ cmds' = cmds /\ call' = NoCall /\ last' = NoCall
  BY DEF CloseDone, Return
<1>2. "C" \in Kinds \ {"R"} BY DEF Kinds
<1>3. /\ call.op = "C" /\ cmds' = <<>> /\ wire' = <<>> /\ ring' = <<>>
      /\ UNCHANGED <<fault, running, descs>>
      /\ vnode \in Open0 /\ Positions /\ opens \in [Nodes -> Nat]
      /\ \A m \in Nodes : Safe /\ opens[m] = 1 => Opened(m) \/ call.node = m
      /\ \A m \in Nodes : ~Underway(m)
  BY <1>1, <1>2, Received
<1>4. PICK n \in Nodes : n = call.node BY <1>3 DEF Good, KernelType
<1>5. call' \in Call /\ call'.op = "none" /\ call'.op \in Closed BY <1>1, NoCallAt DEF Closed
<1>6. ReadRight' BY <1>1, NoCallAt DEF ReadRight
<1>7. opens' = [opens EXCEPT ![n] = @ - 1] BY <1>4 DEF CloseDone
<1>8. opens[n] > 0 BY <1>3, <1>4 DEF Good, KernelType
<1>9. opens' \in [Nodes -> Nat]
  <2>1. opens[n] - 1 \in Nat BY <1>3, <1>8
  <2>. QED BY <2>1, <1>3, <1>7
<1>10. vnode' \in Open0 /\ Positions' BY <1>3, <1>4, Freed DEF CloseDone
<1>11. ASSUME Safe PROVE Hand' /\ opens' = [opens EXCEPT ![n] = 0]
  <2>1. Hand /\ opens[n] = 1 BY <1>11, <1>3, <1>4 DEF Good, Hand
  <2>2. opens' = [opens EXCEPT ![n] = 0] BY <2>1, <1>7
  <2>3. opens' \in [Nodes -> {0, 1}] BY <2>1, <2>2 DEF Hand
  <2>4. \A m \in Nodes : Opened(m)' <=> Opened(m) BY <1>3 DEF Opened, FindByNode
  <2>5. ASSUME NEW m \in Nodes, opens'[m] = 1 PROVE Opened(m)'
    <3>1. m # n /\ opens[m] = 1 BY <2>5, <2>2, <1>3
    <3>. QED BY <3>1, <2>4, <1>3, <1>4, <1>11
  <2>. QED BY <2>1, <2>2, <2>3, <2>5, <1>3, <1>5 DEF Hand
<1>12. ASSUME Exact PROVE Tidy'
  <2>1. Tidy /\ opens' = [opens EXCEPT ![n] = 0] BY <1>12, <1>11, SafeExact DEF Good
  <2>2. cmds = <<>> BY <1>1, <1>3
  <2>3. ASSUME NEW i \in DOMAIN descs, descs[i].h >= 0
        PROVE  Newest(i) /\ descs[i].node \in Nodes /\ opens'[descs[i].node] = 1
    <3>1. Newest(i) /\ descs[i].node \in Nodes /\ opens[descs[i].node] = 1
      BY <2>1, <2>3, <1>3 DEF Tidy
    <3>2. descs[i].node # n BY <2>1, <2>2, <2>3, <1>3, <1>4 DEF Tidy
    <3>. QED BY <3>1, <3>2, <2>1, <1>3
  <2>. QED BY <2>1, <2>3, <1>3, <1>5 DEF Tidy, Newest
<1>. QED BY <1>3, <1>5, <1>6, <1>9, <1>10, <1>11, <1>12, BackOK

LEMMA GetdentsDoneOK ==
  ASSUME fault # "late", Good, GetdentsDone PROVE Good'
<1>1. Got("D") /\ UNCHANGED <<cmds, opens, vnode>> /\ call' = NoCall
      /\ \E s : last' = [call EXCEPT !.data = <<s>>]
  BY DEF GetdentsDone, Return
<1>2. "D" \in Kinds \ {"R"} BY DEF Kinds
<1>3. call.op = "D" /\ call \in Call BY <1>1, <1>2, Received
<1>4. last'.op = "D" BY <1>1, <1>3 DEF Call
<1>. QED BY <1>1, <1>4, ReturnOK

LEMMA MkdirDoneOK ==
  ASSUME fault # "late", Good, MkdirDone PROVE Good'
<1>1. Got("M") /\ UNCHANGED <<cmds, opens, vnode>> /\ call' = NoCall
      /\ \E s : last' = [call EXCEPT !.data = <<s>>]
  BY DEF MkdirDone, Return
<1>2. "M" \in Kinds \ {"R"} BY DEF Kinds
<1>3. call.op = "M" /\ call \in Call BY <1>1, <1>2, Received
<1>4. last'.op = "M" BY <1>1, <1>3 DEF Call
<1>. QED BY <1>1, <1>4, ReturnOK

LEMMA MountDoneOK ==
  ASSUME fault # "late", Good, MountDone PROVE Good'
<1>1. Got("I") /\ UNCHANGED <<cmds, opens, vnode>> BY DEF MountDone
<1>2. CASE Valid
  <2>1. call' = NoCall /\ last'.op # "R" BY <1>2, NoCallAt DEF MountDone, Return
  <2>. QED BY <1>1, <2>1, ReturnOK
<1>3. CASE ~Valid
  <2>1. "I" \in Kinds \ {"R"} BY DEF Kinds
  <2>2. /\ call.op = "I" /\ cmds' = <<>> /\ wire' = <<>> /\ ring' = <<>>
        /\ UNCHANGED <<fault, running, descs>>
        /\ vnode \in Open0 /\ Positions /\ opens \in [Nodes -> Nat] /\ ~Exact
    BY <1>1, <1>3, <2>1, Received DEF Mute
  <2>3. PICK e \in Call : e = NoCall BY NoCallAt
  <2>4. PICK q : q = [e EXCEPT !.op = "failed"] OBVIOUS
  <2>5. "failed" \in Closed BY DEF Closed
  <2>6. q \in Call /\ q.op = "failed" BY <2>3, <2>4, <2>5 DEF Call
  <2>7. call' = q /\ last' = last BY <1>3, <2>3, <2>4 DEF MountDone
  <2>8. vnode' \in Open0 /\ Positions' BY <1>1, <2>2 DEF Positions
  <2>9. ReadRight' BY <2>2, <2>7 DEF Good, ReadRight
  <2>10. ASSUME Safe PROVE Hand'
    <3>1. Hand BY <2>10 DEF Good
    <3>2. \A m \in Nodes : Opened(m)' <=> Opened(m) BY <2>2 DEF Opened, FindByNode
    <3>. QED BY <3>1, <3>2, <1>1, <2>2, <2>6, <2>7 DEF Hand
  <2>. QED BY <1>1, <2>2, <2>5, <2>6, <2>7, <2>8, <2>9, <2>10, BackOK
<1>. QED BY <1>2, <1>3

(* The head of an answer with data. *)
LEMMA HeadDoneOK ==
  ASSUME fault # "late", Good, HeadDone PROVE Good'
<1>0. KernelType /\ Line /\ Positions /\ Reads /\ ReadRight BY DEF Good
<1>1. /\ call.op = "R" /\ Take /\ (Enough \/ Expired)
      /\ UNCHANGED <<fault, wire, running, descs, opens, vnode, cmds>>
  BY DEF HeadDone, Got, daemon
<1>2. Want = 1 BY <1>1 DEF Want
<1>3. /\ call \in Call /\ call.node \in Nodes /\ vnode \in Open0 /\ opens \in [Nodes -> Nat]
  BY <1>0, <1>1 DEF KernelType, CallType, Call, Open0
<1>4. vnode' \in Open0 /\ Positions' BY <1>0, <1>1, <1>3 DEF Positions
<1>5. \A m \in Nodes : Safe /\ opens[m] = 1 => Opened(m) BY <1>1 DEF Good, Hand
<1>6. \A m \in Nodes : ~Underway(m) BY <1>1 DEF Underway
<1>7. AnswerLen["R"] \in Nat /\ AnswerLen["R"] > 0 /\ RFS_MAX_READ \in Nat
  BY RemoteAssumption DEF Kinds
<1>8. CASE Asking
  <2>1. cmds # <<>> /\ running /\ Len(ring) = 0 BY <1>8 DEF Asking, Sent
  <2>. QED BY <1>0, <1>1, <1>2, <2>1 DEF Enough, Expired
<1>9. CASE Lost
  <2>1. Len(ring) = 0 /\ cmds' = <<>> /\ wire' = <<>> BY <1>9, <1>1 DEF Lost, Silent
  <2>2. ~Enough BY <2>1, <1>2 DEF Enough
  <2>3. ring' = <<>> BY <2>2, <1>1 DEF Take
  <2>4. call' = NoCall /\ last' = call BY <2>2 DEF HeadDone, Return
  <2>5. call' \in Call /\ call'.op = "none" /\ call'.op \in Closed BY <2>4, NoCallAt DEF Closed
  <2>6. ~Exact
    <3>1. SUFFICES ASSUME Exact PROVE FALSE OBVIOUS
    <3>2. Hand /\ fault # "noise" BY <3>1, SafeExact DEF Good, Exact
    <3>3. descs = <<>> BY <3>2, <1>9 DEF Lost, Mute, Hand
    <3>4. Opened(call.node) BY <3>2, <1>1, <1>3 DEF Hand
    <3>. QED BY <3>3, <3>4, <1>3, NoneOpened
  <2>7. ReadRight'
    <3>1. Len(call.data) < call.count /\ Content(call.node, call.start, call.data)
      BY <1>0, <1>1 DEF Reads
    <3>2. Len(call.data) <= call.count BY <3>1, <1>0, <1>1, ReadFacts
    <3>. QED BY <3>1, <3>2, <2>4, <2>6, <1>1, SafeExact DEF ReadRight, Content, Exact
  <2>8. Safe => Hand' BY <1>1, <1>5, <2>5, BackHand
  <2>. QED BY <1>1, <1>3, <1>4, <2>1, <2>3, <2>5, <2>6, <2>7, <2>8, BackOK
<1>10. CASE Answering
  <2>1. PICK f \in Frames : call.op = f.op /\ Came(f) /\ Tells(f) BY <1>10 DEF Answering
  <2>2. PICK b \in Nat : b = f.b BY DEF Frames
  <2>3. f.len = AnswerLen["R"] + b BY <2>1, <2>2, <1>1 DEF Tells
  <2>4. f.len \in Nat /\ f.len > 0 BY <2>3, <1>7, <2>2
  <2>5. b <= RFS_MAX_READ
    <3>1. b = 0 \/ b = Clip(Remaining, RFS_MAX_READ) BY <2>1, <2>2, <1>1 DEF Tells
    <3>. QED BY <3>1, <1>0, <1>1, <1>7, ReadFacts
  <2>6. Len(Whole(f)) = f.len BY WholeFrame
  <2>7. wire = <<>> /\ ring = Whole(f) /\ cmds = <<>>
    <3>1. CASE wire = Whole(f) /\ ring = <<>>
      <4>1. wire # <<>> /\ Len(ring) = 0 BY <3>1, <2>4, <2>6
      <4>. QED BY <4>1, <1>1, <1>2 DEF Enough, Expired
    <3>. QED BY <3>1, <2>1 DEF Came
  <2>8. Enough BY <2>7, <2>6, <2>4, <1>2 DEF Enough
  <2>9. ring' = Behind(f)
    <3>1. ring' = SubSeq(Whole(f), 2, f.len) BY <2>8, <2>7, <2>6, <1>1, <1>2 DEF Take
    <3>. QED BY <3>1, <2>4, WholeFrame
  <2>10. ring[1] = <<f, 1>>
    <3>1. 1 \in 1..f.len BY <2>4
    <3>. QED BY <3>1, <2>7, WholeFrame
  <2>11. Answer = f /\ ring[1][2] = 1 /\ ring[1][1] = f BY <2>10 DEF Answer
  <2>12. f.len <= AnswerLen["R"] + RFS_MAX_READ BY <2>3, <2>5, <2>2, <1>7
  <2>13. /\ call' = [op |-> "body", node |-> call.node, start |-> call.start,
                     count |-> call.count, data |-> call.data, rest |-> f.len - 1, frame |-> f]
         /\ last' = last
    BY <2>8, <2>11, <2>12 DEF HeadDone
  <2>14. f.len - 1 \in Nat BY <2>4
  <2>15. /\ call' \in [op : {"body"}, node : Places, start : Nat, count : Nat, data : Fetches,
                       rest : Nat, frame : Frames]
         /\ call'.op = "body" /\ call'.node = call.node /\ call'.start = call.start
         /\ call'.count = call.count /\ call'.data = call.data
         /\ call'.rest = f.len - 1 /\ call'.frame = f
    BY <2>13, <2>14, <1>3 DEF Call
  <2>16. KernelType' BY <1>0, <1>1, <1>3, <2>15 DEF KernelType, CallType
  <2>17. Remaining' = Remaining BY <2>15 DEF Remaining
  <2>18. Tells(f)'
    BY <2>1, <2>15, <2>17, <1>1 DEF Tells, Safe, Opened, FindByNode
  <2>19. HalfTaken'
    <3>1. ring' = Behind(call'.frame) BY <2>9, <2>15
    <3>. QED BY <3>1, <2>1, <2>7, <2>15, <2>18, <1>1 DEF HalfTaken, Behind
  <2>20. Line' BY <2>19 DEF Line
  <2>21. Reads' BY <1>0, <1>1, <2>15 DEF Reads, Content
  <2>22. ReadRight' BY <1>0, <1>1, <2>13 DEF ReadRight
  <2>23. ASSUME Safe PROVE Hand'
    <3>1. Hand BY <2>23 DEF Good
    <3>2. \A m \in Nodes : Opened(m)' <=> Opened(m) BY <1>1 DEF Opened, FindByNode
    <3>. QED BY <3>1, <3>2, <1>1, <2>15 DEF Hand
  <2>24. ASSUME Exact PROVE Tidy'
    <3>1. Tidy BY <2>24 DEF Good
    <3>. QED BY <3>1, <1>1, <2>15 DEF Tidy, Newest, Underway
  <2>. QED BY <1>1, <1>4, <2>16, <2>20, <2>21, <2>22, <2>23, <2>24, SafeExact DEF Good
<1>. QED BY <1>0, <1>1, <1>8, <1>9, <1>10 DEF Line, Closed, HalfTaken

(* Its data. *)
LEMMA DataOf ==
  ASSUME NEW f \in Frames, f.op = "R", f.len = AnswerLen["R"] + f.b, f.a \in Nat,
         f.node \in Files, f.a + f.b <= Bytes[f.node]
  PROVE  /\ Data(f) \in Fetches /\ Len(Data(f)) = f.b
         /\ \A k \in 1..f.b : Data(f)[k] = <<f.node, f.a + k - 1>>
<1>1. PICK b \in Nat : b = f.b BY DEF Frames
<1>2. PICK a \in Nat : a = f.a OBVIOUS
<1>3. PICK n \in Places : n = f.node BY DEF Frames
<1>4. AnswerLen["R"] \in Nat BY RemoteAssumption DEF Kinds
<1>5. f.len - AnswerLen["R"] = b BY <1>1, <1>4
<1>6. Bytes[n] \in Nat /\ a + b <= Bytes[n] BY <1>1, <1>2, <1>3, RemoteAssumption DEF Nodes
<1>7. PICK d : d = Data(f) OBVIOUS
<1>8. d = [k \in 1..b |-> IF a + k <= Bytes[n] THEN <<n, a + k - 1>> ELSE <<Root, 0>>]
  BY <1>1, <1>2, <1>3, <1>5, <1>7 DEF Data
<1>9. \A k \in 1..b : d[k] = <<n, a + k - 1>> BY <1>6, <1>8
<1>10. \A k \in 1..b : d[k] \in Places \X Nat
  <2>1. ASSUME NEW k \in 1..b PROVE d[k] \in Places \X Nat
    <3>1. PICK j : j = a + k - 1 OBVIOUS
    <3>2. j \in Nat BY <3>1
    <3>3. d[k] = <<n, j>> BY <3>1, <1>9
    <3>. QED BY <3>2, <3>3
  <2>. QED BY <2>1
<1>11. d \in [1..b -> Places \X Nat] BY <1>8, <1>10
<1>12. d \in Seq(Places \X Nat) /\ Len(d) = b BY <1>11
<1>. QED BY <1>1, <1>2, <1>3, <1>7, <1>9, <1>12 DEF Fetches

LEMMA BodyDoneOK ==
  ASSUME fault # "late", Good, BodyDone PROVE Good'
<1>0. KernelType /\ Line /\ Positions /\ Reads /\ ReadRight BY DEF Good
<1>1. /\ call.op = "body" /\ Take /\ (Enough \/ Expired)
      /\ UNCHANGED <<fault, wire, running, descs, opens>>
  BY DEF BodyDone, Got, daemon
<1>2. HalfTaken BY <1>0, <1>1 DEF Line, Closed, Kinds, Asking, Answering, Lost, Frames
<1>3. call \in [op : {"body"}, node : Places, start : Nat, count : Nat, data : Fetches,
                rest : Nat, frame : Frames]
  BY <1>0, <1>1 DEF KernelType, CallType, Kinds, Closed
<1>4. PICK f \in Frames : f = call.frame BY <1>3
<1>5. /\ f.op = "R" /\ call.rest = f.len - 1 /\ cmds = <<>> /\ wire' = <<>> /\ ring = Behind(f)
      /\ Tells(f)
  BY <1>1, <1>2, <1>4 DEF HalfTaken
<1>6. PICK b \in Nat : b = f.b BY DEF Frames
<1>7. AnswerLen["R"] \in Nat /\ AnswerLen["R"] > 0 BY RemoteAssumption DEF Kinds
<1>8. f.len = AnswerLen["R"] + b /\ f.len \in Nat /\ f.len > 0 BY <1>5, <1>6, <1>7 DEF Tells
<1>9. Len(ring) = f.len - 1 /\ SubSeq(ring, f.len, f.len - 1) = <<>> BY <1>5, <1>8, BehindFrame
<1>10. Want = f.len - 1 BY <1>1, <1>5 DEF Want
<1>11. Enough BY <1>1, <1>8, <1>9, <1>10 DEF Enough, Expired
<1>12. ring' = <<>>
  <2>1. (f.len - 1) + 1 = f.len BY <1>8
  <2>2. ring' = SubSeq(ring, f.len, f.len - 1) BY <1>1, <1>9, <1>10, <1>11, <2>1 DEF Take
  <2>. QED BY <2>2, <1>9
<1>13. PICK c : c = Reading OBVIOUS
<1>14. "R" \in Kinds BY DEF Kinds
<1>15. /\ c \in Call /\ c.op = "R" /\ c.node = call.node /\ c.start = call.start
       /\ c.count = call.count /\ c.data = call.data
  BY <1>3, <1>13, <1>14 DEF Call, Reading
<1>16. /\ call.node \in Nodes /\ call.node \in Files /\ vnode \in Open0
       /\ Remaining \in Nat /\ Clip(Remaining, RFS_MAX_READ) <= Remaining
  BY <1>0, <1>1, ReadFacts DEF Open0
<1>17. PICK n \in Nodes : n = call.node BY <1>16
<1>18. PICK v \in [size : Nat, lseek : Nat] : v = vnode[n] BY <1>16, <1>17 DEF Open0
<1>19. /\ v.lseek = call.start + Len(call.data) /\ call.start + call.count <= v.size
       /\ Len(call.data) < call.count /\ Content(n, call.start, call.data)
  BY <1>0, <1>1, <1>17, <1>18 DEF Reads
<1>20. v.lseek <= v.size /\ v.size <= Bytes[n] /\ n \in Files BY <1>0, <1>16, <1>17, <1>18 DEF Positions
<1>21. \A m \in Nodes : Safe /\ opens[m] = 1 => Opened(m) BY <1>1 DEF Good, Hand
<1>22. \A m \in Nodes : ~Underway(m) BY <1>1 DEF Underway
<1>23. opens \in [Nodes -> Nat] BY <1>0 DEF KernelType
<1>24. Safe => opens[n] = 1 BY <1>1, <1>17 DEF Good, Hand
<1>25. PICK s \in Nat : s = call.start BY <1>3
<1>26. PICK x \in Fetches : x = call.data BY <1>3
<1>27. PICK l \in Nat : l = Len(x) BY <1>26 DEF Fetches
<1>28. PICK k \in Nat : k = call.count BY <1>3
<1>29. v.lseek \in Nat /\ v.size \in Nat BY <1>18
<1>30. CASE b = 0
  <2>0. f.len <= AnswerLen["R"] BY <1>7, <1>8, <1>30
  <2>1. Fetched = <<>> BY <2>0, <1>4 DEF Fetched
  <2>2. call' = NoCall /\ last' = c /\ vnode' = vnode /\ cmds' = cmds
    BY <2>1, <1>13 DEF BodyDone, Return
  <2>3. ~Safe /\ ~Exact BY <1>5, <1>6, <1>30, SafeExact DEF Tells
  <2>4. call' \in Call /\ call'.op = "none" /\ call'.op \in Closed BY <2>2, NoCallAt DEF Closed
  <2>5. Len(c.data) <= c.count BY <1>15, <1>19, <1>26, <1>27, <1>28
  <2>6. ReadRight' BY <2>2, <2>3, <2>5, <1>1, <1>15, <1>17, <1>19, SafeExact DEF ReadRight, Content, Exact
  <2>7. vnode' \in Open0 /\ Positions' BY <2>2, <1>0, <1>16 DEF Positions
  <2>. QED BY <1>1, <1>5, <1>12, <1>23, <2>2, <2>3, <2>4, <2>6, <2>7, BackOK
<1>31. CASE b > 0
  <2>1. f.node = n /\ f.a = v.lseek /\ b = Clip(Remaining, RFS_MAX_READ) /\ b <= Remaining
    BY <1>5, <1>6, <1>16, <1>17, <1>18, <1>31 DEF Tells
  <2>2. b <= k - l BY <2>1, <1>26, <1>27, <1>28 DEF Remaining
  <2>3. f.a \in Nat /\ f.a + f.b <= Bytes[f.node] /\ f.node \in Files
    <3>1. v.lseek = s + l /\ s + k <= v.size BY <1>19, <1>25, <1>26, <1>27, <1>28
    <3>2. Bytes[n] \in Nat BY RemoteAssumption
    <3>3. v.lseek + b <= Bytes[n] BY <3>1, <3>2, <2>2, <1>20, <1>29
    <3>. QED BY <3>3, <2>1, <1>6, <1>20, <1>29
  <2>4. PICK d \in Fetches : d = Data(f) /\ Len(d) = b
                             /\ \A i \in 1..b : d[i] = <<n, v.lseek + i - 1>>
    BY <2>1, <2>3, <1>5, <1>6, <1>8, DataOf
  <2>5. Fetched = d BY <2>4, <1>4, <1>6, <1>7, <1>8, <1>31 DEF Fetched
  <2>6. d # <<>> BY <2>4, <1>31
  <2>7. PICK at \in Nat : at = v.lseek + b BY <1>29
  <2>8. PICK y : y = x \o d OBVIOUS
  <2>9. y \in Fetches /\ Len(y) = l + b BY <2>8, <2>4, <1>26, <1>27 DEF Fetches
  <2>10. PICK e : e = [c EXCEPT !.data = y] OBVIOUS
  <2>11. /\ e \in Call /\ e.op = "R" /\ e.node = n /\ e.start = s /\ e.count = k /\ e.data = y
    BY <2>9, <2>10, <1>15, <1>17, <1>25, <1>28 DEF Call
  <2>12. vnode' = [vnode EXCEPT ![n].lseek = at] /\ Chunk(e, at)
    BY <2>4, <2>5, <2>6, <2>7, <2>8, <2>10, <1>11, <1>13, <1>15, <1>17, <1>18, <1>26 DEF BodyDone
  <2>13. PICK w : w = [v EXCEPT !.lseek = at] OBVIOUS
  <2>14. w \in [size : Nat, lseek : Nat] /\ w.lseek = at /\ w.size = v.size BY <2>13, <1>18
  <2>15. vnode' = [vnode EXCEPT ![n] = w] BY <2>12, <2>13, <1>18
  <2>16. v.lseek = s + l /\ s + k <= v.size BY <1>19, <1>25, <1>26, <1>27, <1>28
  <2>17. at <= v.size /\ at = s + (l + b) /\ l + b <= k BY <2>2, <2>7, <2>16, <1>29
  <2>18. vnode' \in Open0 /\ Positions' /\ vnode'[n] = w
    BY <2>14, <2>15, <2>17, <1>0, <1>16, <1>20, Moved
  <2>19. Content(n, s, y)
    <3>1. ASSUME NEW i \in 1..(l + b) PROVE y[i] = <<n, s + i - 1>>
      <4>1. CASE i <= l
        <5>1. i \in 1..l BY <4>1
        <5>2. y[i] = x[i] BY <5>1, <2>8, <2>4, <1>26, <1>27 DEF Fetches
        <5>3. i \in DOMAIN x BY <5>1, <1>26, <1>27 DEF Fetches
        <5>. QED BY <5>2, <5>3, <1>19, <1>25, <1>26 DEF Content
      <4>2. CASE ~(i <= l)
        <5>1. PICK j : j = i - l OBVIOUS
        <5>2. j \in 1..b BY <5>1, <4>2
        <5>3. y[i] = d[j] BY <5>1, <5>2, <4>2, <2>8, <2>4, <1>26, <1>27 DEF Fetches
        <5>4. d[j] = <<n, v.lseek + j - 1>> BY <5>2, <2>4
        <5>5. v.lseek + j - 1 = s + i - 1 BY <5>1, <5>2, <2>16
        <5>. QED BY <5>3, <5>4, <5>5
      <4>. QED BY <4>1, <4>2
    <3>2. DOMAIN y = 1..(l + b) BY <2>9 DEF Fetches
    <3>. QED BY <3>1, <3>2 DEF Content
  <2>20. /\ e.node \in Files /\ vnode'[e.node].lseek = at /\ at = e.start + Len(e.data)
         /\ Len(e.data) <= e.count /\ e.start + e.count <= vnode'[e.node].size
         /\ Content(e.node, e.start, e.data)
    BY <2>9, <2>11, <2>14, <2>16, <2>17, <2>18, <2>19, <1>20
  <2>. QED BY <1>1, <1>5, <1>12, <1>21, <1>22, <1>24, <2>11, <2>12, <2>18, <2>20, ChunkOK
<1>. QED BY <1>30, <1>31

-----------------------------------------------------------------------------
(* The invariant and what follows from it.                                 *)

LEMMA NextInv == Inv /\ [Next]_vars => Inv'
<1>. SUFFICES ASSUME Inv, [Next]_vars PROVE Inv' OBVIOUS
<1>1. fault' = fault
  BY DEF Next, vars, kernel, daemon, Daemon, ServeLookup, ServeOpen, ServeClose, ServeGetdents,
     ServeRead, ServeMkdir, ServeReset, Ignore, Reject, Serve, Arrive, Kernel, LookedUp, OpenDone,
     CloseDone, GetdentsDone, MkdirDone, HeadDone, BodyDone, MountDone, Got, Found, Drop, Open,
     Begin, Reboot, Lookup, Mkdir, Close, Getdents, Fork, Lseek, Read
<1>2. SUFFICES ASSUME fault # "late", Good PROVE Good' BY <1>1 DEF Inv
<1>3. CASE UNCHANGED vars
  BY <1>2, <1>3, SMTT(30) DEF vars, kernel, daemon, Good, KernelType, CallType, Line, Silent, Asking, Sent,
     Asks, Remaining, Answering, Came, Tells, Opened, FindByNode, Safe, Exact, Mute, Lost, HalfTaken,
     Positions, Reads, Content, ReadRight, Hand, Tidy, Newest, Underway, Whole, Behind
<1>4. CASE Daemon BY <1>2, <1>4, DaemonOK
<1>5. CASE Arrive BY <1>2, <1>5, ArriveOK
<1>6. CASE Kernel
  BY <1>2, <1>6, LookedUpOK, OpenDoneOK, CloseDoneOK, GetdentsDoneOK, MkdirDoneOK, HeadDoneOK,
     BodyDoneOK, MountDoneOK DEF Kernel
<1>7. CASE Found BY <1>2, <1>7, DropOK, OpenOK DEF Found
<1>8. CASE Reboot BY <1>2, <1>8, RebootOK
<1>9. ASSUME NEW n \in Nodes, Lookup(n) \/ Mkdir(n) \/ Close(n) \/ Getdents(n) \/ Fork(n)
      PROVE  Good'
  BY <1>2, <1>9, LookupOK, MkdirOK, CloseOK, GetdentsOK, ForkOK
<1>10. ASSUME NEW n \in Nodes, NEW k \in 0..MaxCount, Lseek(n, k) \/ Read(n, k) PROVE Good'
  <2>1. k \in Nat OBVIOUS
  <2>. QED BY <1>2, <1>10, <2>1, LseekOK, ReadOK
<1>. QED BY <1>3, <1>4, <1>5, <1>6, <1>7, <1>8, <1>9, <1>10 DEF Next

LEMMA InitInv == Init => Inv
<1>. SUFFICES ASSUME Init PROVE Good BY DEF Inv
<1>1. /\ opens = [n \in Nodes |-> 0] /\ vnode = [n \in Nodes |-> Fresh] /\ running = TRUE
      /\ call = NoCall /\ last = NoCall /\ ring = <<>> /\ cmds = <<>> /\ wire = <<>>
      /\ fault \in Faults /\ descs = <<[node |-> Root, h |-> -1]>>
  BY DEF Init
<1>2. call \in Call /\ call.op = "none" /\ last.op = "none" BY <1>1, NoCallAt
<1>3. \A n \in Nodes : opens[n] = 0 /\ vnode[n] = Fresh BY <1>1
<1>4. vnode \in [Nodes -> [size : Nat, lseek : Nat]] BY <1>1, FreshAt
<1>5. opens \in [Nodes -> Nat] /\ opens \in [Nodes -> {0, 1}] BY <1>1
<1>6. descs \in Seq([node : Places, h : Int]) /\ \A i \in DOMAIN descs : descs[i].h = -1
  <2>0. [node |-> Root, h |-> -1] \in [node : Places, h : Int] BY DEF Places
  <2>1. PICK d \in [node : Places, h : Int] : d = [node |-> Root, h |-> -1] BY <2>0
  <2>2. PICK T : T = [node : Places, h : Int] OBVIOUS
  <2>3. PICK s : s = <<d>> OBVIOUS
  <2>4. s \in Seq(T) BY <2>1, <2>2, <2>3
  <2>5. DOMAIN s = {1} /\ s[1] = d /\ d.h = -1 BY <2>1, <2>3
  <2>. QED BY <2>1, <2>2, <2>3, <2>4, <2>5, <1>1
<1>7. KernelType BY <1>1, <1>2, <1>4, <1>5, <1>6 DEF KernelType, CallType, Call
<1>8. Line BY <1>1, <1>2 DEF Line, Silent, Closed
<1>9. Positions
  <2>1. \A n \in Files : n \in Nodes /\ Bytes[n] \in Nat BY RemoteAssumption DEF Nodes
  <2>. QED BY <2>1, <1>3, FreshAt DEF Positions
<1>10. Reads /\ ReadRight BY <1>2 DEF Reads, ReadRight
<1>11. Hand BY <1>1, <1>2, <1>3, <1>5 DEF Hand
<1>12. Tidy BY <1>2, <1>6 DEF Tidy
<1>. QED BY <1>7, <1>8, <1>9, <1>10, <1>11, <1>12 DEF Good

\* The invariant holds in every state: with any fault but late answers, what
\* is on the line belongs to the call in progress.
THEOREM RemoteInvariance == Spec => []Inv
BY InitInv, NextInv, PTL DEF Spec

\* As long as nobody looks up what is open and no answer is late, the daemon
\* lives and holds a handle for every open descriptor, whatever frames are
\* lost and however often the kernel starts again.
THEOREM HandleHeldAlways == Spec => []HandleHeld
<1>1. Inv => HandleHeld
  <2>1. ASSUME Inv, Safe PROVE running /\ \A n \in Nodes : opens[n] > 0 => Opened(n) \/ call.op = "C"
    <3>1. Hand BY <2>1 DEF Inv, Good, Safe
    <3>. QED BY <3>1 DEF Hand
  <2>. QED BY <2>1 DEF HandleHeld, Safe
<1>. QED BY <1>1, RemoteInvariance, PTL

\* If nothing is lost, the daemon keeps no handle that the kernel has given
\* up, over any number of opens, closes and resets.
THEOREM NoHandleLeftAlways == Spec => []NoHandleLeft
<1>1. Inv => NoHandleLeft
  <2>1. ASSUME Inv, Exact, call.op = "none", NEW i \in DOMAIN descs, descs[i].h >= 0
        PROVE  opens[descs[i].node] > 0
    <3>1. Tidy BY <2>1 DEF Inv, Good, Exact
    <3>. QED BY <3>1, <2>1 DEF Tidy, Underway
  <2>. QED BY <2>1 DEF NoHandleLeft, Exact
<1>. QED BY <1>1, RemoteInvariance, PTL

\* What a read returns is what the file has from the position on, in however
\* many answers it came; without lost frames or sharing it is all of it.
THEOREM ReadRightAlways == Spec => []ReadRight
<1>1. Inv => ReadRight BY DEF Inv, Good, ReadRight
<1>. QED BY <1>1, RemoteInvariance, PTL
=============================================================================
