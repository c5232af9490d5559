----------------------------- MODULE VfsProofs -----------------------------
(***************************************************************************)
(* Proofs about Vfs, for everything its clients may do.  A table of vnodes *)
(* and the references to it balance when no vnode counts less than the     *)
(* places that refer to it, and exactly as many where nothing leaks.       *)
(* Every operation moves references one at a time, and VN_HOLD and VN_RELE *)
(* keep the balance; so no vnode in use is ever free, and without a leak   *)
(* the counts are exact.                                                   *)
(***************************************************************************)
EXTENDS Vfs, FiniteSetTheorems, TLAPS

W == <<"walk", 0>>
NodeOrNone == Nodes \cup {NoNode}
RefMap == [RefSlots -> NodeOrNone]
Table == [Nodes -> VnodeType]

RefTo(R, v) == {h \in RefSlots : R[h] = v}

\* Only processes that have stopped are killed.
Calm == "running" \notin Allowed

\* No process leaves a directory and nothing is mounted after the boot.
Exact == Calm /\ "leave" \notin Allowed /\ "mount" \notin Allowed

\* No reference is missing in the count of a vnode; only leaving a directory,
\* mounting and killing a process that still runs leave some that are gone.
Balanced(n, R) ==
  \A v \in Nodes : /\ n[v].count >= Cardinality(RefTo(R, v))
                   /\ Exact => n[v].count = Cardinality(RefTo(R, v))
                   /\ n[v].list = 0 => n[v].count = 0

-----------------------------------------------------------------------------
(* References as a finite function.                                        *)

LEMMA RefSlotsFinite == IsFiniteSet(RefSlots)
<1>1. IsFiniteSet(Users) BY VfsAssumption
<1>2. IsFiniteSet(Procs) BY <1>1, FS_AddElement DEF Procs
<1>3. IsFiniteSet(Fds)
  <2>1. K_PROC_FD_COUNT - 1 \in Int BY VfsAssumption
  <2>. QED BY <2>1, FS_Interval DEF Fds
<1>4. IsFiniteSet(Mounts)
  <2>1. K_VFS_COUNT \in Int BY VfsAssumption
  <2>. QED BY <2>1, FS_Interval DEF Mounts
<1>5. IsFiniteSet({"fd"}) /\ IsFiniteSet({"cwd"}) /\ IsFiniteSet({<<"walk", 0>>})
  BY FS_Singleton
<1>6. IsFiniteSet({"covers", "root", "mounted"})
  <2>1. IsFiniteSet({"covers"} \cup {"root"} \cup {"mounted"})
    BY FS_Singleton, FS_Union
  <2>2. {"covers"} \cup {"root"} \cup {"mounted"} = {"covers", "root", "mounted"}
    OBVIOUS
  <2>. QED BY <2>1, <2>2
<1>7. IsFiniteSet({"fd"} \X (Procs \X Fds))
  BY <1>2, <1>3, <1>5, FS_Product
<1>8. IsFiniteSet({"cwd"} \X Procs)
  BY <1>2, <1>5, FS_Product
<1>9. IsFiniteSet({"covers", "root", "mounted"} \X Mounts)
  BY <1>4, <1>6, FS_Product
<1>. QED BY <1>5, <1>7, <1>8, <1>9, FS_Union DEF RefSlots

\* One slot that referred to a refers to b: what that does to the number of
\* references to each vnode.
LEMMA CardPut ==
  ASSUME NEW R \in RefMap, NEW s \in RefSlots, NEW b \in NodeOrNone,
         NEW v \in Nodes
  PROVE  LET Q == [R EXCEPT ![s] = b]
             c == Cardinality(RefTo(R, v))
             d == Cardinality(RefTo(Q, v))
         IN  /\ c \in Nat /\ d \in Nat
             /\ R[s] = v /\ b # v => c >= 1 /\ d = c - 1
             /\ R[s] # v /\ b = v => d = c + 1
             /\ R[s] # v /\ b # v => d = c
             /\ R[s] = v /\ b = v => d = c /\ c >= 1
<1>. DEFINE Q == [R EXCEPT ![s] = b]
            C == RefTo(R, v)
            D == RefTo(Q, v)
<1>1. IsFiniteSet(C) /\ IsFiniteSet(D)
  BY RefSlotsFinite, FS_Subset DEF RefTo
<1>2. Cardinality(C) \in Nat /\ Cardinality(D) \in Nat
  BY <1>1, FS_CardinalityType
<1>3. \A h \in RefSlots : Q[h] = IF h = s THEN b ELSE R[h]
  BY DEF RefMap
<1>4. CASE R[s] = v /\ b # v
  <2>1. D = C \ {s} /\ s \in C BY <1>3, <1>4 DEF RefTo
  <2>2. Cardinality(D) = Cardinality(C) - 1 BY <1>1, <2>1, FS_RemoveElement
  <2>. QED BY <1>2, <1>4, <2>2
<1>5. CASE R[s] # v /\ b = v
  <2>1. D = C \cup {s} /\ s \notin C BY <1>3, <1>5 DEF RefTo
  <2>2. Cardinality(D) = Cardinality(C) + 1 BY <1>1, <2>1, FS_AddElement
  <2>. QED BY <1>2, <1>5, <2>2
<1>6. CASE R[s] # v /\ b # v
  <2>1. D = C BY <1>3, <1>6 DEF RefTo
  <2>. QED BY <1>2, <1>6, <2>1
<1>7. CASE R[s] = v /\ b = v
  <2>1. D = C /\ s \in C BY <1>3, <1>7 DEF RefTo
  <2>2. Cardinality(C) # 0 BY <1>1, <2>1, FS_EmptySet
  <2>. QED BY <1>2, <1>7, <2>1, <2>2
<1>. QED BY <1>4, <1>5, <1>6, <1>7, <1>2

\* A vnode that some slot refers to has a count and is not free.
LEMMA HeldIsListed ==
  ASSUME NEW n \in Table, NEW R \in RefMap, Balanced(n, R),
         NEW s \in RefSlots, R[s] # NoNode
  PROVE  R[s] \in Nodes /\ n[R[s]].count >= 1 /\ n[R[s]].list # 0
<1>1. R[s] \in Nodes BY DEF RefMap, NodeOrNone
<1>2. Cardinality(RefTo(R, R[s])) >= 1
  BY <1>1, CardPut DEF NodeOrNone
<1>3. Cardinality(RefTo(R, R[s])) \in Nat BY <1>1, CardPut DEF NodeOrNone
<1>4. /\ n[R[s]].count \in Nat /\ n[R[s]].count >= Cardinality(RefTo(R, R[s]))
      /\ n[R[s]].list = 0 => n[R[s]].count = 0
  BY <1>1 DEF Balanced, Table, VnodeType
<1>. QED BY <1>1, <1>2, <1>3, <1>4

-----------------------------------------------------------------------------
(* VN_HOLD, VN_RELE and the moves of the walk.                             *)

\* No vnode becomes another, but some may become free.
Kept(n, m) ==
  \A u \in Nodes : /\ m[u].key = n[u].key /\ m[u].type = n[u].type
                   /\ m[u].mnt = n[u].mnt
                   /\ m[u].list = n[u].list \/ m[u].list = 0

LEMMA KeptSelf == \A n : Kept(n, n)
BY DEF Kept

LEMMA KeptTransitive ==
  ASSUME NEW n, NEW m, NEW l, Kept(n, m), Kept(m, l)
  PROVE  Kept(n, l)
BY DEF Kept

LEMMA HoldFacts ==
  ASSUME NEW n \in Table, NEW v \in Nodes
  PROVE  /\ Hold(n, v) \in Table /\ Kept(n, Hold(n, v))
         /\ \A u \in Nodes :
              /\ Hold(n, v)[u].list = n[u].list
              /\ Hold(n, v)[u].count = IF u = v THEN n[u].count + 1 ELSE n[u].count
<1>. DEFINE m == Hold(n, v)
<1>1. \A u \in Nodes : n[u] \in VnodeType BY DEF Table
<1>2. n[v].count + 1 \in Nat BY <1>1 DEF VnodeType
<1>3. \A u \in Nodes : m[u] \in VnodeType
  BY <1>1, <1>2 DEF Table, Hold, VnodeType
<1>4. m \in Table BY <1>3 DEF Table, Hold
<1>5. \A u \in Nodes : /\ m[u].list = n[u].list /\ m[u].key = n[u].key
                       /\ m[u].type = n[u].type /\ m[u].mnt = n[u].mnt
                       /\ m[u].count = IF u = v THEN n[u].count + 1 ELSE n[u].count
  BY <1>1 DEF Hold, Table, VnodeType
<1>6. Kept(n, m) BY <1>5 DEF Kept
<1>. QED BY <1>4, <1>5, <1>6

\* A vnode whose last reference is given back.
LEMMA Freed ==
  ASSUME NEW r \in VnodeType, NEW l \in {0, -1}
  PROVE  \E q \in VnodeType :
           /\ q = [r EXCEPT !.count = 0, !.list = l] /\ q.count = 0 /\ q.list = l
           /\ q.key = r.key /\ q.type = r.type /\ q.mnt = r.mnt
<1>1. PICK q : q = [r EXCEPT !.count = 0, !.list = l] OBVIOUS
<1>2. /\ q \in VnodeType /\ q.count = 0 /\ q.list = l
      /\ q.key = r.key /\ q.type = r.type /\ q.mnt = r.mnt
  BY <1>1 DEF VnodeType
<1>. QED BY <1>1, <1>2

LEMMA ReleFacts ==
  ASSUME NEW n \in Table, NEW v \in Nodes, n[v].count >= 1
  PROVE  /\ Rele(n, v) \in Table /\ Kept(n, Rele(n, v))
         /\ \A u \in Nodes :
              /\ Rele(n, v)[u].count = IF u = v THEN n[u].count - 1 ELSE n[u].count
              /\ u # v \/ n[u].count > 1 => Rele(n, v)[u].list = n[u].list
<1>. DEFINE m == Rele(n, v)
<1>1. \A u \in Nodes : n[u] \in VnodeType BY DEF Table
<1>2. n[v].count \in Nat BY <1>1 DEF VnodeType
<1>3. ASSUME NEW u \in Nodes
      PROVE  /\ m[u] \in VnodeType
             /\ m[u].key = n[u].key /\ m[u].type = n[u].type /\ m[u].mnt = n[u].mnt
             /\ m[u].list = n[u].list \/ m[u].list = 0
             /\ m[u].count = IF u = v THEN n[u].count - 1 ELSE n[u].count
             /\ u # v \/ n[u].count > 1 => m[u].list = n[u].list
  <2>1. CASE u # v
    <3>1. m[u] = n[u] BY <2>1 DEF Table, Rele
    <3>. QED BY <1>1, <2>1, <3>1
  <2>2. CASE u = v /\ n[v].count > 1
    <3>1. PICK c \in Nat : c = n[v].count - 1 BY <1>2, <2>2
    <3>2. m[u] = [n[u] EXCEPT !.count = c] BY <2>2, <3>1 DEF Table, Rele
    <3>. QED BY <1>1, <2>2, <3>1, <3>2 DEF VnodeType
  <2>3. CASE u = v /\ ~(n[v].count > 1)
    <3>1. PICK l \in {0, -1} : l = IF n[v].list = -1 THEN -1 ELSE 0 OBVIOUS
    <3>2. m[u] = [n[u] EXCEPT !.count = 0, !.list = l] BY <2>3, <3>1 DEF Table, Rele
    <3>3. /\ m[u] \in VnodeType /\ m[u].count = 0 /\ m[u].list = l
          /\ m[u].key = n[u].key /\ m[u].type = n[u].type /\ m[u].mnt = n[u].mnt
      <4>1. PICK r \in VnodeType : r = n[u] BY <1>1
      <4>2. PICK q \in VnodeType :
              /\ q = [r EXCEPT !.count = 0, !.list = l] /\ q.count = 0 /\ q.list = l
              /\ q.key = r.key /\ q.type = r.type /\ q.mnt = r.mnt
        BY Freed
      <4>. QED BY <3>2, <4>1, <4>2
    <3>4. n[v].count - 1 = 0 BY <1>2, <2>3
    <3>. QED BY <2>3, <3>1, <3>3, <3>4
  <2>. QED BY <2>1, <2>2, <2>3
<1>4. m = [u \in Nodes |-> m[u]] BY DEF Table, Rele
<1>5. m \in Table /\ Kept(n, m) BY <1>3, <1>4 DEF Table, Kept
<1>. QED BY <1>3, <1>5

LEMMA HoldBalanced ==
  ASSUME NEW n \in Table, NEW R \in RefMap, Balanced(n, R),
         NEW s \in RefSlots, R[s] = NoNode, NEW v \in Nodes, n[v].list # 0
  PROVE  /\ Hold(n, v) \in Table /\ Balanced(Hold(n, v), [R EXCEPT ![s] = v])
         /\ Kept(n, Hold(n, v))
<1>. DEFINE m == Hold(n, v)
            Q == [R EXCEPT ![s] = v]
<1>0. NoNode \notin Nodes BY DEF NoNode, Nodes
<1>5. ASSUME NEW u \in Nodes
      PROVE  /\ m[u].count >= Cardinality(RefTo(Q, u))
             /\ Exact => m[u].count = Cardinality(RefTo(Q, u))
             /\ m[u].list = 0 => m[u].count = 0
  <2>1. v \in NodeOrNone BY DEF NodeOrNone
  <2>2. /\ u = v => Cardinality(RefTo(Q, u)) = Cardinality(RefTo(R, u)) + 1
        /\ u # v => Cardinality(RefTo(Q, u)) = Cardinality(RefTo(R, u))
        /\ Cardinality(RefTo(R, u)) \in Nat
    BY <1>0, <2>1, CardPut
  <2>3. /\ n[u].count \in Nat /\ n[u].count >= Cardinality(RefTo(R, u))
        /\ Exact => n[u].count = Cardinality(RefTo(R, u))
        /\ n[u].list = 0 => n[u].count = 0
    BY DEF Balanced, Table, VnodeType
  <2>4. m[u].list = n[u].list /\ m[u].count = IF u = v THEN n[u].count + 1 ELSE n[u].count
    BY HoldFacts
  <2>. QED BY <2>2, <2>3, <2>4
<1>. QED BY HoldFacts, <1>5 DEF Balanced

LEMMA ReleBalanced ==
  ASSUME NEW n \in Table, NEW R \in RefMap, Balanced(n, R),
         NEW s \in RefSlots, NEW v \in Nodes, R[s] = v
  PROVE  /\ Rele(n, v) \in Table /\ Balanced(Rele(n, v), [R EXCEPT ![s] = NoNode])
         /\ Kept(n, Rele(n, v))
<1>. DEFINE m == Rele(n, v)
            Q == [R EXCEPT ![s] = NoNode]
<1>0. NoNode \notin Nodes BY DEF NoNode, Nodes
<1>1. \A u \in Nodes : n[u].count \in Nat BY DEF Table, VnodeType
<1>2. n[v].count >= 1 /\ n[v].list # 0 BY <1>0, HeldIsListed
<1>6. ASSUME NEW u \in Nodes
      PROVE  /\ m[u].count >= Cardinality(RefTo(Q, u))
             /\ Exact => m[u].count = Cardinality(RefTo(Q, u))
             /\ m[u].list = 0 => m[u].count = 0
  <2>1. NoNode \in NodeOrNone BY DEF NodeOrNone
  <2>2. /\ u = v => Cardinality(RefTo(Q, u)) = Cardinality(RefTo(R, u)) - 1
        /\ u # v => Cardinality(RefTo(Q, u)) = Cardinality(RefTo(R, u))
        /\ Cardinality(RefTo(R, u)) \in Nat
    BY <1>0, <2>1, CardPut
  <2>3. /\ n[u].count \in Nat /\ n[u].count >= Cardinality(RefTo(R, u))
        /\ Exact => n[u].count = Cardinality(RefTo(R, u))
        /\ n[u].list = 0 => n[u].count = 0
    BY <1>1 DEF Balanced
  <2>4. /\ m[u].count = IF u = v THEN n[u].count - 1 ELSE n[u].count
        /\ u # v \/ n[u].count > 1 => m[u].list = n[u].list
    BY <1>2, ReleFacts
  <2>. QED BY <1>2, <2>2, <2>3, <2>4
<1>. QED BY ReleFacts, <1>2, <1>6 DEF Balanced

\* The walk goes from v to w: hold w, then release v.
LEMMA MoveBalanced ==
  ASSUME NEW n \in Table, NEW R \in RefMap, Balanced(n, R),
         NEW s \in RefSlots, NEW v \in Nodes, R[s] = v,
         NEW w \in Nodes, n[w].list # 0
  PROVE  /\ Rele(Hold(n, w), v) \in Table
         /\ Balanced(Rele(Hold(n, w), v), [R EXCEPT ![s] = w])
         /\ Kept(n, Rele(Hold(n, w), v))
<1>. DEFINE h == Hold(n, w)
            m == Rele(h, v)
            Q == [R EXCEPT ![s] = w]
<1>0. NoNode \notin Nodes /\ w \in NodeOrNone BY DEF NoNode, Nodes, NodeOrNone
<1>1. \A u \in Nodes : n[u].count \in Nat BY DEF Table, VnodeType
<1>2. n[v].count >= 1 /\ n[v].list # 0 BY <1>0, HeldIsListed
<1>3. /\ h \in Table /\ Kept(n, h)
      /\ \A u \in Nodes : /\ h[u].list = n[u].list
                           /\ h[u].count = IF u = w THEN n[u].count + 1 ELSE n[u].count
  BY HoldFacts
<1>4. h[v].count >= 1 BY <1>1, <1>2, <1>3
<1>. HIDE DEF h
<1>5. /\ m \in Table /\ Kept(h, m)
      /\ \A u \in Nodes :
           /\ m[u].count = IF u = v THEN h[u].count - 1 ELSE h[u].count
           /\ u # v \/ h[u].count > 1 => m[u].list = h[u].list
  BY <1>3, <1>4, ReleFacts
<1>. HIDE DEF m
<1>6. ASSUME NEW u \in Nodes
      PROVE  /\ m[u].count >= Cardinality(RefTo(Q, u))
             /\ Exact => m[u].count = Cardinality(RefTo(Q, u))
             /\ m[u].list = 0 => m[u].count = 0
  <2>1. /\ R[s] = u /\ w # u => Cardinality(RefTo(Q, u)) = Cardinality(RefTo(R, u)) - 1
        /\ R[s] # u /\ w = u => Cardinality(RefTo(Q, u)) = Cardinality(RefTo(R, u)) + 1
        /\ R[s] # u /\ w # u => Cardinality(RefTo(Q, u)) = Cardinality(RefTo(R, u))
        /\ R[s] = u /\ w = u => Cardinality(RefTo(Q, u)) = Cardinality(RefTo(R, u))
        /\ Cardinality(RefTo(R, u)) \in Nat
    BY <1>0, CardPut
  <2>2. /\ n[u].count >= Cardinality(RefTo(R, u))
        /\ Exact => n[u].count = Cardinality(RefTo(R, u))
        /\ n[u].list = 0 => n[u].count = 0
    BY DEF Balanced
  <2>3. CASE u = v
    BY <1>1, <1>2, <1>3, <1>5, <2>1, <2>2, <2>3
  <2>4. CASE u # v
    BY <1>1, <1>3, <1>5, <2>1, <2>2, <2>4
  <2>. QED BY <2>3, <2>4
<1>7. m \in Table /\ Balanced(m, Q) BY <1>5, <1>6 DEF Balanced
<1>8. Kept(n, m) BY <1>3, <1>5, KeptTransitive
<1>. QED BY <1>7, <1>8 DEF m, h

\* A reference passes from slot s to slot t: no count changes.
LEMMA PassBalanced ==
  ASSUME NEW n \in Table, NEW R \in RefMap, Balanced(n, R),
         NEW s \in RefSlots, NEW t \in RefSlots, s # t,
         NEW v \in Nodes, R[s] = v, R[t] = NoNode
  PROVE  Balanced(n, [[R EXCEPT ![t] = v] EXCEPT ![s] = NoNode])
<1>. DEFINE P == [R EXCEPT ![t] = v]
            Q == [P EXCEPT ![s] = NoNode]
<1>0. NoNode \notin Nodes /\ NoNode \in NodeOrNone /\ v \in NodeOrNone
  BY DEF NoNode, Nodes, NodeOrNone
<1>1. P \in RefMap /\ P[s] = v BY <1>0 DEF RefMap
<1>. HIDE DEF P
<1>2. ASSUME NEW u \in Nodes
      PROVE  Cardinality(RefTo(Q, u)) = Cardinality(RefTo(R, u))
  <2>1. /\ Cardinality(RefTo(R, u)) \in Nat
        /\ u = v => Cardinality(RefTo(P, u)) = Cardinality(RefTo(R, u)) + 1
        /\ u # v => Cardinality(RefTo(P, u)) = Cardinality(RefTo(R, u))
    BY <1>0, CardPut DEF P
  <2>2. /\ u = v => Cardinality(RefTo(Q, u)) = Cardinality(RefTo(P, u)) - 1
        /\ u # v => Cardinality(RefTo(Q, u)) = Cardinality(RefTo(P, u))
    BY <1>0, <1>1, CardPut
  <2>. QED BY <2>1, <2>2
<1>3. Balanced(n, Q) BY <1>2 DEF Balanced
<1>. QED BY <1>3 DEF P

\* A reference that is forgotten and not given back.
LEMMA LeakBalanced ==
  ASSUME NEW n \in Table, NEW R \in RefMap, Balanced(n, R), ~Exact,
         NEW s \in RefSlots
  PROVE  Balanced(n, [R EXCEPT ![s] = NoNode])
<1>. DEFINE Q == [R EXCEPT ![s] = NoNode]
<1>0. NoNode \notin Nodes /\ NoNode \in NodeOrNone BY DEF NoNode, Nodes, NodeOrNone
<1>1. ASSUME NEW u \in Nodes PROVE n[u].count >= Cardinality(RefTo(Q, u))
  <2>1. /\ Cardinality(RefTo(R, u)) \in Nat /\ Cardinality(RefTo(Q, u)) \in Nat
        /\ \/ Cardinality(RefTo(Q, u)) = Cardinality(RefTo(R, u)) - 1
           \/ Cardinality(RefTo(Q, u)) = Cardinality(RefTo(R, u))
    BY <1>0, CardPut
  <2>2. n[u].count \in Nat /\ n[u].count >= Cardinality(RefTo(R, u))
    BY DEF Balanced, Table, VnodeType
  <2>. QED BY <2>1, <2>2
<1>. QED BY <1>1 DEF Balanced

-----------------------------------------------------------------------------
(* The inductive invariant.                                                *)

\* The slot that a mount in progress has filled: its root is held already.
Pending(f) == req.op = "target" /\ f = vn[req.new].list

MountPlace(kind, f) ==
  IF kind = "covers" THEN fs[f].covered
  ELSE IF \/ f \in Slots /\ ~ Pending(f)
          \/ kind = "mounted" /\ fs[f].kind = "rfs"
       THEN NoNode ELSE fs[f].root

FdSlot(p, i) == <<"fd", <<p, i>>>>
CwdSlot(p)   == <<"cwd", p>>
RootSlot(f)  == <<"root", f>>
FsSlots      == {"covers", "root", "mounted"} \X Mounts
Walker       == IF Walking THEN req.at ELSE NoNode

\* The references, with those of a mount in progress.
Places == [h \in RefSlots |-> IF h \in FsSlots THEN MountPlace(h[1], h[2]) ELSE Refs[h]]

FsOK ==
  /\ fs \in [Mounts -> [kind : {"none", "rfs", "fat", "devfs"},
                        root : NodeOrNone, covered : NodeOrNone]]
  /\ \A f \in Mounts \ Slots : fs[f].root \in Nodes
  /\ \A u \in Nodes : vn[u].mnt # 0 => vn[u].mnt \notin Slots
  /\ "mount" \notin Allowed => fs = BootFs

ReqType == [op : {"idle", "open", "chdir", "mkdir", "device", "target", "kill"},
            pid : Procs, left : 0..MaxPath, at : NodeOrNone, new : NodeOrNone]

ReqOK ==
  /\ req \in ReqType
  /\ Walking => req.at \in Nodes
  /\ req.op # "idle" /\ Calm => req.pid \in alive \ dying
  /\ req.op = "chdir" => "leave" \in Allowed \/ cwd[req.pid] = NoNode
  /\ req.op = "kill" => req.pid # SYS
  /\ req.op \in {"device", "target"} => "mount" \in Allowed
  /\ req.new \in IF req.op = "target" THEN Nodes ELSE {NoNode}

\* The new root is in the list of its slot.
NewOK ==
  req.op = "target" => /\ vn[req.new].list \in Slots
                       /\ fs[vn[req.new].list].root = req.new

Typed ==
  /\ fd \in [Procs -> [Fds -> NodeOrNone]]
  /\ cwd \in [Procs -> NodeOrNone]
  /\ alive \subseteq Procs /\ SYS \in alive /\ dying \subseteq Users

\* A victim holds nothing once VFS_KILL is served, if it has stopped.
DeadEmpty ==
  Calm => \A p \in (Procs \ alive) \cup dying :
            cwd[p] = NoNode /\ \A i \in Fds : fd[p][i] = NoNode

IInv == /\ Typed /\ vn \in Table /\ FsOK
        /\ ReqOK /\ NewOK /\ DeadEmpty /\ Balanced(vn, Places)

LEMMA SlotFacts ==
  /\ \A p \in Procs, i \in Fds : FdSlot(p, i) \in RefSlots
  /\ \A p \in Procs : CwdSlot(p) \in RefSlots
  /\ FsSlots \subseteq RefSlots /\ W \in RefSlots
  /\ \A h \in RefSlots : \/ \E p \in Procs, i \in Fds : h = FdSlot(p, i)
                         \/ \E p \in Procs : h = CwdSlot(p)
                         \/ h \in FsSlots \/ h = W
  /\ \A p \in Procs, i \in Fds :
       /\ FdSlot(p, i) # W /\ FdSlot(p, i) \notin FsSlots
       /\ \A q \in Procs : FdSlot(p, i) # CwdSlot(q)
       /\ \A q \in Procs, j \in Fds : FdSlot(p, i) = FdSlot(q, j) => p = q /\ i = j
  /\ \A p \in Procs : /\ CwdSlot(p) # W /\ CwdSlot(p) \notin FsSlots
                      /\ \A q \in Procs : CwdSlot(p) = CwdSlot(q) => p = q
  /\ W \notin FsSlots
BY DEF FdSlot, CwdSlot, FsSlots, W, RefSlots

LEMMA SlotParts ==
  /\ \A p \in Procs, i \in Fds :
       /\ FdSlot(p, i)[1] = "fd"
       /\ FdSlot(p, i)[2][1] = p /\ FdSlot(p, i)[2][2] = i
  /\ \A p \in Procs : CwdSlot(p)[1] = "cwd" /\ CwdSlot(p)[2] = p
  /\ \A h \in FsSlots : /\ h[1] \in {"covers", "root", "mounted"} /\ h[2] \in Mounts
                        /\ h = <<h[1], h[2]>>
  /\ \A f \in Mounts : /\ RootSlot(f) \in FsSlots
                       /\ RootSlot(f)[1] = "root" /\ RootSlot(f)[2] = f
  /\ W[1] = "walk"
BY DEF FdSlot, CwdSlot, RootSlot, FsSlots, W

LEMMA PlacesAt ==
  /\ Places = [h \in RefSlots |-> Places[h]]
  /\ \A p \in Procs, i \in Fds : Places[FdSlot(p, i)] = fd[p][i]
  /\ \A p \in Procs : Places[CwdSlot(p)] = cwd[p]
  /\ \A h \in FsSlots : Places[h] = MountPlace(h[1], h[2])
  /\ Places[W] = Walker
<1>1. Places = [h \in RefSlots |-> Places[h]] BY DEF Places
<1>2. \A p \in Procs, i \in Fds : Places[FdSlot(p, i)] = fd[p][i]
  BY SlotFacts, SlotParts DEF Places, Refs
<1>3. \A p \in Procs : Places[CwdSlot(p)] = cwd[p]
  BY SlotFacts, SlotParts DEF Places, Refs
<1>4. Places[W] = Walker
  BY SlotFacts, SlotParts DEF Places, Refs, Walker
<1>5. \A h \in FsSlots : Places[h] = MountPlace(h[1], h[2])
  BY SlotFacts DEF Places
<1>. QED BY <1>1, <1>2, <1>3, <1>4, <1>5

LEMMA PlacesType ==
  ASSUME Typed, FsOK, ReqOK
  PROVE  Places \in RefMap
<1>1. ASSUME NEW h \in FsSlots PROVE Places[h] \in NodeOrNone
  <2>1. h[1] \in {"covers", "root", "mounted"} /\ h[2] \in Mounts BY SlotParts
  <2>2. fs[h[2]].covered \in NodeOrNone /\ fs[h[2]].root \in NodeOrNone
    BY <2>1 DEF FsOK
  <2>3. NoNode \in NodeOrNone BY DEF NodeOrNone
  <2>. QED BY <2>1, <2>2, <2>3, PlacesAt DEF MountPlace
<1>2. \A p \in Procs, i \in Fds : Places[FdSlot(p, i)] \in NodeOrNone
  <2>1. \A p \in Procs, i \in Fds : Places[FdSlot(p, i)] = fd[p][i] BY PlacesAt
  <2>2. \A p \in Procs, i \in Fds : fd[p][i] \in NodeOrNone BY DEF Typed
  <2>. QED BY <2>1, <2>2
<1>3. \A p \in Procs : Places[CwdSlot(p)] \in NodeOrNone
  BY PlacesAt DEF Typed
<1>4. Places[W] \in NodeOrNone
  BY PlacesAt DEF Walker, ReqOK, NodeOrNone
<1>5. \A h \in RefSlots : Places[h] \in NodeOrNone
  BY <1>1, <1>2, <1>3, <1>4, SlotFacts
<1>. QED BY <1>5, PlacesAt DEF RefMap

\* What the references become in a step.
LEMMA PlacesNext ==
  ASSUME NEW Q \in RefMap,
         \A p \in Procs, i \in Fds : Q[FdSlot(p, i)] = fd'[p][i],
         \A p \in Procs : Q[CwdSlot(p)] = cwd'[p],
         \A h \in FsSlots : Q[h] = MountPlace(h[1], h[2])',
         Q[W] = Walker'
  PROVE  Places' = Q
<1>1. \A p \in Procs, i \in Fds : Places'[FdSlot(p, i)] = fd'[p][i]
  BY SlotFacts, SlotParts DEF Places, Refs
<1>2. \A p \in Procs : Places'[CwdSlot(p)] = cwd'[p]
  BY SlotFacts, SlotParts DEF Places, Refs
<1>3. \A h \in FsSlots : Places'[h] = MountPlace(h[1], h[2])'
  BY SlotFacts DEF Places
<1>4. Places'[W] = Walker'
  BY SlotFacts, SlotParts DEF Places, Refs, Walker
<1>5. \A h \in RefSlots : Places'[h] = Q[h]
  BY <1>1, <1>2, <1>3, <1>4, SlotFacts
<1>6. Places' = [h \in RefSlots |-> Places'[h]] BY DEF Places
<1>. QED BY <1>5, <1>6 DEF RefMap

\* The root of a file system that is mounted, or is being mounted, is held.
LEMMA RootHeld ==
  ASSUME IInv
  PROVE  /\ Places \in RefMap
         /\ 1 \in Mounts /\ 1 \notin Slots
         /\ \A f \in Mounts : f \notin Slots \/ Pending(f) =>
              /\ RootSlot(f) \in RefSlots /\ RootSlot(f) # W
              /\ Places[RootSlot(f)] = fs[f].root
              /\ fs[f].root \in Nodes /\ vn[fs[f].root].list # 0
<1>1. Places \in RefMap BY PlacesType DEF IInv
<1>2. 1 \in Mounts /\ 1 \notin Slots BY VfsAssumption DEF Mounts, Slots
<1>3. ASSUME NEW f \in Mounts, f \notin Slots \/ Pending(f)
      PROVE  /\ RootSlot(f) \in RefSlots /\ RootSlot(f) # W
             /\ Places[RootSlot(f)] = fs[f].root
             /\ fs[f].root \in Nodes /\ vn[fs[f].root].list # 0
  <2>1. RootSlot(f) \in RefSlots /\ RootSlot(f) \in FsSlots /\ RootSlot(f) # W
    BY SlotFacts, SlotParts
  <2>2. Places[RootSlot(f)] = fs[f].root
    <3>1. MountPlace("root", f) = fs[f].root BY <1>3 DEF MountPlace
    <3>. QED BY <2>1, <3>1, PlacesAt, SlotParts
  <2>3. fs[f].root \in Nodes
    <3>1. CASE f \notin Slots BY <3>1 DEF IInv, FsOK
    <3>2. CASE Pending(f)
      <4>1. req.new \in Nodes BY <3>2 DEF Pending, IInv, ReqOK
      <4>2. fs[f].root = req.new BY <3>2 DEF Pending, IInv, NewOK
      <4>. QED BY <4>1, <4>2
    <3>. QED BY <1>3, <3>1, <3>2
  <2>4. fs[f].root # NoNode BY <2>3 DEF Nodes, NoNode
  <2>5. vn[fs[f].root].list # 0
    BY <1>1, <2>1, <2>2, <2>4, HeldIsListed DEF IInv
  <2>. QED BY <2>1, <2>2, <2>3, <2>5
<1>. QED BY <1>1, <1>2, <1>3

\* After the walk has crossed a mount point.
LEMMA CrossBalanced ==
  ASSUME IInv, Walking
  PROVE  /\ Cross(req.at) \in Table /\ Crossed(req.at) \in Nodes
         /\ [Places EXCEPT ![W] = Crossed(req.at)] \in RefMap
         /\ Balanced(Cross(req.at), [Places EXCEPT ![W] = Crossed(req.at)])
         /\ Kept(vn, Cross(req.at))
         /\ vn[Crossed(req.at)].list \in Mounts \cup {-1}
<1>. DEFINE v == req.at
            x == Crossed(v)
            n == Cross(v)
            Q == [Places EXCEPT ![W] = x]
<1>1. /\ v \in Nodes /\ v # NoNode /\ Places \in RefMap /\ Places[W] = v /\ W \in RefSlots
      /\ vn \in Table /\ Balanced(vn, Places)
  BY RootHeld, PlacesAt, SlotFacts DEF IInv, ReqOK, Walker, Nodes, NoNode
<1>2. vn[v].list # 0 BY <1>1, HeldIsListed
<1>3. vn[v].mnt \in Mounts \cup {0} BY <1>1 DEF Table, VnodeType
<1>4. n \in Table /\ x \in Nodes /\ Balanced(n, Q) /\ Kept(vn, n) /\ vn[x].list # 0
  <2>1. CASE vn[v].mnt = 0
    <3>1. n = vn /\ x = v BY <2>1 DEF Cross, Crossed
    <3>2. Q = Places BY <1>1, <3>1 DEF RefMap
    <3>. QED BY <1>1, <1>2, <3>1, <3>2, KeptSelf
  <2>2. CASE vn[v].mnt # 0
    <3>1. PICK f \in Mounts : f = vn[v].mnt BY <1>3, <2>2
    <3>2. f \notin Slots BY <1>1, <2>2, <3>1 DEF IInv, FsOK
    <3>3. PICK r \in Nodes : r = fs[f].root /\ vn[r].list # 0 BY <3>2, RootHeld
    <3>4. x = r /\ n = Rele(Hold(vn, r), v) BY <2>2, <3>1, <3>3 DEF Cross, Crossed
    <3>5. /\ Rele(Hold(vn, r), v) \in Table /\ Kept(vn, Rele(Hold(vn, r), v))
          /\ Balanced(Rele(Hold(vn, r), v), [Places EXCEPT ![W] = r])
      BY <1>1, <3>3, MoveBalanced
    <3>. QED BY <3>3, <3>4, <3>5
  <2>. QED BY <2>1, <2>2
<1>5. Q \in RefMap BY <1>1, <1>4 DEF RefMap, NodeOrNone
<1>6. vn[x].list \in Mounts \cup {-1} BY <1>1, <1>4 DEF Table, VnodeType
<1>. QED BY <1>4, <1>5, <1>6

\* A table with the same lists and counts balances with the same references.
LEMMA SameBalanced ==
  ASSUME NEW n, NEW m, NEW R, Balanced(n, R),
         \A u \in Nodes : m[u].count = n[u].count
                          /\ (m[u].list = 0 => n[u].list = 0)
  PROVE  Balanced(m, R)
BY DEF Balanced

LEMMA AllocBalanced ==
  ASSUME NEW n \in Table, NEW R, Balanced(n, R),
         NEW w \in NextFree(n), NEW f \in Mounts \cup {-1}, NEW k \in Objects,
         NEW t \in {"dir", "reg", "chr", "blk"}
  PROVE  LET m == Alloc(n, w, f, k, t)
         IN  /\ w \in Nodes /\ n[w].list = 0 /\ m \in Table /\ Balanced(m, R)
             /\ m[w].list = f /\ m[w].list # 0 /\ m[w].key = k /\ m[w].mnt = 0
             /\ \A u \in Nodes : u # w => m[u] = n[u]
<1>. DEFINE m == Alloc(n, w, f, k, t)
            r == [list |-> f, key |-> k, type |-> t, count |-> 0, mnt |-> 0]
<1>1. w \in Nodes /\ n[w].list = 0 BY DEF NextFree, Unused
<1>2. n[w].count = 0 BY <1>1 DEF Balanced
<1>3. \A u \in Nodes : m[u] = IF u = w THEN r ELSE n[u]
  BY DEF Table, Alloc
<1>4. r \in VnodeType /\ r.list = f /\ r.count = 0 /\ r.key = k /\ r.mnt = 0
  BY DEF VnodeType
<1>5. f # 0 BY DEF Mounts
<1>. HIDE DEF r
<1>6. m \in Table BY <1>3, <1>4 DEF Table, Alloc
<1>7. \A u \in Nodes : m[u].count = n[u].count /\ (m[u].list = 0 => n[u].list = 0)
  BY <1>1, <1>2, <1>3, <1>4, <1>5
<1>8. Balanced(m, R) BY <1>7, SameBalanced
<1>. QED BY <1>1, <1>3, <1>4, <1>5, <1>6, <1>8

LEMMA NamedFacts ==
  ASSUME NEW n \in Table, NEW w \in Nodes, NEW v \in Nodes, NEW d \in Devices
  PROVE  /\ Named(n, w, v, d) \in Table
         /\ \A u \in Nodes :
              LET r == Named(n, w, v, d)[u]
              IN  /\ r.list = n[u].list /\ r.count = n[u].count
                  /\ r.key = IF u = v THEN d ELSE n[u].key
                  /\ r.type = IF u = w THEN DevType(d) ELSE n[u].type
                  /\ r.mnt = n[u].mnt \/ r.mnt = 0
<1>1. DevType(d) \in {"dir", "reg", "chr", "blk"} /\ d \in Objects
  BY DEF DevType, Objects
<1>2. ASSUME NEW u \in Nodes
      PROVE  LET r == Named(n, w, v, d)[u]
             IN  /\ r \in VnodeType
                 /\ r.list = n[u].list /\ r.count = n[u].count
                 /\ r.key = IF u = v THEN d ELSE n[u].key
                 /\ r.type = IF u = w THEN DevType(d) ELSE n[u].type
                 /\ r.mnt = n[u].mnt \/ r.mnt = 0
  <2>. DEFINE a == n[u]
              b == [a EXCEPT !.type = DevType(d), !.mnt = 0]
              r == IF u = w THEN b ELSE a
  <2>1. a \in VnodeType BY DEF Table
  <2>2. /\ b \in VnodeType /\ b.list = a.list /\ b.count = a.count /\ b.key = a.key
        /\ b.type = DevType(d) /\ b.mnt = 0
    BY <1>1, <2>1 DEF VnodeType
  <2>3. /\ r \in VnodeType /\ r.list = a.list /\ r.count = a.count /\ r.key = a.key
        /\ r.type = IF u = w THEN DevType(d) ELSE a.type
        /\ r.mnt = a.mnt \/ r.mnt = 0
    BY <2>1, <2>2
  <2>4. Named(n, w, v, d)[u] = IF u = v THEN [r EXCEPT !.key = d] ELSE r
    BY DEF Named
  <2>. HIDE DEF r
  <2>5. PICK c : c = [r EXCEPT !.key = d] OBVIOUS
  <2>6. /\ c \in VnodeType /\ c.list = r.list /\ c.count = r.count /\ c.key = d
        /\ c.type = r.type /\ c.mnt = r.mnt
    BY <1>1, <2>3, <2>5 DEF VnodeType
  <2>. QED BY <2>3, <2>4, <2>5, <2>6
<1>3. Named(n, w, v, d) = [u \in Nodes |-> Named(n, w, v, d)[u]] BY DEF Named
<1>. QED BY <1>2, <1>3 DEF Table

-----------------------------------------------------------------------------
(* Every step keeps the invariant.                                         *)

LEMMA Rebalanced ==
  ASSUME Typed', FsOK', ReqOK', NewOK', DeadEmpty', vn' \in Table,
         NEW Q \in RefMap, Balanced(vn', Q),
         \A p \in Procs, i \in Fds : Q[FdSlot(p, i)] = fd'[p][i],
         \A p \in Procs : Q[CwdSlot(p)] = cwd'[p],
         \A h \in FsSlots : Q[h] = MountPlace(h[1], h[2])',
         Q[W] = Walker'
  PROVE  IInv'
<1>1. Places' = Q BY PlacesNext
<1>. QED BY <1>1 DEF IInv, Balanced, RefTo

\* A step that mounts nothing, and leaves a mount in progress as it is.
MountsStay ==
  /\ fs' = fs /\ \A u \in Nodes : vn'[u].mnt = vn[u].mnt \/ vn'[u].mnt = 0
  /\ req'.op = "target" <=> req.op = "target"
  /\ req.op = "target" => req'.new = req.new /\ vn'[req.new].list = vn[req.new].list

LEMMA MountsKept ==
  ASSUME IInv, MountsStay
  PROVE  /\ FsOK' /\ NewOK'
         /\ \A h \in FsSlots : MountPlace(h[1], h[2])' = Places[h]
<1>1. fs' = fs /\ Slots' = Slots BY DEF MountsStay, Slots
<1>2. FsOK' BY <1>1 DEF IInv, FsOK, MountsStay
<1>3. NewOK' BY <1>1 DEF IInv, NewOK, MountsStay
<1>4. \A f : Pending(f)' <=> Pending(f) BY DEF Pending, MountsStay
<1>5. \A h \in FsSlots : MountPlace(h[1], h[2])' = MountPlace(h[1], h[2])
  BY <1>1, <1>4 DEF MountPlace
<1>. QED BY <1>2, <1>3, <1>5, PlacesAt

\* A mount is in progress neither before nor after it.
LEMMA NoMount ==
  ASSUME fs' = fs, Kept(vn, vn'), req.op # "target", req'.op # "target"
  PROVE  MountsStay
BY DEF MountsStay, Kept

\* Where a mount is in progress, its root is in a list as long as its slot
\* counts.
LEMMA NewListed ==
  ASSUME IInv, req.op = "target", NEW n \in Table, NEW v,
         Balanced(n, [Places EXCEPT ![W] = v]), [Places EXCEPT ![W] = v] \in RefMap
  PROVE  req.new \in Nodes /\ n[req.new].list # 0
<1>1. PICK f \in Mounts : f = vn[req.new].list BY DEF IInv, NewOK, Slots
<1>2. Pending(f) /\ fs[f].root = req.new /\ req.new \in Nodes
  BY <1>1 DEF Pending, IInv, NewOK, ReqOK
<1>3. /\ RootSlot(f) \in RefSlots /\ RootSlot(f) # W /\ Places[RootSlot(f)] = req.new
      /\ Places \in RefMap
  BY <1>2, RootHeld
<1>4. [Places EXCEPT ![W] = v][RootSlot(f)] = req.new BY <1>3 DEF RefMap
<1>5. req.new # NoNode BY <1>2 DEF Nodes, NoNode
<1>. QED BY <1>2, <1>3, <1>4, <1>5, HeldIsListed

\* Steps that move or end the walk.
LEMMA WalkStep ==
  ASSUME IInv, UNCHANGED <<fs, fd, cwd, alive, dying>>, MountsStay, ReqOK', vn' \in Table,
         NEW v \in NodeOrNone, Walker' = v, Balanced(vn', [Places EXCEPT ![W] = v])
  PROVE  IInv'
<1>. DEFINE Q == [Places EXCEPT ![W] = v]
<1>1. Q \in RefMap BY RootHeld DEF RefMap
<1>2. Typed' /\ DeadEmpty' BY DEF IInv, Typed, DeadEmpty
<1>3. /\ Q[W] = v
      /\ \A h \in RefSlots : h # W => Q[h] = Places[h]
  BY RootHeld, SlotFacts DEF RefMap
<1>. HIDE DEF Q
<1>4. \A p \in Procs, i \in Fds : Q[FdSlot(p, i)] = fd'[p][i]
  BY <1>3, SlotFacts, PlacesAt
<1>5. \A p \in Procs : Q[CwdSlot(p)] = cwd'[p] BY <1>3, SlotFacts, PlacesAt
<1>6. \A h \in FsSlots : Q[h] = MountPlace(h[1], h[2])'
  BY <1>3, SlotFacts, MountsKept
<1>7. FsOK' /\ NewOK' BY MountsKept
<1>. QED BY <1>1, <1>2, <1>3, <1>4, <1>5, <1>6, <1>7, Rebalanced DEF Q

LEMMA IdleOK == Idle \in ReqType /\ Idle.op = "idle" /\ Idle.new = NoNode
<1>1. 0 \in 0..MaxPath BY VfsAssumption
<1>. QED BY <1>1 DEF Idle, ReqType, NodeOrNone, Procs

LEMMA EndOK ==
  ASSUME req' = Idle
  PROVE  ReqOK' /\ Walker' = NoNode /\ req'.op # "target"
BY IdleOK DEF ReqOK, Walker, Walking

LEMMA BeginStep ==
  ASSUME IInv, NEW p \in Procs, NEW op \in {"open", "chdir", "mkdir", "device"},
         NEW len \in 0..MaxPath, NEW v \in Nodes, Begin(p, op, len, v),
         op = "chdir" => "leave" \in Allowed \/ cwd[p] = NoNode,
         op = "device" => "mount" \in Allowed
  PROVE  IInv' /\ Kept(vn, vn')
<1>1. /\ req.op = "idle" /\ (Calm => p \in alive \ dying) /\ Start(p, v)
      /\ vn' = Hold(vn, v)
      /\ req' = [op |-> op, pid |-> p, left |-> len, at |-> v, new |-> NoNode]
      /\ UNCHANGED <<fs, fd, cwd, alive, dying>>
  BY DEF Begin, Asks, Calm
<1>2. ReqOK' /\ Walker' = v /\ req'.op # "target"
  <2>1. req' \in ReqType BY <1>1 DEF ReqType, NodeOrNone
  <2>2. req'.op = op /\ req'.pid = p /\ req'.at = v /\ req'.new = NoNode BY <1>1
  <2>. QED BY <1>1, <2>1, <2>2 DEF ReqOK, Walker, Walking
<1>3. vn \in Table /\ Balanced(vn, Places) /\ Places \in RefMap /\ W \in RefSlots
      /\ Places[W] = NoNode
  BY <1>1, RootHeld, SlotFacts, PlacesAt DEF IInv, Walker, Walking
<1>4. vn[v].list # 0
  <2>1. CASE v = fs[1].root BY <2>1, RootHeld
  <2>2. CASE v = cwd[p]
    BY <1>3, <2>2, SlotFacts, PlacesAt, HeldIsListed DEF Nodes, NoNode
  <2>. QED BY <1>1, <2>1, <2>2 DEF Start
<1>5. vn' \in Table /\ Balanced(vn', [Places EXCEPT ![W] = v]) /\ Kept(vn, vn')
  BY <1>1, <1>3, <1>4, HoldBalanced
<1>6. MountsStay BY <1>1, <1>2, <1>5, NoMount
<1>. QED BY <1>1, <1>2, <1>5, <1>6, WalkStep DEF NodeOrNone

\* A step of the walk to a vnode in a list.
LEMMA StepOK ==
  ASSUME IInv, Walking, req.left > 0, NEW n, NEW w \in Nodes, Step(n, w)
  PROVE  /\ ReqOK' /\ Walker' = w /\ vn' = n /\ UNCHANGED <<fs, fd, cwd, alive, dying>>
         /\ req'.op = req.op /\ req'.new = req.new
<1>1. req' = [req EXCEPT !.left = req.left - 1, !.at = w] /\ vn' = n
      /\ UNCHANGED <<fs, fd, cwd, alive, dying>>
  BY DEF Step
<1>2. req \in ReqType /\ req.left \in 0..MaxPath BY DEF IInv, ReqOK, ReqType
<1>3. req.left - 1 \in 0..MaxPath BY <1>2, VfsAssumption
<1>4. req' \in ReqType BY <1>1, <1>2, <1>3 DEF ReqType, NodeOrNone
<1>5. req'.op = req.op /\ req'.pid = req.pid /\ req'.at = w /\ req'.new = req.new
  BY <1>1, <1>2 DEF ReqType
<1>6. ReqOK' BY <1>1, <1>4, <1>5 DEF ReqOK, IInv, Walking
<1>7. Walker' = w BY <1>5 DEF Walker, Walking
<1>. QED BY <1>1, <1>5, <1>6, <1>7

\* From the vnode where the walk is, in a table n, to w.
LEMMA LookupStep ==
  ASSUME IInv, Walking, req.left > 0, NEW n \in Table, NEW w \in Nodes,
         Balanced(n, [Places EXCEPT ![W] = Crossed(req.at)]), n[w].list # 0,
         \A u \in Nodes : n[u].mnt = vn[u].mnt \/ n[u].mnt = 0,
         req.op = "target" => n[req.new].list = vn[req.new].list,
         Step(Rele(Hold(n, w), Crossed(req.at)), w)
  PROVE  IInv' /\ Kept(n, vn')
<1>. DEFINE x == Crossed(req.at)
            Q == [Places EXCEPT ![W] = x]
            P == [Q EXCEPT ![W] = w]
            m == Rele(Hold(n, w), x)
<1>1. Q \in RefMap /\ x \in Nodes BY CrossBalanced
<1>2. Q[W] = x /\ P = [Places EXCEPT ![W] = w] /\ W \in RefSlots /\ P \in RefMap
  BY RootHeld, SlotFacts DEF RefMap, NodeOrNone
<1>3. m \in Table /\ Balanced(m, P) /\ Kept(n, m)
  BY <1>1, <1>2, MoveBalanced
<1>4. /\ ReqOK' /\ Walker' = w /\ vn' = m /\ UNCHANGED <<fs, fd, cwd, alive, dying>>
      /\ req'.op = req.op /\ req'.new = req.new
  BY StepOK
<1>. HIDE DEF m
<1>5. MountsStay
  <2>1. \A u \in Nodes : vn'[u].mnt = vn[u].mnt \/ vn'[u].mnt = 0
    BY <1>3, <1>4 DEF Kept
  <2>2. ASSUME req.op = "target" PROVE vn'[req.new].list = vn[req.new].list
    <3>1. req.new \in Nodes /\ m[req.new].list # 0
      BY <1>2, <1>3, <2>2, NewListed
    <3>. QED BY <1>3, <1>4, <2>2, <3>1 DEF Kept
  <2>. QED BY <1>4, <2>1, <2>2 DEF MountsStay
<1>. QED BY <1>2, <1>3, <1>4, <1>5, WalkStep DEF NodeOrNone

\* The walk before a step of it.
LEMMA CrossStays ==
  ASSUME IInv, Walking
  PROVE  /\ \A u \in Nodes : Cross(req.at)[u].mnt = vn[u].mnt
         /\ req.op = "target" =>
              /\ req.new \in Nodes /\ Cross(req.at)[req.new].list # 0
              /\ Cross(req.at)[req.new].list = vn[req.new].list
<1>1. Kept(vn, Cross(req.at)) BY CrossBalanced
<1>2. ASSUME req.op = "target"
      PROVE  req.new \in Nodes /\ Cross(req.at)[req.new].list # 0
  BY <1>2, CrossBalanced, NewListed
<1>. QED BY <1>1, <1>2 DEF Kept

\* Vnode w is found for the object k of the file system f, or is allocated
\* when there is none: a is the table then.
Grew(a, w, f, k, t) ==
  LET n == Cross(req.at)
  IN  \/ w \in Find(n, f, k) /\ a = n
      \/ w \in NextFree(n) /\ Find(n, f, k) = {} /\ a = Alloc(n, w, f, k, t)

LEMMA LookupOK ==
  ASSUME IInv, NEW o \in Files \cup Dirs, Lookup(o)
  PROVE  /\ IInv'
         /\ \E a \in Table, w \in Nodes :
              Grew(a, w, vn[Crossed(req.at)].list, o, FileType(o)) /\ Kept(a, vn')
<1>. DEFINE v == Crossed(req.at)
            n == Cross(req.at)
            f == vn[v].list
            Q == [Places EXCEPT ![W] = v]
<1>1. Walking /\ req.left > 0 BY DEF Lookup
<1>2. /\ n \in Table /\ v \in Nodes /\ Balanced(n, Q) /\ f \in Mounts \cup {-1}
      /\ \A u \in Nodes : n[u].mnt = vn[u].mnt
      /\ req.op = "target" => req.new \in Nodes /\ n[req.new].list # 0
                              /\ n[req.new].list = vn[req.new].list
  BY <1>1, CrossBalanced, CrossStays
<1>3. CASE \E w \in Find(n, f, o) : Step(Rele(Hold(n, w), v), w)
  <2>1. PICK w \in Find(n, f, o) : Step(Rele(Hold(n, w), v), w) BY <1>3
  <2>2. w \in Nodes /\ n[w].list = f BY DEF Find, Match
  <2>3. n[w].list # 0 BY <1>2, <2>2 DEF Mounts
  <2>4. IInv' /\ Kept(n, vn') BY <1>1, <1>2, <2>1, <2>2, <2>3, LookupStep
  <2>5. Grew(n, w, f, o, FileType(o)) BY <2>1 DEF Grew
  <2>. QED BY <1>2, <2>2, <2>4, <2>5
<1>4. CASE /\ Find(n, f, o) = {}
           /\ \E w \in NextFree(n) :
                Step(Rele(Hold(Alloc(n, w, f, o, FileType(o)), w), v), w)
  <2>1. PICK w \in NextFree(n) :
               Step(Rele(Hold(Alloc(n, w, f, o, FileType(o)), w), v), w)
    BY <1>4
  <2>2. o \in Objects /\ FileType(o) \in {"dir", "reg", "chr", "blk"}
    BY DEF Objects, FileType
  <2>. DEFINE m == Alloc(n, w, f, o, FileType(o))
  <2>3. /\ w \in Nodes /\ n[w].list = 0 /\ m \in Table /\ m[w].list # 0 /\ m[w].mnt = 0
        /\ Balanced(m, Q) /\ \A u \in Nodes : u # w => m[u] = n[u]
    BY <1>2, <2>2, AllocBalanced
  <2>. HIDE DEF m
  <2>4. /\ \A u \in Nodes : m[u].mnt = vn[u].mnt \/ m[u].mnt = 0
        /\ req.op = "target" => m[req.new].list = vn[req.new].list
    BY <1>2, <2>3
  <2>5. Step(Rele(Hold(m, w), v), w) BY <2>1 DEF m
  <2>6. IInv' /\ Kept(m, vn') BY <1>1, <2>3, <2>4, <2>5, LookupStep
  <2>7. Grew(m, w, f, o, FileType(o)) BY <1>4, <2>1 DEF Grew, m
  <2>. QED BY <2>3, <2>6, <2>7
<1>. QED BY <1>3, <1>4 DEF Lookup

LEMMA LookupDevOK ==
  ASSUME IInv, NEW d \in Devices, LookupDev(d)
  PROVE  /\ IInv'
         /\ \E a \in Table, w \in Nodes :
              /\ Grew(a, w, vn[Crossed(req.at)].list, d, DevType(d))
              /\ Kept(Named(a, w, Crossed(req.at), d), vn')
<1>. DEFINE v == Crossed(req.at)
            n == Cross(req.at)
            f == vn[v].list
            Q == [Places EXCEPT ![W] = v]
<1>1. Walking /\ req.left > 0 BY DEF LookupDev
<1>2. /\ n \in Table /\ v \in Nodes /\ Balanced(n, Q) /\ f \in Mounts \cup {-1}
      /\ \A u \in Nodes : n[u].mnt = vn[u].mnt
      /\ req.op = "target" => req.new \in Nodes /\ n[req.new].list # 0
                              /\ n[req.new].list = vn[req.new].list
  BY <1>1, CrossBalanced, CrossStays
<1>3. ASSUME NEW a \in Table, NEW w \in Nodes, Balanced(a, Q), a[w].list # 0,
             \A u \in Nodes : a[u].mnt = vn[u].mnt \/ a[u].mnt = 0,
             req.op = "target" => a[req.new].list = vn[req.new].list,
             Step(Rele(Hold(Named(a, w, v, d), w), v), w)
      PROVE  IInv' /\ Kept(Named(a, w, v, d), vn')
  <2>. DEFINE m == Named(a, w, v, d)
  <2>1. m \in Table /\ m[w].list # 0 BY <1>2, <1>3, NamedFacts
  <2>2. \A u \in Nodes : /\ m[u].list = a[u].list /\ m[u].count = a[u].count
                         /\ m[u].mnt = a[u].mnt \/ m[u].mnt = 0
    BY <1>2, NamedFacts
  <2>3. Balanced(m, Q) BY <1>3, <2>2, SameBalanced
  <2>. HIDE DEF m
  <2>4. /\ \A u \in Nodes : m[u].mnt = vn[u].mnt \/ m[u].mnt = 0
        /\ req.op = "target" => m[req.new].list = vn[req.new].list
    BY <1>2, <1>3, <2>2
  <2>5. Step(Rele(Hold(m, w), v), w) BY <1>3 DEF m
  <2>6. IInv' /\ Kept(m, vn') BY <1>1, <1>3, <2>1, <2>3, <2>4, <2>5, LookupStep
  <2>. QED BY <2>6 DEF m
<1>4. CASE \E w \in Find(n, f, d) : Step(Rele(Hold(Named(n, w, v, d), w), v), w)
  <2>1. PICK w \in Find(n, f, d) : Step(Rele(Hold(Named(n, w, v, d), w), v), w)
    BY <1>4
  <2>2. w \in Nodes /\ n[w].list # 0 BY <1>2 DEF Find, Match, Mounts
  <2>3. IInv' /\ Kept(Named(n, w, v, d), vn') BY <1>2, <1>3, <2>1, <2>2
  <2>4. Grew(n, w, f, d, DevType(d)) BY <2>1 DEF Grew
  <2>. QED BY <1>2, <2>2, <2>3, <2>4
<1>5. CASE /\ Find(n, f, d) = {}
           /\ \E w \in NextFree(n) :
                Step(Rele(Hold(Named(Alloc(n, w, f, d, DevType(d)), w, v, d), w), v), w)
  <2>1. PICK w \in NextFree(n) :
         Step(Rele(Hold(Named(Alloc(n, w, f, d, DevType(d)), w, v, d), w), v), w)
    BY <1>5
  <2>2. d \in Objects /\ DevType(d) \in {"dir", "reg", "chr", "blk"}
    BY DEF Objects, DevType
  <2>. DEFINE a == Alloc(n, w, f, d, DevType(d))
  <2>3. /\ w \in Nodes /\ n[w].list = 0 /\ a \in Table /\ a[w].list # 0 /\ a[w].mnt = 0
        /\ Balanced(a, Q) /\ \A u \in Nodes : u # w => a[u] = n[u]
    BY <1>2, <2>2, AllocBalanced
  <2>. HIDE DEF a
  <2>4. /\ \A u \in Nodes : a[u].mnt = vn[u].mnt \/ a[u].mnt = 0
        /\ req.op = "target" => a[req.new].list = vn[req.new].list
    BY <1>2, <2>3
  <2>5. Step(Rele(Hold(Named(a, w, v, d), w), v), w) BY <2>1 DEF a
  <2>6. IInv' /\ Kept(Named(a, w, v, d), vn') BY <1>3, <2>3, <2>4, <2>5
  <2>7. Grew(a, w, f, d, DevType(d)) BY <1>5, <2>1 DEF Grew, a
  <2>. QED BY <2>3, <2>6, <2>7
<1>. QED BY <1>4, <1>5 DEF LookupDev

LEMMA DotOK ==
  ASSUME IInv, Dot
  PROVE  IInv' /\ Kept(vn, vn')
<1>. DEFINE v == Crossed(req.at)
<1>1. Walking /\ req.left > 0 /\ Step(Cross(req.at), v) BY DEF Dot
<1>2. v \in Nodes /\ Cross(req.at) \in Table
      /\ Balanced(Cross(req.at), [Places EXCEPT ![W] = v])
  BY <1>1, CrossBalanced
<1>3. /\ ReqOK' /\ Walker' = v /\ vn' = Cross(req.at)
      /\ UNCHANGED <<fs, fd, cwd, alive, dying>>
      /\ req'.op = req.op /\ req'.new = req.new
  BY <1>1, <1>2, StepOK
<1>4. MountsStay BY <1>1, <1>3, CrossStays DEF MountsStay
<1>5. Kept(vn, vn') BY <1>1, <1>3, CrossBalanced
<1>. QED BY <1>2, <1>3, <1>4, <1>5, WalkStep DEF NodeOrNone

-----------------------------------------------------------------------------
(* The end of a walk.                                                      *)

\* Its vnode is released.
LEMMA DropBalanced ==
  ASSUME IInv, Walking
  PROVE  LET v == Crossed(req.at)
             m == Rele(Cross(req.at), v)
         IN  /\ m \in Table /\ Balanced(m, [Places EXCEPT ![W] = NoNode])
             /\ Kept(vn, m)
<1>. DEFINE v == Crossed(req.at)
            Q == [Places EXCEPT ![W] = v]
            m == Rele(Cross(req.at), v)
<1>1. Q \in RefMap /\ v \in Nodes /\ Cross(req.at) \in Table
      /\ Balanced(Cross(req.at), Q) /\ Kept(vn, Cross(req.at))
  BY CrossBalanced
<1>2. Q[W] = v /\ [Q EXCEPT ![W] = NoNode] = [Places EXCEPT ![W] = NoNode] /\ W \in RefSlots
  BY RootHeld, SlotFacts DEF RefMap
<1>3. m \in Table /\ Balanced(m, [Places EXCEPT ![W] = NoNode]) /\ Kept(Cross(req.at), m)
  BY <1>1, <1>2, ReleBalanced
<1>4. Kept(vn, m) BY <1>1, <1>3, KeptTransitive
<1>. QED BY <1>3, <1>4

LEMMA DropOK ==
  ASSUME IInv, Walking, req.op # "target",
         End(Rele(Cross(req.at), Crossed(req.at))), UNCHANGED <<fs, fd, cwd, alive, dying>>
  PROVE  IInv' /\ Kept(vn, vn')
<1>1. vn' = Rele(Cross(req.at), Crossed(req.at)) /\ req' = Idle BY DEF End
<1>2. vn' \in Table /\ Balanced(vn', [Places EXCEPT ![W] = NoNode]) /\ Kept(vn, vn')
  BY <1>1, DropBalanced
<1>3. ReqOK' /\ Walker' = NoNode /\ req'.op # "target" BY <1>1, EndOK
<1>4. MountsStay BY <1>2, <1>3, NoMount
<1>5. NoNode \in NodeOrNone BY DEF NodeOrNone
<1>. QED BY <1>2, <1>3, <1>4, <1>5, WalkStep

\* Nothing is there, but the reference of the walk is kept by nobody.
LEMMA MountFailsOK ==
  ASSUME IInv, MountFails
  PROVE  IInv' /\ Kept(vn, vn')
<1>. DEFINE n == Cross(req.at)
            Q == [Places EXCEPT ![W] = Crossed(req.at)]
<1>1. /\ Walking /\ req.op = "device" /\ vn' = n /\ req' = Idle
      /\ UNCHANGED <<fs, fd, cwd, alive, dying>>
  BY DEF MountFails, Arrived, End, Reached, Walking
<1>2. Q \in RefMap /\ n \in Table /\ Balanced(n, Q) /\ Kept(vn, n) /\ W \in RefSlots
  BY <1>1, CrossBalanced, SlotFacts
<1>3. ~Exact BY <1>1 DEF IInv, ReqOK, Exact
<1>4. [Q EXCEPT ![W] = NoNode] = [Places EXCEPT ![W] = NoNode]
  BY RootHeld DEF RefMap
<1>5. Balanced(vn', [Places EXCEPT ![W] = NoNode])
  BY <1>1, <1>2, <1>3, <1>4, LeakBalanced
<1>6. ReqOK' /\ Walker' = NoNode /\ req'.op # "target" BY <1>1, EndOK
<1>7. MountsStay BY <1>1, <1>2, <1>6, NoMount
<1>8. NoNode \in NodeOrNone BY DEF NodeOrNone
<1>. QED BY <1>1, <1>2, <1>5, <1>6, <1>7, <1>8, WalkStep

\* A mount in progress is given up: its root is released once.
LEMMA GiveUpOK ==
  ASSUME IInv, Walking, req.op = "target",
         End(Rele(Rele(Cross(req.at), Crossed(req.at)), req.new)),
         UNCHANGED <<fs, fd, cwd, alive, dying>>
  PROVE  IInv' /\ Kept(vn, vn')
<1>1. PICK m : m = Rele(Cross(req.at), Crossed(req.at)) OBVIOUS
<1>2. m \in Table /\ Balanced(m, [Places EXCEPT ![W] = NoNode]) /\ Kept(vn, m)
  BY <1>1, DropBalanced
<1>3. vn' = Rele(m, req.new) /\ req' = Idle BY <1>1 DEF End
<1>4. PICK f \in Mounts : f = vn[req.new].list /\ f \in Slots
  BY DEF IInv, NewOK, Slots
<1>5. Pending(f) /\ fs[f].root = req.new /\ req.new \in Nodes
  BY <1>4 DEF Pending, IInv, NewOK, ReqOK
<1>. DEFINE s == RootSlot(f)
            t == <<"mounted", f>>
            P == [Places EXCEPT ![W] = NoNode]
            R == [P EXCEPT ![s] = NoNode]
            Q == [R EXCEPT ![t] = NoNode]
<1>6. /\ s \in RefSlots /\ s # W /\ s \in FsSlots /\ t \in RefSlots /\ t # W /\ t \in FsSlots
      /\ s # t /\ Places[s] = req.new /\ Places \in RefMap /\ W \in RefSlots
  <2>1. s \in RefSlots /\ s # W /\ Places[s] = req.new /\ Places \in RefMap
    BY <1>5, RootHeld
  <2>2. t \in FsSlots /\ s \in FsSlots /\ s # t BY DEF FsSlots, RootSlot
  <2>. QED BY <2>1, <2>2, SlotFacts
<1>7. P \in RefMap /\ P[s] = req.new BY <1>6 DEF RefMap, NodeOrNone
<1>8. vn' \in Table /\ Balanced(vn', R) /\ Kept(m, vn')
  BY <1>2, <1>3, <1>5, <1>6, <1>7, ReleBalanced
<1>9. R \in RefMap /\ Q \in RefMap BY <1>7 DEF RefMap, NodeOrNone
<1>10. Balanced(vn', Q)
  <2>1. ~Exact BY DEF IInv, ReqOK, Exact
  <2>. QED BY <1>6, <1>8, <1>9, <2>1, LeakBalanced
<1>11. ReqOK' /\ Walker' = NoNode /\ req'.op # "target" BY <1>3, EndOK
<1>12. /\ Q[W] = NoNode /\ Q[s] = NoNode /\ Q[t] = NoNode
       /\ \A h \in RefSlots : h # W /\ h # s /\ h # t => Q[h] = Places[h]
  BY <1>6 DEF RefMap
<1>. HIDE DEF Q
<1>13. Typed' /\ DeadEmpty' BY DEF IInv, Typed, DeadEmpty
<1>14. Kept(vn, vn') BY <1>2, <1>8, KeptTransitive
<1>15. Slots' = Slots /\ \A u \in Nodes : vn'[u].mnt = vn[u].mnt
  BY <1>14 DEF Slots, Kept
<1>16. FsOK' BY <1>15 DEF IInv, FsOK
<1>17. NewOK' BY <1>11 DEF NewOK
<1>18. ASSUME NEW h \in FsSlots PROVE Q[h] = MountPlace(h[1], h[2])'
  <2>1. h[1] \in {"covers", "root", "mounted"} /\ h[2] \in Mounts /\ h = <<h[1], h[2]>>
    BY SlotParts
  <2>2. \A g : ~Pending(g)' BY <1>11 DEF Pending
  <2>3. CASE h = s \/ h = t
    <3>1. h[1] # "covers" /\ h[2] = f BY <2>3, SlotParts DEF RootSlot
    <3>2. MountPlace(h[1], h[2])' = NoNode BY <1>4, <1>15, <2>2, <3>1 DEF MountPlace
    <3>. QED BY <1>12, <2>3, <3>2
  <2>4. CASE h # s /\ h # t
    <3>1. Q[h] = MountPlace(h[1], h[2]) BY <1>12, <2>4, SlotFacts, PlacesAt
    <3>2. h[1] = "covers" \/ h[2] # f BY <2>1, <2>4 DEF RootSlot
    <3>3. \A g : Pending(g) => g = f BY <1>4 DEF Pending
    <3>. QED BY <1>15, <2>2, <3>1, <3>2, <3>3 DEF MountPlace
  <2>. QED BY <2>3, <2>4
<1>19. \A p \in Procs, i \in Fds : Q[FdSlot(p, i)] = fd'[p][i]
  BY <1>6, <1>12, SlotFacts, PlacesAt
<1>20. \A p \in Procs : Q[CwdSlot(p)] = cwd'[p] BY <1>6, <1>12, SlotFacts, PlacesAt
<1>. QED BY <1>8, <1>9, <1>10, <1>11, <1>12, <1>13, <1>14, <1>16, <1>17, <1>18, <1>19, <1>20,
            Rebalanced

LEMMA LookupFailsOK ==
  ASSUME IInv, LookupFails
  PROVE  IInv' /\ Kept(vn, vn')
<1>1. Walking /\ UNCHANGED <<fs, fd, cwd, alive, dying>> BY DEF LookupFails
<1>2. CASE req.op = "target"
  <2>1. req.new # NoNode BY <1>2 DEF IInv, ReqOK, Nodes, NoNode
  <2>. QED BY <1>1, <1>2, <2>1, GiveUpOK DEF LookupFails
<1>3. CASE req.op # "target"
  <2>1. req.new = NoNode BY <1>3 DEF IInv, ReqOK
  <2>. QED BY <1>1, <1>3, <2>1, DropOK DEF LookupFails
<1>. QED BY <1>2, <1>3

LEMMA NotMountedOK ==
  ASSUME IInv, NotMounted
  PROVE  IInv' /\ Kept(vn, vn')
<1>1. req.op = "target" /\ Walking BY DEF NotMounted, Arrived, Walking
<1>. QED BY <1>1, GiveUpOK DEF NotMounted, There, Reached

LEMMA ArrivedWalks ==
  ASSUME NEW op \in {"open", "chdir", "mkdir", "device", "target"}, Arrived(op)
  PROVE  Walking /\ req.op = op
BY DEF Arrived, Walking

-----------------------------------------------------------------------------
(* Mounts.                                                                 *)

\* The root found, and the vnodes of a failed mount put out of their list.
MountTable(kind, f, w) ==
  LET n == [u \in Nodes |-> IF vn[u].list = f THEN [vn[u] EXCEPT !.list = -1]
                            ELSE Reached[u]]
  IN  [n EXCEPT ![w] = [@ EXCEPT !.list = f, !.type = "dir",
                        !.key = IF kind = "devfs" THEN DEVFS ELSE ROOT,
                        !.count = Roots(kind)]]

LEMMA MountTableFacts ==
  ASSUME IInv, Walking, NEW kind, NEW f \in Slots, NEW w \in NextFree(Reached)
  PROVE  LET m == MountTable(kind, f, w)
         IN  /\ m \in Table /\ w \in Nodes /\ Reached[w].list = 0
             /\ m[w].list = f /\ m[w].count = Roots(kind)
             /\ \A u \in Nodes :
                  /\ m[u].mnt = vn[u].mnt
                  /\ u # w => /\ m[u].count = vn[u].count \/ m[u].count = Reached[u].count
                              /\ m[u].list = IF vn[u].list = f THEN -1 ELSE Reached[u].list
                              /\ m[u].list = -1 \/ m[u].count = Reached[u].count
                              /\ m[u].key = vn[u].key
<1>. DEFINE m == MountTable(kind, f, w)
            k == IF kind = "devfs" THEN DEVFS ELSE ROOT
            n == [u \in Nodes |-> IF vn[u].list = f THEN [vn[u] EXCEPT !.list = -1]
                                  ELSE Reached[u]]
<1>1. Reached \in Table /\ Kept(vn, Reached) /\ vn \in Table
  BY CrossBalanced DEF Reached, IInv
<1>2. w \in Nodes /\ Reached[w].list = 0 BY DEF NextFree, Unused
<1>3. f \in Mounts /\ k \in Objects /\ Roots(kind) \in Nat
  BY VfsAssumption DEF Slots, Objects, Roots
<1>4. ASSUME NEW u \in Nodes
      PROVE  /\ n[u] \in VnodeType /\ n[u].mnt = vn[u].mnt /\ n[u].key = vn[u].key
             /\ n[u].count = vn[u].count \/ n[u].count = Reached[u].count
             /\ n[u].list = IF vn[u].list = f THEN -1 ELSE Reached[u].list
             /\ n[u].list = -1 \/ n[u].count = Reached[u].count
  <2>1. vn[u] \in VnodeType /\ Reached[u] \in VnodeType BY <1>1 DEF Table
  <2>2. Reached[u].mnt = vn[u].mnt /\ Reached[u].key = vn[u].key BY <1>1 DEF Kept
  <2>3. PICK c : c = [vn[u] EXCEPT !.list = -1] OBVIOUS
  <2>4. /\ c \in VnodeType /\ c.mnt = vn[u].mnt /\ c.key = vn[u].key /\ c.count = vn[u].count
        /\ c.list = -1
    BY <2>1, <2>3 DEF VnodeType
  <2>5. n[u] = IF vn[u].list = f THEN c ELSE Reached[u] BY <2>3
  <2>. QED BY <2>1, <2>2, <2>4, <2>5
<1>5. m = [n EXCEPT ![w] = [n[w] EXCEPT !.list = f, !.type = "dir", !.key = k,
                                        !.count = Roots(kind)]]
  BY DEF MountTable
<1>6. PICK r : r = [n[w] EXCEPT !.list = f, !.type = "dir", !.key = k,
                                !.count = Roots(kind)]
  OBVIOUS
<1>. HIDE DEF k
<1>7. r \in VnodeType /\ r.list = f /\ r.count = Roots(kind) /\ r.mnt = n[w].mnt
  <2>1. n[w] \in VnodeType BY <1>2, <1>4
  <2>. HIDE DEF n
  <2>. QED BY <1>3, <1>6, <2>1 DEF VnodeType
<1>8. \A u \in Nodes : m[u] = IF u = w THEN r ELSE n[u] BY <1>5, <1>6
<1>9. m = [u \in Nodes |-> m[u]] BY <1>5
<1>. HIDE DEF m, n
<1>10. m \in Table BY <1>4, <1>7, <1>8, <1>9 DEF Table
<1>. QED BY <1>2, <1>4, <1>7, <1>8, <1>10 DEF m

LEMMA MountOK ==
  ASSUME IInv, NEW kind \in {"rfs", "fat", "devfs"}, NEW f \in Mounts, NEW w \in Nodes,
         NEW len \in 0..MaxPath, NEW v \in Nodes, Mount(kind, f, w, len, v)
  PROVE  IInv'
<1>1. PICK m : m = MountTable(kind, f, w) OBVIOUS
<1>2. /\ Walking /\ req.op = "device" /\ f \in Slots /\ w \in NextFree(Reached)
      /\ Start(req.pid, v) /\ vn' = Hold(m, v)
      /\ fs' = [fs EXCEPT ![f].kind = kind, ![f].root = w]
      /\ req' = [req EXCEPT !.op = "target", !.left = len, !.at = v, !.new = w]
      /\ UNCHANGED <<fd, cwd, alive, dying>>
  BY <1>1 DEF Mount, Arrived, Walking, MountTable
<1>3. /\ m \in Table /\ Reached[w].list = 0
      /\ m[w].list = f /\ m[w].count = Roots(kind)
      /\ \A u \in Nodes :
           /\ m[u].mnt = vn[u].mnt
           /\ u # w => /\ m[u].count = vn[u].count \/ m[u].count = Reached[u].count
                       /\ m[u].list = IF vn[u].list = f THEN -1 ELSE Reached[u].list
                       /\ m[u].list = -1 \/ m[u].count = Reached[u].count
  BY <1>1, <1>2, MountTableFacts
<1>4. ~Exact /\ "mount" \in Allowed BY <1>2 DEF IInv, ReqOK, Exact
<1>. DEFINE X == Crossed(req.at)
            Q == [Places EXCEPT ![W] = X]
            P == [Places EXCEPT ![W] = NoNode]
            s == RootSlot(f)
            t == <<"mounted", f>>
            r == IF kind = "rfs" THEN NoNode ELSE w
            A == [P EXCEPT ![s] = w]
            B == [A EXCEPT ![t] = r]
            C == [B EXCEPT ![W] = v]
<1>5. /\ Reached \in Table /\ Q \in RefMap /\ Balanced(Reached, Q) /\ W \in RefSlots
      /\ Places \in RefMap /\ vn \in Table /\ Balanced(vn, Places)
  BY <1>2, CrossBalanced, SlotFacts, RootHeld DEF Reached, IInv
<1>6. P \in RefMap /\ [Q EXCEPT ![W] = NoNode] = P BY <1>5 DEF RefMap, NodeOrNone
<1>7. Balanced(Reached, P) /\ Balanced(vn, P) BY <1>4, <1>5, <1>6, LeakBalanced
<1>8. /\ s \in FsSlots /\ t \in FsSlots /\ s # t /\ s \in RefSlots /\ t \in RefSlots
      /\ s # W /\ t # W
  <2>1. t \in FsSlots /\ s \in FsSlots /\ s # t BY DEF FsSlots, RootSlot
  <2>. QED BY <2>1, SlotFacts
<1>9. P[s] = NoNode /\ P[t] = NoNode
  <2>1. \A g : ~Pending(g) BY <1>2 DEF Pending
  <2>2. MountPlace("root", f) = NoNode /\ MountPlace("mounted", f) = NoNode
    BY <1>2, <2>1 DEF MountPlace
  <2>3. Places[s] = MountPlace("root", f) /\ Places[t] = MountPlace("mounted", f)
    BY <1>8, PlacesAt DEF RootSlot
  <2>. QED BY <1>5, <1>8, <2>2, <2>3 DEF RefMap
<1>10. w \in NodeOrNone /\ r \in NodeOrNone /\ v \in NodeOrNone /\ w # NoNode
  BY DEF NodeOrNone, Nodes, NoNode
<1>. HIDE DEF P, r, s, t
<1>11. A \in RefMap /\ A[t] = NoNode /\ A[W] = NoNode
  <2>1. P[W] = NoNode BY <1>5, <1>6 DEF P, RefMap
  <2>. QED BY <1>6, <1>8, <1>9, <1>10, <2>1 DEF RefMap
<1>. HIDE DEF A
<1>12. B \in RefMap /\ B[W] = NoNode BY <1>8, <1>10, <1>11 DEF RefMap
\* The counts.
<1>13. ASSUME NEW u \in Nodes
       PROVE  /\ m[u].count >= Cardinality(RefTo(B, u))
              /\ m[u].list = 0 => m[u].count = 0
  <2>1. /\ Cardinality(RefTo(P, u)) \in Nat /\ Cardinality(RefTo(A, u)) \in Nat
        /\ u = w => Cardinality(RefTo(A, u)) = Cardinality(RefTo(P, u)) + 1
        /\ u # w => Cardinality(RefTo(A, u)) = Cardinality(RefTo(P, u))
    <3>1. /\ P \in RefMap /\ s \in RefSlots /\ w \in NodeOrNone /\ P[s] # u
      BY <1>6, <1>8, <1>9, <1>10 DEF Nodes, NoNode
    <3>. QED BY <3>1, CardPut DEF A
  <2>2. /\ u = r => Cardinality(RefTo(B, u)) = Cardinality(RefTo(A, u)) + 1
        /\ u # r => Cardinality(RefTo(B, u)) = Cardinality(RefTo(A, u))
    <3>1. /\ A \in RefMap /\ t \in RefSlots /\ r \in NodeOrNone /\ A[t] # u
      BY <1>8, <1>10, <1>11 DEF Nodes, NoNode
    <3>. QED BY <3>1, CardPut
  <2>3. /\ Reached[u].count \in Nat /\ vn[u].count \in Nat
        /\ Reached[u].count >= Cardinality(RefTo(P, u))
        /\ vn[u].count >= Cardinality(RefTo(P, u))
        /\ Reached[u].list = 0 => Reached[u].count = 0
    BY <1>5, <1>7 DEF Balanced, Table, VnodeType
  <2>4. CASE u = w
    <3>1. Cardinality(RefTo(P, u)) = 0 BY <1>3, <2>1, <2>3, <2>4
    <3>2. Roots(kind) = IF r = NoNode THEN 1 ELSE 2 BY <1>10 DEF Roots, r
    <3>3. f # 0 BY DEF Mounts
    <3>4. r # NoNode => r = w BY DEF r
    <3>5. Cardinality(RefTo(A, u)) = 1 BY <2>1, <2>4, <3>1
    <3>6. CASE r = NoNode
      <4>1. u # r /\ m[u].count = 1 BY <1>3, <1>10, <2>4, <3>2, <3>6
      <4>. QED BY <1>3, <2>2, <2>4, <3>3, <3>5, <4>1
    <3>7. CASE r # NoNode
      <4>1. u = r /\ m[u].count = 2 BY <1>3, <2>4, <3>2, <3>4, <3>7
      <4>. QED BY <1>3, <2>2, <2>4, <3>3, <3>5, <4>1
    <3>. QED BY <3>6, <3>7
  <2>5. CASE u # w
    <3>1. u # r BY <2>5 DEF Nodes, NoNode, r
    <3>2. Cardinality(RefTo(B, u)) = Cardinality(RefTo(P, u)) BY <2>1, <2>2, <2>5, <3>1
    <3>. QED BY <1>3, <2>3, <2>5, <3>2
  <2>. QED BY <2>4, <2>5
<1>14. Balanced(m, B) BY <1>4, <1>13 DEF Balanced
<1>15. m[v].list # 0
  <2>1. CASE v = fs[1].root
    <3>1. RootSlot(1) \in RefSlots /\ Places[RootSlot(1)] = v /\ RootSlot(1) # W
      BY <2>1, RootHeld
    <3>2. f # 1 BY <1>2, RootHeld
    <3>3. RootSlot(1) # s /\ RootSlot(1) # t BY <3>2 DEF RootSlot, s, t
    <3>4. B[RootSlot(1)] = v BY <1>5, <1>6, <3>1, <3>3 DEF RefMap, P, A
    <3>5. v # NoNode BY DEF Nodes, NoNode
    <3>6. PICK h \in RefSlots : B[h] = v BY <3>1, <3>4
    <3>. HIDE DEF B
    <3>. QED BY <1>3, <1>12, <1>14, <3>5, <3>6, HeldIsListed
  <2>2. CASE v = cwd[req.pid]
    <3>1. req.pid \in Procs BY DEF IInv, ReqOK, ReqType
    <3>2. CwdSlot(req.pid) \in RefSlots /\ Places[CwdSlot(req.pid)] = v
          /\ CwdSlot(req.pid) # W /\ CwdSlot(req.pid) # s /\ CwdSlot(req.pid) # t
      BY <1>8, <2>2, <3>1, SlotFacts, PlacesAt
    <3>3. B[CwdSlot(req.pid)] = v BY <1>5, <1>6, <3>2 DEF RefMap, P, A
    <3>5. v # NoNode BY DEF Nodes, NoNode
    <3>6. PICK h \in RefSlots : B[h] = v BY <3>2, <3>3
    <3>. HIDE DEF B
    <3>. QED BY <1>3, <1>12, <1>14, <3>5, <3>6, HeldIsListed
  <2>. QED BY <1>2, <2>1, <2>2 DEF Start
<1>16. vn' \in Table /\ Balanced(vn', C) /\ Kept(m, vn') /\ vn'[w].list = f
  <2>1. Hold(m, v)[w].list = m[w].list BY <1>3, HoldFacts
  <2>. QED BY <1>2, <1>3, <1>5, <1>12, <1>14, <1>15, <2>1, HoldBalanced
<1>17. C \in RefMap BY <1>10, <1>12 DEF RefMap
<1>18. /\ C[W] = v /\ C[s] = w /\ C[t] = r
       /\ \A h \in RefSlots : h # W /\ h # s /\ h # t => C[h] = Places[h]
  BY <1>5, <1>6, <1>8 DEF RefMap, P, A
<1>. USE DEF r, s, t
<1>. HIDE DEF C
<1>19. /\ req' \in ReqType /\ req'.op = "target" /\ req'.at = v /\ req'.new = w
       /\ req'.pid = req.pid
  BY <1>2, <1>10 DEF IInv, ReqOK, ReqType
<1>20. ReqOK' /\ Walker' = v
  BY <1>2, <1>4, <1>19 DEF IInv, ReqOK, Walker, Walking
<1>21. /\ fs' \in [Mounts -> [kind : {"none", "rfs", "fat", "devfs"},
                              root : NodeOrNone, covered : NodeOrNone]]
       /\ fs'[f].root = w /\ fs'[f].kind = kind /\ fs'[f].covered = fs[f].covered
       /\ \A g \in Mounts : g # f => fs'[g] = fs[g]
  BY <1>2, <1>10 DEF IInv, FsOK
<1>22. Slots' = Slots BY <1>21 DEF Slots
<1>23. FsOK'
  <2>1. \A u \in Nodes : vn'[u].mnt = vn[u].mnt BY <1>3, <1>16 DEF Kept
  <2>. QED BY <1>2, <1>4, <1>21, <1>22, <2>1 DEF IInv, FsOK
<1>24. NewOK' BY <1>2, <1>16, <1>19, <1>21, <1>22 DEF NewOK
<1>25. Typed' /\ DeadEmpty' BY <1>2 DEF IInv, Typed, DeadEmpty
<1>26. ASSUME NEW h \in FsSlots PROVE C[h] = MountPlace(h[1], h[2])'
  <2>1. h[1] \in {"covers", "root", "mounted"} /\ h[2] \in Mounts /\ h = <<h[1], h[2]>>
    BY SlotParts
  <2>2. \A g : Pending(g)' <=> g = f BY <1>16, <1>19 DEF Pending
  <2>3. \A g : ~Pending(g) BY <1>2 DEF Pending
  <2>4. CASE h = s
    <3>1. h[1] = "root" /\ h[2] = f BY <2>4, SlotParts
    <3>. QED BY <1>18, <1>21, <2>2, <2>4, <3>1 DEF MountPlace
  <2>5. CASE h = t
    <3>1. h[1] = "mounted" /\ h[2] = f BY <2>5
    <3>. QED BY <1>18, <1>21, <2>2, <2>5, <3>1 DEF MountPlace
  <2>6. CASE h # s /\ h # t
    <3>1. C[h] = MountPlace(h[1], h[2]) BY <1>18, <2>6, SlotFacts, PlacesAt
    <3>2. h[1] = "covers" \/ h[2] # f BY <2>1, <2>6 DEF RootSlot
    <3>. QED BY <1>21, <1>22, <2>1, <2>2, <2>3, <3>1, <3>2 DEF MountPlace
  <2>. QED BY <2>4, <2>5, <2>6
<1>27. \A p \in Procs, i \in Fds : C[FdSlot(p, i)] = fd'[p][i]
  BY <1>2, <1>8, <1>18, SlotFacts, PlacesAt
<1>28. \A p \in Procs : C[CwdSlot(p)] = cwd'[p] BY <1>2, <1>8, <1>18, SlotFacts, PlacesAt
<1>. QED BY <1>16, <1>17, <1>18, <1>20, <1>23, <1>24, <1>25, <1>26, <1>27, <1>28,
            Rebalanced

LEMMA MountedOK ==
  ASSUME IInv, Mounted
  PROVE  IInv'
<1>. DEFINE v == Crossed(req.at)
            n == Cross(req.at)
            Q == [Places EXCEPT ![W] = v]
<1>1. PICK f : f = vn[req.new].list OBVIOUS
<1>2. /\ Walking /\ req.op = "target"
      /\ fs' = [fs EXCEPT ![f].covered = v]
      /\ vn' = [n EXCEPT ![v].mnt = f] /\ req' = Idle
      /\ UNCHANGED <<fd, cwd, alive, dying>>
  BY <1>1 DEF Mounted, Arrived, Walking, End, There, Reached
<1>3. /\ f \in Slots /\ f \in Mounts /\ fs[f].root = req.new /\ req.new \in Nodes
      /\ fs[f].covered = NoNode
  BY <1>1, <1>2 DEF IInv, NewOK, ReqOK, Slots
<1>4. /\ v \in Nodes /\ n \in Table /\ Q \in RefMap /\ Balanced(n, Q) /\ Kept(vn, n)
      /\ W \in RefSlots /\ Places \in RefMap
  BY <1>2, CrossBalanced, SlotFacts, RootHeld
<1>. DEFINE c == <<"covers", f>>
            P == [[Q EXCEPT ![c] = v] EXCEPT ![W] = NoNode]
<1>5. c \in FsSlots /\ c \in RefSlots /\ c # W BY <1>3, SlotFacts DEF FsSlots
<1>6. Q[c] = NoNode /\ Q[W] = v
  <2>1. Places[c] = MountPlace("covers", f) BY <1>5, PlacesAt
  <2>2. MountPlace("covers", f) = NoNode BY <1>3 DEF MountPlace
  <2>. QED BY <1>4, <1>5, <2>1, <2>2 DEF RefMap
<1>7. Balanced(n, P) BY <1>4, <1>5, <1>6, PassBalanced
<1>8. /\ vn' \in Table
      /\ \A u \in Nodes : /\ vn'[u].count = n[u].count /\ vn'[u].list = n[u].list
                          /\ vn'[u].mnt = IF u = v THEN f ELSE n[u].mnt
  <2>1. \A u \in Nodes : n[u] \in VnodeType BY <1>4 DEF Table
  <2>2. PICK r : r = [n[v] EXCEPT !.mnt = f] OBVIOUS
  <2>3. r \in VnodeType /\ r.count = n[v].count /\ r.list = n[v].list /\ r.mnt = f
    BY <1>3, <1>4, <2>1, <2>2 DEF VnodeType
  <2>. HIDE DEF n, v
  <2>4. \A u \in Nodes : vn'[u] = IF u = v THEN r ELSE n[u]
    BY <1>2, <1>4, <2>2 DEF Table
  <2>5. vn' = [u \in Nodes |-> vn'[u]] BY <1>2, <1>4 DEF Table
  <2>. QED BY <2>1, <2>3, <2>4, <2>5 DEF Table
<1>9. Balanced(vn', P) BY <1>7, <1>8, SameBalanced
<1>10. P \in RefMap BY <1>4 DEF RefMap, NodeOrNone
<1>11. /\ P[W] = NoNode /\ P[c] = v
       /\ \A h \in RefSlots : h # W /\ h # c => P[h] = Places[h]
  BY <1>4, <1>5 DEF RefMap
<1>. HIDE DEF P
<1>12. ReqOK' /\ Walker' = NoNode /\ req'.op # "target" BY <1>2, EndOK
<1>13. Typed' /\ DeadEmpty' BY <1>2 DEF IInv, Typed, DeadEmpty
<1>14. /\ fs' \in [Mounts -> [kind : {"none", "rfs", "fat", "devfs"},
                              root : NodeOrNone, covered : NodeOrNone]]
       /\ fs'[f].covered = v
       /\ \A g \in Mounts : fs'[g].root = fs[g].root /\ fs'[g].kind = fs[g].kind
       /\ \A g \in Mounts : g # f => fs'[g].covered = fs[g].covered
  BY <1>2, <1>3, <1>4 DEF IInv, FsOK, NodeOrNone
<1>15. Slots' = Slots \ {f}
  <2>1. v # NoNode BY <1>4 DEF Nodes, NoNode
  <2>. QED BY <1>14, <2>1 DEF Slots
<1>16. FsOK'
  <2>1. "mount" \in Allowed BY <1>2 DEF IInv, ReqOK
  <2>2. \A g \in Mounts \ Slots' : fs'[g].root \in Nodes
    BY <1>3, <1>14, <1>15 DEF IInv, FsOK
  <2>3. \A u \in Nodes : vn'[u].mnt # 0 => vn'[u].mnt \notin Slots'
    BY <1>4, <1>8, <1>15 DEF IInv, FsOK, Kept
  <2>. QED BY <1>14, <2>1, <2>2, <2>3 DEF FsOK
<1>17. NewOK' BY <1>12 DEF NewOK
<1>18. ASSUME NEW h \in FsSlots PROVE P[h] = MountPlace(h[1], h[2])'
  <2>1. h[1] \in {"covers", "root", "mounted"} /\ h[2] \in Mounts /\ h = <<h[1], h[2]>>
    BY SlotParts
  <2>2. \A g : Pending(g) <=> g = f BY <1>1, <1>2 DEF Pending
  <2>3. \A g : ~Pending(g)' BY <1>12 DEF Pending
  <2>4. CASE h = c
    <3>1. h[1] = "covers" /\ h[2] = f BY <2>4
    <3>. QED BY <1>11, <1>14, <2>4, <3>1 DEF MountPlace
  <2>5. CASE h # c
    <3>1. P[h] = MountPlace(h[1], h[2]) BY <1>11, <2>5, SlotFacts, PlacesAt
    <3>2. h[1] # "covers" \/ h[2] # f BY <2>1, <2>5
    <3>. QED BY <1>3, <1>14, <1>15, <2>1, <2>2, <2>3, <3>1, <3>2 DEF MountPlace
  <2>. QED BY <2>4, <2>5
<1>19. \A p \in Procs, i \in Fds : P[FdSlot(p, i)] = fd'[p][i]
  BY <1>2, <1>5, <1>11, SlotFacts, PlacesAt
<1>20. \A p \in Procs : P[CwdSlot(p)] = cwd'[p] BY <1>2, <1>5, <1>11, SlotFacts, PlacesAt
<1>. QED BY <1>8, <1>9, <1>10, <1>11, <1>12, <1>13, <1>16, <1>17, <1>18, <1>19, <1>20,
            Rebalanced

-----------------------------------------------------------------------------
(* Descriptors and current directories.                                    *)

\* A descriptor changes, and nothing else but the walk.
LEMMA FdStep ==
  ASSUME IInv, UNCHANGED <<cwd, alive, dying>>, MountsStay, ReqOK', vn' \in Table,
         NEW p \in Procs, Calm => p \in alive \ dying, NEW i \in Fds, NEW v \in NodeOrNone,
         fd' = [fd EXCEPT ![p][i] = v],
         Balanced(vn', [[Places EXCEPT ![FdSlot(p, i)] = v] EXCEPT ![W] = Walker'])
  PROVE  IInv'
<1>. DEFINE s == FdSlot(p, i)
            P == [Places EXCEPT ![s] = v]
            Q == [P EXCEPT ![W] = Walker']
<1>1. s \in RefSlots /\ W \in RefSlots /\ s # W BY SlotFacts
<1>2. Walker' \in NodeOrNone BY DEF ReqOK, Walker, NodeOrNone
<1>3. /\ Q \in RefMap /\ Q[s] = v /\ Q[W] = Walker'
      /\ \A h \in RefSlots : h # W /\ h # s => Q[h] = Places[h]
  BY <1>1, <1>2, RootHeld DEF RefMap
<1>4. Typed' /\ DeadEmpty'
  BY <1>1 DEF IInv, Typed, DeadEmpty
<1>. HIDE DEF Q
<1>5. \A q \in Procs, j \in Fds : Q[FdSlot(q, j)] = fd'[q][j]
  <2>1. \A q \in Procs, j \in Fds : fd'[q][j] = IF q = p /\ j = i THEN v ELSE fd[q][j]
    BY <1>1 DEF IInv, Typed
  <2>. QED BY <1>1, <1>3, <2>1, SlotFacts, PlacesAt, SMTT(30)
<1>6. \A q \in Procs : Q[CwdSlot(q)] = cwd'[q]
  BY <1>1, <1>3, SlotFacts, PlacesAt
<1>7. /\ FsOK' /\ NewOK'
      /\ \A h \in FsSlots : Q[h] = MountPlace(h[1], h[2])'
  BY <1>1, <1>3, SlotFacts, MountsKept
<1>8. Balanced(vn', Q) BY DEF Q
<1>. QED BY <1>3, <1>4, <1>5, <1>6, <1>7, <1>8, Rebalanced

\* A current directory changes, and nothing else but the walk.
LEMMA CwdStep ==
  ASSUME IInv, UNCHANGED <<fd, alive, dying>>, MountsStay, ReqOK', vn' \in Table,
         NEW p \in Procs, Calm => p \in alive \ dying, NEW v \in NodeOrNone,
         cwd' = [cwd EXCEPT ![p] = v],
         Balanced(vn', [[Places EXCEPT ![CwdSlot(p)] = v] EXCEPT ![W] = Walker'])
  PROVE  IInv'
<1>. DEFINE s == CwdSlot(p)
            P == [Places EXCEPT ![s] = v]
            Q == [P EXCEPT ![W] = Walker']
<1>1. s \in RefSlots /\ W \in RefSlots /\ s # W BY SlotFacts
<1>2. Walker' \in NodeOrNone BY DEF ReqOK, Walker, NodeOrNone
<1>3. /\ Q \in RefMap /\ Q[s] = v /\ Q[W] = Walker'
      /\ \A h \in RefSlots : h # W /\ h # s => Q[h] = Places[h]
  BY <1>1, <1>2, RootHeld DEF RefMap
<1>4. Typed' /\ DeadEmpty'
  BY <1>1 DEF IInv, Typed, DeadEmpty
<1>. HIDE DEF Q
<1>5. \A q \in Procs, j \in Fds : Q[FdSlot(q, j)] = fd'[q][j]
  BY <1>1, <1>3, SlotFacts, PlacesAt, SMTT(30)
<1>6. \A q \in Procs : Q[CwdSlot(q)] = cwd'[q]
  <2>1. \A q \in Procs : cwd'[q] = IF q = p THEN v ELSE cwd[q]
    BY <1>1 DEF IInv, Typed
  <2>. QED BY <1>1, <1>3, <2>1, SlotFacts, PlacesAt
<1>7. /\ FsOK' /\ NewOK'
      /\ \A h \in FsSlots : Q[h] = MountPlace(h[1], h[2])'
  BY <1>1, <1>3, SlotFacts, MountsKept
<1>8. Balanced(vn', Q) BY DEF Q
<1>. QED BY <1>3, <1>4, <1>5, <1>6, <1>7, <1>8, Rebalanced

\* The reference of a walk that has arrived passes to an empty slot.
LEMMA KeepBalanced ==
  ASSUME IInv, Walking, NEW t \in RefSlots, t # W, Places[t] = NoNode
  PROVE  LET v == Crossed(req.at)
         IN  Balanced(Cross(req.at), [[Places EXCEPT ![t] = v] EXCEPT ![W] = NoNode])
<1>. DEFINE v == Crossed(req.at)
            Q == [Places EXCEPT ![W] = v]
            P == [[Q EXCEPT ![t] = v] EXCEPT ![W] = NoNode]
<1>1. Q \in RefMap /\ v \in Nodes /\ Cross(req.at) \in Table
      /\ Balanced(Cross(req.at), Q)
  BY CrossBalanced
<1>2. W \in RefSlots /\ Q[W] = v /\ Q[t] = NoNode
  BY RootHeld, SlotFacts DEF RefMap
<1>3. Balanced(Cross(req.at), P) BY <1>1, <1>2, PassBalanced
<1>4. P = [[Places EXCEPT ![t] = v] EXCEPT ![W] = NoNode]
  BY RootHeld, SlotFacts DEF RefMap
<1>. QED BY <1>3, <1>4

LEMMA OpenOK ==
  ASSUME IInv, NEW i \in Fds, Open(i)
  PROVE  IInv' /\ Kept(vn, vn')
<1>. DEFINE p == req.pid
            v == Crossed(req.at)
<1>1. /\ Walking /\ req.op = "open" /\ p \in Procs /\ (Calm => p \in alive \ dying)
      /\ fd[p][i] = NoNode
      /\ fd' = [fd EXCEPT ![p][i] = v] /\ vn' = Cross(req.at) /\ req' = Idle
      /\ UNCHANGED <<fs, cwd, alive, dying>>
  BY ArrivedWalks
     DEF Open, FirstFd, End, There, Reached, IInv, ReqOK, ReqType, Walking
<1>2. FdSlot(p, i) \in RefSlots /\ FdSlot(p, i) # W /\ Places[FdSlot(p, i)] = NoNode
  BY <1>1, SlotFacts, PlacesAt
<1>3. ReqOK' /\ Walker' = NoNode /\ req'.op # "target" BY <1>1, EndOK
<1>4. Balanced(vn', [[Places EXCEPT ![FdSlot(p, i)] = v] EXCEPT ![W] = Walker'])
  BY <1>1, <1>2, <1>3, KeepBalanced
<1>5. vn' \in Table /\ v \in NodeOrNone /\ Kept(vn, vn')
  BY <1>1, CrossBalanced DEF NodeOrNone
<1>6. MountsStay BY <1>1, <1>3, <1>5, NoMount
<1>. QED BY <1>1, <1>3, <1>4, <1>5, <1>6, FdStep

\* The directory that the process leaves, if it has one, keeps the reference.
LEMMA ChdirOK ==
  ASSUME IInv, Chdir
  PROVE  IInv' /\ Kept(vn, vn')
<1>. DEFINE p == req.pid
            v == Crossed(req.at)
            s == CwdSlot(p)
            Q == [Places EXCEPT ![W] = v]
            R == [Q EXCEPT ![s] = NoNode]
            P == [[R EXCEPT ![s] = v] EXCEPT ![W] = NoNode]
<1>1. /\ Walking /\ req.op = "chdir" /\ p \in Procs /\ (Calm => p \in alive \ dying)
      /\ "leave" \in Allowed \/ cwd[p] = NoNode
      /\ cwd' = [cwd EXCEPT ![p] = v] /\ vn' = Cross(req.at) /\ req' = Idle
      /\ UNCHANGED <<fs, fd, alive, dying>>
  BY DEF Chdir, Arrived, End, There, Reached, IInv, ReqOK, ReqType, Walking
<1>2. s \in RefSlots /\ s # W /\ Places[s] = cwd[p] /\ W \in RefSlots
  BY <1>1, SlotFacts, PlacesAt
<1>3. ReqOK' /\ Walker' = NoNode /\ req'.op # "target" BY <1>1, EndOK
<1>4. /\ vn' \in Table /\ v \in Nodes /\ v \in NodeOrNone /\ Kept(vn, vn')
      /\ Q \in RefMap /\ Balanced(vn', Q) /\ Places \in RefMap
  BY <1>1, CrossBalanced, RootHeld DEF NodeOrNone
<1>5. R \in RefMap /\ Balanced(vn', R)
  <2>1. R \in RefMap BY <1>4 DEF RefMap, NodeOrNone
  <2>2. CASE cwd[p] = NoNode
    <3>1. R = Q BY <1>2, <1>4, <2>2 DEF RefMap
    <3>. QED BY <1>4, <2>1, <3>1
  <2>3. CASE "leave" \in Allowed
    <3>1. ~Exact BY <2>3 DEF Exact
    <3>. QED BY <1>2, <1>4, <2>1, <3>1, LeakBalanced
  <2>. QED BY <1>1, <2>2, <2>3
<1>6. R[s] = NoNode /\ R[W] = v BY <1>2, <1>4 DEF RefMap
<1>. HIDE DEF R
<1>7. Balanced(vn', P) BY <1>2, <1>4, <1>5, <1>6, PassBalanced
<1>8. P = [[Places EXCEPT ![s] = v] EXCEPT ![W] = Walker']
  BY <1>2, <1>3, <1>4 DEF RefMap, R
<1>9. MountsStay BY <1>1, <1>3, <1>4, NoMount
<1>. QED BY <1>1, <1>3, <1>4, <1>7, <1>8, <1>9, CwdStep

\* A slot that is not the walk gives its vnode back.
LEMMA GiveBack ==
  ASSUME IInv, ~ Walking, NEW s \in RefSlots, s # W, Places[s] # NoNode
  PROVE  /\ Rele(vn, Places[s]) \in Table
         /\ Balanced(Rele(vn, Places[s]),
                     [[Places EXCEPT ![s] = NoNode] EXCEPT ![W] = NoNode])
         /\ Kept(vn, Rele(vn, Places[s]))
<1>1. Places \in RefMap /\ vn \in Table /\ Balanced(vn, Places) /\ Places[W] = NoNode
  BY RootHeld, PlacesAt DEF IInv, Walker
<1>2. Places[s] \in Nodes BY <1>1, HeldIsListed
<1>3. /\ Rele(vn, Places[s]) \in Table
      /\ Balanced(Rele(vn, Places[s]), [Places EXCEPT ![s] = NoNode])
      /\ Kept(vn, Rele(vn, Places[s]))
  BY <1>1, <1>2, ReleBalanced
<1>4. [[Places EXCEPT ![s] = NoNode] EXCEPT ![W] = NoNode] = [Places EXCEPT ![s] = NoNode]
  BY <1>1 DEF RefMap
<1>. QED BY <1>3, <1>4

LEMMA CloseOK ==
  ASSUME IInv, NEW p \in Procs, NEW i \in Fds, Close(p, i)
  PROVE  IInv' /\ Kept(vn, vn')
<1>1. /\ ~ Walking /\ (Calm => p \in alive \ dying) /\ fd[p][i] # NoNode
      /\ fd' = [fd EXCEPT ![p][i] = NoNode] /\ vn' = Rele(vn, fd[p][i])
      /\ req' = Idle /\ UNCHANGED <<fs, cwd, alive, dying>>
  BY DEF Close, End, Walking, Asks, Calm
<1>2. FdSlot(p, i) \in RefSlots /\ FdSlot(p, i) # W /\ Places[FdSlot(p, i)] = fd[p][i]
  BY SlotFacts, PlacesAt
<1>3. ReqOK' /\ Walker' = NoNode /\ req'.op # "target" BY <1>1, EndOK
<1>4. /\ vn' \in Table /\ Kept(vn, vn')
      /\ Balanced(vn', [[Places EXCEPT ![FdSlot(p, i)] = NoNode] EXCEPT ![W] = Walker'])
  BY <1>1, <1>2, <1>3, GiveBack
<1>5. NoNode \in NodeOrNone BY DEF NodeOrNone
<1>6. MountsStay BY <1>1, <1>3, <1>4, NoMount DEF Walking
<1>. QED BY <1>1, <1>3, <1>4, <1>5, <1>6, FdStep

LEMMA KillCloseOK ==
  ASSUME IInv, NEW i \in Fds, KillClose(i)
  PROVE  IInv' /\ Kept(vn, vn')
<1>. DEFINE p == req.pid
<1>1. /\ ~ Walking /\ p \in Procs /\ (Calm => p \in alive \ dying) /\ fd[p][i] # NoNode
      /\ fd' = [fd EXCEPT ![p][i] = NoNode] /\ vn' = Rele(vn, fd[p][i])
      /\ req' = req /\ UNCHANGED <<fs, cwd, alive, dying>>
  BY DEF KillClose, Walking, IInv, ReqOK, ReqType
<1>2. FdSlot(p, i) \in RefSlots /\ FdSlot(p, i) # W /\ Places[FdSlot(p, i)] = fd[p][i]
  BY <1>1, SlotFacts, PlacesAt
<1>3. ReqOK' /\ Walker' = NoNode /\ req'.op # "target"
  BY <1>1 DEF IInv, ReqOK, Walker, Walking
<1>4. /\ vn' \in Table /\ Kept(vn, vn')
      /\ Balanced(vn', [[Places EXCEPT ![FdSlot(p, i)] = NoNode] EXCEPT ![W] = Walker'])
  BY <1>1, <1>2, <1>3, GiveBack
<1>5. NoNode \in NodeOrNone BY DEF NodeOrNone
<1>6. MountsStay BY <1>1, <1>3, <1>4, NoMount DEF Walking
<1>. QED BY <1>1, <1>3, <1>4, <1>5, <1>6, FdStep

LEMMA SysdirBackOK ==
  ASSUME IInv, SysdirBack
  PROVE  IInv' /\ Kept(vn, vn')
<1>1. /\ ~ Walking /\ SYS \in alive \ dying /\ SYS \in Procs /\ cwd[SYS] # NoNode
      /\ cwd' = [cwd EXCEPT ![SYS] = NoNode] /\ vn' = Rele(vn, cwd[SYS])
      /\ req' = Idle /\ UNCHANGED <<fs, fd, alive, dying>>
  BY DEF SysdirBack, End, Walking, Asks, IInv, Typed, Procs
<1>2. CwdSlot(SYS) \in RefSlots /\ CwdSlot(SYS) # W /\ Places[CwdSlot(SYS)] = cwd[SYS]
  BY <1>1, SlotFacts, PlacesAt
<1>3. ReqOK' /\ Walker' = NoNode /\ req'.op # "target" BY <1>1, EndOK
<1>4. /\ vn' \in Table /\ Kept(vn, vn')
      /\ Balanced(vn', [[Places EXCEPT ![CwdSlot(SYS)] = NoNode] EXCEPT ![W] = Walker'])
  BY <1>1, <1>2, <1>3, GiveBack
<1>5. NoNode \in NodeOrNone BY DEF NodeOrNone
<1>6. MountsStay BY <1>1, <1>3, <1>4, NoMount DEF Walking
<1>. QED BY <1>1, <1>3, <1>4, <1>5, <1>6, CwdStep

LEMMA SysdirOK ==
  ASSUME IInv, NEW p \in Users, Sysdir(p)
  PROVE  IInv' /\ Kept(vn, vn')
<1>. DEFINE v == cwd[p]
            s == CwdSlot(SYS)
<1>1. /\ req.op = "idle" /\ SYS \in alive \ dying /\ SYS \in Procs /\ p \in Procs
      /\ cwd[SYS] = NoNode
      /\ cwd' = [cwd EXCEPT ![SYS] = v]
      /\ vn' = IF v = NoNode THEN vn ELSE Hold(vn, v)
      /\ req' = Idle /\ UNCHANGED <<fs, fd, alive, dying>>
  BY DEF Sysdir, End, Asks, IInv, Typed, Procs
<1>2. /\ s \in RefSlots /\ W \in RefSlots /\ s # W /\ CwdSlot(p) \in RefSlots
      /\ Places[s] = NoNode /\ Places[CwdSlot(p)] = v /\ Places[W] = NoNode
      /\ Places \in RefMap /\ vn \in Table /\ Balanced(vn, Places)
  BY <1>1, SlotFacts, PlacesAt, RootHeld DEF IInv, Procs, Walker, Walking
<1>3. ReqOK' /\ Walker' = NoNode /\ req'.op # "target" BY <1>1, EndOK
<1>4. v \in NodeOrNone BY <1>1 DEF IInv, Typed
<1>5. [[Places EXCEPT ![s] = v] EXCEPT ![W] = Walker'] = [Places EXCEPT ![s] = v]
  BY <1>2, <1>3 DEF RefMap
<1>6. vn' \in Table /\ Balanced(vn', [Places EXCEPT ![s] = v]) /\ Kept(vn, vn')
  <2>1. CASE v = NoNode
    <3>1. [Places EXCEPT ![s] = v] = Places BY <1>2, <2>1 DEF RefMap
    <3>. QED BY <1>1, <1>2, <2>1, <3>1, KeptSelf
  <2>2. CASE v # NoNode
    <3>1. v \in Nodes /\ vn[v].list # 0 BY <1>2, <2>2, HeldIsListed
    <3>. QED BY <1>1, <1>2, <2>2, <3>1, HoldBalanced
  <2>. QED BY <2>1, <2>2
<1>7. MountsStay BY <1>1, <1>3, <1>6, NoMount
<1>. QED BY <1>1, <1>3, <1>4, <1>5, <1>6, <1>7, CwdStep

LEMMA KillOK ==
  ASSUME IInv, NEW p \in Users, Kill(p)
  PROVE  IInv' /\ Kept(vn, vn')
<1>1. /\ req.op = "idle" /\ p \in alive \ dying /\ p # SYS /\ p \in Procs
      /\ req' = [Idle EXCEPT !.op = "kill", !.pid = p]
      /\ UNCHANGED <<vn, fs, fd, cwd, alive, dying>>
  BY DEF Kill, Asks, Procs
<1>2. /\ req' \in ReqType /\ req'.op = "kill" /\ req'.pid = p /\ req'.new = NoNode
  BY <1>1, IdleOK DEF ReqType
<1>3. ReqOK' /\ Walker' = NoNode /\ Walker = NoNode
  BY <1>1, <1>2 DEF ReqOK, Walker, Walking
<1>4. Places[W] = NoNode /\ Places \in RefMap /\ vn \in Table /\ Balanced(vn, Places)
  BY <1>3, PlacesAt, RootHeld DEF IInv
<1>5. [Places EXCEPT ![W] = NoNode] = Places BY <1>4 DEF RefMap
<1>6. NoNode \in NodeOrNone BY DEF NodeOrNone
<1>7. Kept(vn, vn') /\ MountsStay BY <1>1, <1>2, NoMount, KeptSelf
<1>. QED BY <1>1, <1>3, <1>4, <1>5, <1>6, <1>7, WalkStep

LEMMA KillEndOK ==
  ASSUME IInv, KillEnd
  PROVE  IInv' /\ Kept(vn, vn')
<1>. DEFINE p == req.pid
            v == cwd[p]
            s == CwdSlot(p)
            Q == [Places EXCEPT ![s] = NoNode]
<1>1. /\ ~ Walking /\ p \in Procs /\ p # SYS
      /\ \A i \in Fds : fd[p][i] = NoNode
      /\ dying' = {p} /\ cwd' = [cwd EXCEPT ![p] = NoNode]
      /\ vn' = (IF v = NoNode THEN vn ELSE Rele(vn, v))
      /\ req' = Idle /\ UNCHANGED <<fs, fd, alive>>
  BY DEF KillEnd, End, Walking, IInv, ReqOK, ReqType
<1>2. /\ s \in RefSlots /\ W \in RefSlots /\ s # W /\ Places[s] = v /\ Places[W] = NoNode
      /\ Places \in RefMap /\ vn \in Table /\ Balanced(vn, Places)
  BY <1>1, SlotFacts, PlacesAt, RootHeld DEF IInv, Walker
<1>3. ReqOK' /\ Walker' = NoNode /\ req'.op # "target" BY <1>1, EndOK
<1>4. vn' \in Table /\ Balanced(vn', Q) /\ Kept(vn, vn')
  <2>1. CASE v = NoNode
    <3>1. Q = Places BY <1>2, <2>1 DEF RefMap
    <3>. QED BY <1>1, <1>2, <2>1, <3>1, KeptSelf
  <2>2. CASE v # NoNode
    <3>1. v \in Nodes BY <1>2, <2>2, HeldIsListed
    <3>. QED BY <1>1, <1>2, <2>2, <3>1, ReleBalanced
  <2>. QED BY <2>1, <2>2
<1>5. NoNode \in NodeOrNone BY DEF NodeOrNone
<1>6. Typed' BY <1>1, <1>5 DEF IInv, Typed, Procs
<1>7. DeadEmpty' BY <1>1 DEF IInv, Typed, DeadEmpty
<1>8. /\ Q \in RefMap /\ Q[s] = NoNode
      /\ \A h \in RefSlots : h # s => Q[h] = Places[h]
  BY <1>2, <1>5 DEF RefMap
<1>. HIDE DEF Q
<1>9. \A q \in Procs, j \in Fds : Q[FdSlot(q, j)] = fd'[q][j]
  BY <1>1, <1>8, SlotFacts, PlacesAt
<1>10. \A q \in Procs : Q[CwdSlot(q)] = cwd'[q]
  <2>1. \A q \in Procs : cwd'[q] = IF q = p THEN NoNode ELSE cwd[q]
    BY <1>1 DEF IInv, Typed
  <2>. QED BY <1>1, <1>8, <2>1, SlotFacts, PlacesAt
<1>11. MountsStay BY <1>1, <1>3, <1>4, NoMount DEF Walking
<1>12. Q[W] = Walker' BY <1>2, <1>3, <1>8
<1>13. /\ FsOK' /\ NewOK'
       /\ \A h \in FsSlots : Q[h] = MountPlace(h[1], h[2])'
  BY <1>1, <1>8, <1>11, SlotFacts, MountsKept
<1>. QED BY <1>3, <1>4, <1>6, <1>7, <1>8, <1>9, <1>10, <1>11, <1>12, <1>13, Rebalanced

\* No reference changes; one of those that are dying may be gone.
LEMMA UseOK ==
  ASSUME IInv, UNCHANGED <<vn, fs, fd, cwd, req>>,
         \/ UNCHANGED <<alive, dying>>
         \/ \E p \in dying : alive' = alive \ {p} /\ dying' = {}
  PROVE  IInv'
<1>1. Places' = Places
  BY DEF Places, Refs, MountRef, MountPlace, Pending, Slots, Walking
<1>2. FsOK' /\ NewOK' BY DEF IInv, FsOK, NewOK, Slots
<1>3. Typed' BY VfsAssumption DEF IInv, Typed, SYS
<1>4. ReqOK' BY DEF IInv, ReqOK, Walking
<1>5. DeadEmpty' BY DEF IInv, DeadEmpty
<1>. QED BY <1>1, <1>2, <1>3, <1>4, <1>5 DEF IInv, Balanced, RefTo

\* The references that a fork copies: those of the child are as many as
\* those of the parent, and new.
LEMMA CopiesCounted ==
  ASSUME Typed, NEW p \in Procs, NEW q \in Procs, NEW R \in RefMap,
         NEW Q \in RefMap, NEW v \in Nodes,
         \A i \in Fds : R[FdSlot(q, i)] = NoNode /\ Q[FdSlot(q, i)] = fd[p][i],
         R[CwdSlot(q)] = NoNode, Q[CwdSlot(q)] = cwd[p],
         \A h \in RefSlots : h # CwdSlot(q) /\ (\A i \in Fds : h # FdSlot(q, i))
                               => Q[h] = R[h]
  PROVE  /\ Cardinality(RefTo(Q, v)) = Cardinality(RefTo(R, v)) + Copies(p, v)
         /\ Copies(p, v) \in Nat
<1>. DEFINE I == {i \in Fds : fd[p][i] = v}
            F == {FdSlot(q, i) : i \in I}
            C == IF cwd[p] = v THEN {CwdSlot(q)} ELSE {}
            A == RefTo(R, v)
<1>0. v # NoNode BY DEF Nodes, NoNode
<1>1. IsFiniteSet(I)
  <2>1. K_PROC_FD_COUNT - 1 \in Int BY VfsAssumption
  <2>2. IsFiniteSet(Fds) BY <2>1, FS_Interval DEF Fds
  <2>. QED BY <2>2, FS_Subset
<1>2. IsFiniteSet(F) /\ Cardinality(F) = Cardinality(I)
  <2>. DEFINE g == [i \in I |-> FdSlot(q, i)]
  <2>1. g \in Bijection(I, F)
    <3>1. g \in Injection(I, F) BY SlotFacts DEF Injection, IsInjective
    <3>2. g \in Surjection(I, F) BY DEF Surjection
    <3>. QED BY <3>1, <3>2 DEF Bijection
  <2>. QED BY <1>1, <2>1, FS_Bijection DEF ExistsBijection
<1>3. IsFiniteSet(C) /\ Cardinality(C) = IF cwd[p] = v THEN 1 ELSE 0
  BY FS_Singleton, FS_EmptySet
<1>4. IsFiniteSet(A) BY RefSlotsFinite, FS_Subset DEF RefTo
<1>5. RefTo(Q, v) = (A \cup F) \cup C
  <2>1. ASSUME NEW h \in RefTo(Q, v) PROVE h \in (A \cup F) \cup C
    <3>1. h \in RefSlots /\ Q[h] = v BY DEF RefTo
    <3>2. CASE h = CwdSlot(q) BY <3>1, <3>2
    <3>3. CASE \E i \in Fds : h = FdSlot(q, i) BY <3>1, <3>3
    <3>4. CASE h # CwdSlot(q) /\ \A i \in Fds : h # FdSlot(q, i)
      BY <3>1, <3>4 DEF RefTo
    <3>. QED BY <3>2, <3>3, <3>4
  <2>2. ASSUME NEW h \in A PROVE h \in RefTo(Q, v)
    <3>1. h \in RefSlots /\ R[h] = v BY DEF RefTo
    <3>. QED BY <1>0, <3>1 DEF RefTo
  <2>3. ASSUME NEW h \in F PROVE h \in RefTo(Q, v) BY SlotFacts DEF RefTo
  <2>4. ASSUME NEW h \in C PROVE h \in RefTo(Q, v) BY SlotFacts DEF RefTo
  <2>. QED BY <2>1, <2>2, <2>3, <2>4
<1>6. A \cap F = {} /\ (A \cup F) \cap C = {}
  BY <1>0, SlotFacts DEF RefTo
<1>7. Copies(p, v) = Cardinality(F) + Cardinality(C) BY <1>2, <1>3 DEF Copies
<1>. HIDE DEF A, F, C
<1>8. /\ IsFiniteSet(A \cup F)
      /\ Cardinality(A \cup F) = Cardinality(A) + Cardinality(F) - Cardinality(A \cap F)
  BY <1>2, <1>4, FS_Union
<1>9. Cardinality((A \cup F) \cup C)
        = Cardinality(A \cup F) + Cardinality(C) - Cardinality((A \cup F) \cap C)
  BY <1>3, <1>8, FS_Union
<1>10. Cardinality({}) = 0 BY FS_EmptySet
<1>11. Cardinality(A) \in Nat /\ Cardinality(F) \in Nat /\ Cardinality(C) \in Nat
  BY <1>2, <1>3, <1>4, FS_CardinalityType
<1>12. Cardinality(A \cap F) = 0 /\ Cardinality((A \cup F) \cap C) = 0
  BY <1>6, <1>10
<1>13. Cardinality(A \cup F) = Cardinality(A) + Cardinality(F)
  BY <1>8, <1>11, <1>12
<1>14. Cardinality((A \cup F) \cup C) = Cardinality(A) + Cardinality(F) + Cardinality(C)
  BY <1>9, <1>11, <1>12, <1>13
<1>15. Cardinality(RefTo(Q, v)) = Cardinality(A) + Copies(p, v)
  BY <1>5, <1>7, <1>11, <1>14
<1>. QED BY <1>7, <1>11, <1>15 DEF A

\* What a slot that is reused still refers to is forgotten.
LEMMA ForkOK ==
  ASSUME IInv, NEW p \in Users, NEW q \in Users, Fork(p, q)
  PROVE  IInv' /\ Kept(vn, vn')
<1>. DEFINE S == {CwdSlot(q)} \cup {FdSlot(q, i) : i \in Fds}
            R == [h \in RefSlots |-> IF h \in S THEN NoNode ELSE Places[h]]
            Q == [h \in RefSlots |->
                   IF \E i \in Fds : h = FdSlot(q, i) THEN fd[p][h[2][2]]
                   ELSE IF h = CwdSlot(q) THEN cwd[p] ELSE Places[h]]
<1>1. /\ req.op = "idle" /\ p \in alive /\ q \notin alive /\ p \in Procs /\ q \in Procs
      /\ fd' = [fd EXCEPT ![q] = fd[p]] /\ cwd' = [cwd EXCEPT ![q] = cwd[p]]
      /\ alive' = alive \cup {q} /\ dying = {} /\ UNCHANGED <<fs, dying, req>>
      /\ vn' = [v \in Nodes |-> [vn[v] EXCEPT !.count = vn[v].count + Copies(p, v)]]
  BY DEF Fork, Procs, Asks
<1>2. /\ Places \in RefMap /\ vn \in Table /\ Balanced(vn, Places) /\ Typed
      /\ W \in RefSlots
  BY RootHeld, SlotFacts DEF IInv
<1>3. p # q BY <1>1
<1>4. /\ \A i \in Fds : R[FdSlot(q, i)] = NoNode /\ Q[FdSlot(q, i)] = fd[p][i]
      /\ R[CwdSlot(q)] = NoNode /\ Q[CwdSlot(q)] = cwd[p]
      /\ \A h \in RefSlots : h # CwdSlot(q) /\ (\A i \in Fds : h # FdSlot(q, i))
                             => Q[h] = R[h] /\ R[h] = Places[h]
  <2>1. ASSUME NEW i \in Fds PROVE R[FdSlot(q, i)] = NoNode /\ Q[FdSlot(q, i)] = fd[p][i]
    BY <1>1, SlotFacts, SlotParts
  <2>2. R[CwdSlot(q)] = NoNode /\ Q[CwdSlot(q)] = cwd[p] BY <1>1, SlotFacts
  <2>. QED BY <2>1, <2>2
<1>r. /\ R \in RefMap
      /\ \A v \in Nodes : RefTo(R, v) \subseteq RefTo(Places, v)
      /\ Calm => R = Places
  <2>1. R \in RefMap BY <1>2 DEF RefMap, NodeOrNone
  <2>2. \A h \in RefSlots : R[h] = IF h \in S THEN NoNode ELSE Places[h] OBVIOUS
  <2>3. ASSUME NEW v \in Nodes PROVE RefTo(R, v) \subseteq RefTo(Places, v)
    BY <2>2 DEF RefTo, Nodes, NoNode
  <2>4. ASSUME Calm PROVE R = Places
    <3>1. cwd[q] = NoNode /\ \A i \in Fds : fd[q][i] = NoNode
      BY <1>1, <2>4 DEF IInv, DeadEmpty
    <3>2. Places[CwdSlot(q)] = NoNode /\ \A i \in Fds : Places[FdSlot(q, i)] = NoNode
      BY <1>1, <3>1, PlacesAt
    <3>3. \A h \in RefSlots : R[h] = Places[h] BY <2>2, <3>2
    <3>. QED BY <3>3, PlacesAt
  <2>. QED BY <2>1, <2>3, <2>4
<1>5. Q \in RefMap
  <2>1. \A i \in Fds : fd[p][i] \in NodeOrNone BY <1>1, <1>2 DEF Typed
  <2>2. cwd[p] \in NodeOrNone BY <1>1, <1>2 DEF Typed
  <2>3. ASSUME NEW h \in RefSlots PROVE Q[h] \in NodeOrNone
    <3>1. CASE \E i \in Fds : h = FdSlot(q, i)
      <4>1. PICK i \in Fds : h = FdSlot(q, i) BY <3>1
      <4>2. Q[FdSlot(q, i)] = fd[p][i] BY <1>4
      <4>. HIDE DEF Q
      <4>. QED BY <2>1, <4>1, <4>2
    <3>2. CASE h = CwdSlot(q) BY <1>4, <2>2, <3>2
    <3>3. CASE h # CwdSlot(q) /\ \A i \in Fds : h # FdSlot(q, i)
      BY <1>2, <1>4, <3>3 DEF RefMap
    <3>. QED BY <3>1, <3>2, <3>3
  <2>. QED BY <2>3 DEF RefMap
<1>. HIDE DEF Q, R
<1>6. ASSUME NEW v \in Nodes
      PROVE  /\ vn[v].count + Copies(p, v) >= Cardinality(RefTo(Q, v))
             /\ Exact => Cardinality(RefTo(Q, v)) = vn[v].count + Copies(p, v)
             /\ Copies(p, v) \in Nat /\ vn[v].count \in Nat
  <2>1. /\ Cardinality(RefTo(Q, v)) = Cardinality(RefTo(R, v)) + Copies(p, v)
        /\ Copies(p, v) \in Nat
    BY <1>1, <1>2, <1>4, <1>5, <1>r, CopiesCounted
  <2>2. /\ vn[v].count \in Nat /\ vn[v].count >= Cardinality(RefTo(Places, v))
        /\ Exact => vn[v].count = Cardinality(RefTo(Places, v))
    BY <1>2 DEF Balanced, Table, VnodeType
  <2>3. IsFiniteSet(RefTo(Places, v)) BY RefSlotsFinite, FS_Subset DEF RefTo
  <2>4. IsFiniteSet(RefTo(R, v)) /\ Cardinality(RefTo(R, v)) <= Cardinality(RefTo(Places, v))
    BY <1>r, <2>3, FS_Subset
  <2>5. Cardinality(RefTo(Places, v)) \in Nat /\ Cardinality(RefTo(R, v)) \in Nat
    BY <2>3, <2>4, FS_CardinalityType
  <2>6. Exact => Cardinality(RefTo(R, v)) = Cardinality(RefTo(Places, v))
    BY <1>r DEF Exact
  <2>. QED BY <2>1, <2>2, <2>4, <2>5, <2>6
<1>7. ASSUME NEW v \in Nodes
      PROVE  /\ vn'[v] \in VnodeType /\ vn'[v].count = vn[v].count + Copies(p, v)
             /\ vn'[v].list = vn[v].list /\ vn'[v].key = vn[v].key
             /\ vn'[v].type = vn[v].type /\ vn'[v].mnt = vn[v].mnt
  <2>1. vn[v] \in VnodeType BY <1>2 DEF Table
  <2>2. vn'[v] = [vn[v] EXCEPT !.count = vn[v].count + Copies(p, v)] BY <1>1
  <2>3. vn[v].count + Copies(p, v) \in Nat BY <1>6
  <2>4. PICK r : r = [vn[v] EXCEPT !.count = vn[v].count + Copies(p, v)] OBVIOUS
  <2>. QED BY <2>1, <2>2, <2>3, <2>4 DEF VnodeType
<1>8. vn' \in Table BY <1>1, <1>7 DEF Table
\* A vnode that is free is copied by nobody.
<1>9. ASSUME NEW v \in Nodes, vn'[v].list = 0 PROVE vn'[v].count = 0
  <2>1. vn[v].list = 0 /\ vn[v].count = 0 BY <1>2, <1>7, <1>9 DEF Balanced
  <2>3. \A h \in RefSlots : Places[h] # v
    BY <1>2, <2>1, HeldIsListed DEF Nodes, NoNode
  <2>4. cwd[p] # v /\ \A i \in Fds : fd[p][i] # v
    <3>1. cwd[p] = Places[CwdSlot(p)] /\ \A i \in Fds : fd[p][i] = Places[FdSlot(p, i)]
      BY <1>1, PlacesAt
    <3>2. CwdSlot(p) \in RefSlots /\ \A i \in Fds : FdSlot(p, i) \in RefSlots
      BY <1>1, SlotFacts
    <3>. QED BY <2>3, <3>1, <3>2
  <2>5. {i \in Fds : fd[p][i] = v} = {} BY <2>4
  <2>6. Copies(p, v) = 0 BY <2>4, <2>5, FS_EmptySet DEF Copies
  <2>. QED BY <1>7, <2>1, <2>6
<1>10. Balanced(vn', Q) BY <1>6, <1>7, <1>9 DEF Balanced
<1>11. Typed' BY <1>1, <1>2 DEF Typed
<1>12. DeadEmpty' BY <1>1, <1>2 DEF IInv, DeadEmpty, Typed
<1>13. ReqOK' /\ Walker' = Walker /\ Walker = NoNode
  BY <1>1 DEF IInv, ReqOK, Walker, Walking
<1>14. Q[W] = Walker' BY <1>1, <1>2, <1>4, <1>13, SlotFacts, PlacesAt
<1>15. \A r \in Procs, j \in Fds : Q[FdSlot(r, j)] = fd'[r][j]
  <2>1. ASSUME NEW r \in Procs, NEW j \in Fds PROVE Q[FdSlot(r, j)] = fd'[r][j]
    <3>1. CASE r = q BY <1>1, <1>2, <1>4, <3>1 DEF Typed
    <3>2. CASE r # q
      <4>1. fd'[r][j] = fd[r][j] BY <1>1, <1>2, <3>2 DEF Typed
      <4>2. Q[FdSlot(r, j)] = Places[FdSlot(r, j)] BY <1>1, <1>4, <3>2, SlotFacts
      <4>. QED BY <4>1, <4>2, PlacesAt
    <3>. QED BY <3>1, <3>2
  <2>. QED BY <2>1
<1>16. \A r \in Procs : Q[CwdSlot(r)] = cwd'[r]
  <2>1. ASSUME NEW r \in Procs PROVE Q[CwdSlot(r)] = cwd'[r]
    <3>1. CASE r = q BY <1>1, <1>2, <1>4, <3>1 DEF Typed
    <3>2. CASE r # q
      <4>1. cwd'[r] = cwd[r] BY <1>1, <1>2, <3>2 DEF Typed
      <4>2. Q[CwdSlot(r)] = Places[CwdSlot(r)] BY <1>1, <1>4, <3>2, SlotFacts
      <4>. QED BY <4>1, <4>2, PlacesAt
    <3>. QED BY <3>1, <3>2
  <2>. QED BY <2>1
<1>17. Kept(vn, vn') /\ MountsStay
  <2>1. Kept(vn, vn') BY <1>7 DEF Kept
  <2>. QED BY <1>1, <2>1, NoMount
<1>18. /\ FsOK' /\ NewOK'
       /\ \A h \in FsSlots : Q[h] = MountPlace(h[1], h[2])'
  BY <1>1, <1>4, <1>17, SlotFacts, MountsKept
<1>. QED BY <1>5, <1>8, <1>10, <1>11, <1>12, <1>13, <1>14, <1>15, <1>16, <1>17,
            <1>18, Rebalanced

-----------------------------------------------------------------------------
(* The invariant and what it says.                                         *)

\* The mounts of the boot and the terminal of init balance.
LEMMA InitOK ==
  ASSUME Init
  PROVE  IInv
<1>1. /\ {1, 2, 3, 4} \subseteq Nodes /\ {1, 2} \subseteq Mounts /\ 0 \in Fds
      /\ INIT_PID \in Procs /\ SYS \in Procs /\ INIT_PID # SYS
  BY VfsAssumption DEF Nodes, Mounts, Fds, Procs, SYS
<1>2. vn \in Table
  <2>1. {ROOT, DEV, TTY} \subseteq Objects BY VfsAssumption DEF Objects, Devices
  <2>2. ASSUME NEW v \in Nodes PROVE BootVn[v] \in VnodeType
    <3>1. Free \in VnodeType BY <2>1 DEF Free, VnodeType
    <3>2. [Free EXCEPT !.list = 1, !.count = 1] \in VnodeType
      BY <1>1, <3>1 DEF VnodeType
    <3>3. [Free EXCEPT !.list = 1, !.key = DEV, !.count = 1, !.mnt = 2] \in VnodeType
      BY <1>1, <2>1, <3>1 DEF VnodeType
    <3>4. [Free EXCEPT !.list = 2, !.key = TTY, !.count = 2] \in VnodeType
      BY <1>1, <2>1, <3>1 DEF VnodeType
    <3>5. [Free EXCEPT !.list = 2, !.key = TTY, !.count = 1, !.type = "chr"] \in VnodeType
      BY <1>1, <2>1, <3>1 DEF VnodeType
    <3>. QED BY <3>1, <3>2, <3>3, <3>4, <3>5 DEF BootVn
  <2>. QED BY <2>2 DEF Init, Table, BootVn
<1>3. Typed /\ ReqOK /\ fs = BootFs
  BY <1>1, IdleOK DEF Init, Typed, ReqOK, Walking, NodeOrNone
<1>4. DeadEmpty BY <1>1 DEF Init, DeadEmpty
<1>5. \A v \in Nodes :
        /\ vn[v].count = IF v = 3 THEN 2 ELSE IF v \in {1, 2, 4} THEN 1 ELSE 0
        /\ vn[v].list = 0 => vn[v].count = 0
  BY DEF Init, BootVn, Free
<1>6. /\ \A p \in Procs, i \in Fds :
            Places[FdSlot(p, i)] = IF p = INIT_PID /\ i = 0 THEN 4 ELSE NoNode
      /\ \A p \in Procs : Places[CwdSlot(p)] = NoNode
      /\ Places[W] = NoNode
  BY PlacesAt DEF Init, Walker, Walking, Idle
<1>7. \A h \in FsSlots :
        Places[h] = IF h[2] = 1 /\ h[1] = "root" THEN 1
                  ELSE IF h[2] # 2 THEN NoNode
                  ELSE IF h[1] = "covers" THEN 2 ELSE 3
  <2>1. /\ \A h \in FsSlots : Places[h] = MountPlace(h[1], h[2])
        /\ \A f : ~Pending(f)
    BY PlacesAt DEF Init, Idle, Pending
  <2>2. \A f \in Mounts :
          /\ fs[f].covered = IF f = 2 THEN 2 ELSE NoNode
          /\ fs[f].root = IF f = 1 THEN 1 ELSE IF f = 2 THEN 3 ELSE NoNode
          /\ f \in Slots <=> f \notin {1, 2}
          /\ f = 1 => fs[f].kind = "rfs"
          /\ f = 2 => fs[f].kind = "devfs"
    BY <1>3 DEF BootFs, Slots, NoNode
  <2>3. \A h \in FsSlots : h[1] \in {"covers", "root", "mounted"} /\ h[2] \in Mounts
    BY SlotParts
  <2>. QED BY <2>1, <2>2, <2>3 DEF MountPlace
<1>8. /\ RefTo(Places, 1) = {<<"root", 1>>}
      /\ RefTo(Places, 2) = {<<"covers", 2>>}
      /\ RefTo(Places, 3) = {<<"root", 2>>} \cup {<<"mounted", 2>>}
      /\ RefTo(Places, 4) = {FdSlot(INIT_PID, 0)}
      /\ \A v \in Nodes : v \notin {1, 2, 3, 4} => RefTo(Places, v) = {}
  <2>1. {<<"root", 1>>, <<"covers", 2>>, <<"root", 2>>, <<"mounted", 2>>} \subseteq FsSlots
    BY <1>1 DEF FsSlots
  <2>2. \A h \in FsSlots : h = <<h[1], h[2]>> BY DEF FsSlots
  <2>3. \A h \in RefSlots : Places[h] \in {1, 2, 3} => h \in FsSlots
    BY <1>6, SlotFacts DEF NoNode
  <2>4. ASSUME NEW h \in FsSlots
        PROVE  /\ Places[h] = 1 <=> h = <<"root", 1>>
               /\ Places[h] = 2 <=> h = <<"covers", 2>>
               /\ Places[h] = 3 <=> h \in {<<"root", 2>>, <<"mounted", 2>>}
    <3>1. h = <<h[1], h[2]>> /\ h[1] \in {"covers", "root", "mounted"}
      BY <2>2, SlotParts
    <3>. QED BY <1>7, <3>1 DEF NoNode
  <2>5. \A h \in RefSlots : Places[h] = 4 <=> h = FdSlot(INIT_PID, 0)
    BY <1>1, <1>6, <1>7, SlotFacts DEF NoNode
  <2>6. \A h \in RefSlots : Places[h] \in {0, 1, 2, 3, 4}
    BY <1>6, <1>7, SlotFacts DEF NoNode
  <2>7. FsSlots \subseteq RefSlots /\ FdSlot(INIT_PID, 0) \in RefSlots
    BY <1>1, SlotFacts
  <2>8. RefTo(Places, 1) = {<<"root", 1>>} BY <2>1, <2>3, <2>4, <2>7 DEF RefTo
  <2>9. RefTo(Places, 2) = {<<"covers", 2>>} BY <2>1, <2>3, <2>4, <2>7 DEF RefTo
  <2>10. RefTo(Places, 3) = {<<"root", 2>>, <<"mounted", 2>>}
    BY <2>1, <2>3, <2>4, <2>7 DEF RefTo
  <2>11. RefTo(Places, 4) = {FdSlot(INIT_PID, 0)} BY <2>5, <2>7 DEF RefTo
  <2>12. \A v \in Nodes : v \notin {1, 2, 3, 4} => RefTo(Places, v) = {}
    BY <2>6 DEF RefTo, Nodes
  <2>. QED BY <2>8, <2>9, <2>10, <2>11, <2>12
<1>9. /\ Cardinality(RefTo(Places, 1)) = 1 /\ Cardinality(RefTo(Places, 2)) = 1
      /\ Cardinality(RefTo(Places, 3)) = 2 /\ Cardinality(RefTo(Places, 4)) = 1
  <2>1. IsFiniteSet({<<"root", 2>>}) /\ Cardinality({<<"root", 2>>}) = 1
    BY FS_Singleton
  <2>2. <<"mounted", 2>> \notin {<<"root", 2>>} OBVIOUS
  <2>3. Cardinality({<<"root", 2>>} \cup {<<"mounted", 2>>})
          = Cardinality({<<"root", 2>>}) + 1
    BY <2>1, <2>2, FS_AddElement
  <2>4. Cardinality(RefTo(Places, 3)) = 2 BY <1>8, <2>1, <2>3
  <2>5. Cardinality({<<"root", 1>>}) = 1 BY FS_Singleton
  <2>6. Cardinality({<<"covers", 2>>}) = 1 BY FS_Singleton
  <2>7. Cardinality({FdSlot(INIT_PID, 0)}) = 1 BY FS_Singleton
  <2>. QED BY <1>8, <2>4, <2>5, <2>6, <2>7
<1>10. \A v \in Nodes : Cardinality(RefTo(Places, v))
                          = IF v = 3 THEN 2 ELSE IF v \in {1, 2, 4} THEN 1 ELSE 0
  <2>1. \A v \in Nodes : v \notin {1, 2, 3, 4} => Cardinality(RefTo(Places, v)) = 0
    <3>1. Cardinality({}) = 0 BY FS_EmptySet
    <3>. QED BY <1>8, <3>1
  <2>. QED BY <1>9, <2>1
<1>11. FsOK /\ NewOK
  <2>1. /\ \A f \in Mounts : BootFs[f] \in [kind : {"none", "rfs", "fat", "devfs"},
                                          root : NodeOrNone, covered : NodeOrNone]
        /\ \A f \in Mounts : BootFs[f].root = IF f = 1 THEN 1 ELSE IF f = 2 THEN 3 ELSE NoNode
        /\ \A f \in Mounts : BootFs[f].covered = IF f = 2 THEN 2 ELSE NoNode
    BY <1>1 DEF BootFs, NodeOrNone
  <2>2. BootFs = [f \in Mounts |-> BootFs[f]] BY DEF BootFs
  <2>3. Slots = Mounts \ {1, 2} BY <1>3, <2>1 DEF Slots, NoNode
  <2>4. \A u \in Nodes : vn[u].mnt = IF u = 2 THEN 2 ELSE 0
    BY DEF Init, BootVn, Free
  <2>5. \A f \in Mounts \ Slots : fs[f].root \in Nodes BY <1>1, <1>3, <2>1, <2>3
  <2>6. \A u \in Nodes : vn[u].mnt # 0 => vn[u].mnt \notin Slots BY <2>3, <2>4
  <2>. QED BY <1>3, <2>1, <2>2, <2>5, <2>6 DEF FsOK, NewOK, Init, Idle
<1>. QED BY <1>2, <1>3, <1>4, <1>5, <1>10, <1>11 DEF IInv, Balanced

LEMMA NextOK ==
  ASSUME IInv, Next
  PROVE  IInv'
<1>1. ASSUME NEW p \in Procs, NEW i \in Fds, Close(p, i) \/ Use(p, i) PROVE IInv'
  BY <1>1, CloseOK, UseOK DEF Use
<1>2. ASSUME NEW p \in Procs, NEW len \in 0..MaxPath, NEW v \in Nodes,
             \/ AskOpen(p, len, v) \/ AskChdir(p, len, v) \/ AskMkdir(p, len, v)
             \/ AskMount(p, len, v)
      PROVE  IInv'
  <2>1. CASE AskOpen(p, len, v) BY <2>1, BeginStep DEF AskOpen
  <2>2. CASE AskChdir(p, len, v) BY <2>2, BeginStep DEF AskChdir
  <2>3. CASE AskMkdir(p, len, v) BY <2>3, BeginStep DEF AskMkdir
  <2>4. CASE AskMount(p, len, v) BY <2>4, BeginStep DEF AskMount
  <2>. QED BY <1>2, <2>1, <2>2, <2>3, <2>4
<1>3. ASSUME Drop \/ OpenFails PROVE IInv'
  <2>1. /\ Walking /\ End(Rele(Cross(req.at), Crossed(req.at))) /\ req.op # "target"
        /\ UNCHANGED <<fs, fd, cwd, alive, dying>>
    BY <1>3, ArrivedWalks DEF Drop, OpenFails, Reached, There
  <2>. QED BY <2>1, DropOK
<1>4. ASSUME NEW kind \in {"rfs", "fat", "devfs"}, NEW f \in Mounts, NEW w \in Nodes,
             NEW len \in 0..MaxPath, NEW v \in Nodes, Mount(kind, f, w, len, v)
      PROVE  IInv'
  BY <1>4, MountOK
<1>5. ASSUME NEW i \in Fds, Open(i) \/ KillClose(i) PROVE IInv'
  BY <1>5, OpenOK, KillCloseOK
<1>6. ASSUME NEW p \in Users, Kill(p) \/ ProcKill(p) \/ Sysdir(p) PROVE IInv'
  BY <1>6, KillOK, UseOK, SysdirOK DEF ProcKill
<1>7. ASSUME NEW p \in Users, NEW q \in Users, Fork(p, q) PROVE IInv'
  BY <1>7, ForkOK
<1>8. ASSUME NEW o \in Files \cup Dirs, Lookup(o) PROVE IInv' BY <1>8, LookupOK
<1>9. ASSUME NEW d \in Devices, LookupDev(d) PROVE IInv' BY <1>9, LookupDevOK
<1>. QED BY <1>1, <1>2, <1>3, <1>4, <1>5, <1>6, <1>7, <1>8, <1>9, DotOK, LookupFailsOK,
            MountFailsOK, MountedOK, NotMountedOK, ChdirOK, KillEndOK, SysdirBackOK DEF Next

\* The invariant holds in every state of the file server, whatever its
\* clients do.
THEOREM VfsInvariant == Spec => []IInv
<1>1. Init => IInv BY InitOK
<1>2. IInv /\ [Next]_vars => IInv'
  <2>. SUFFICES ASSUME IInv, [Next]_vars PROVE IInv' OBVIOUS
  <2>1. CASE Next BY <2>1, NextOK
  <2>2. CASE UNCHANGED vars BY <2>2, UseOK DEF vars
  <2>. QED BY <2>1, <2>2
<1>. QED BY <1>1, <1>2, PTL DEF Spec

\* What the counts are about is in the slots of Places.
LEMMA RefsInPlaces ==
  ASSUME IInv
  PROVE  /\ \A h \in RefSlots : Refs[h] # NoNode => Places[h] = Refs[h]
         /\ "mount" \notin Allowed => Places = Refs
<1>1. ASSUME NEW h \in RefSlots
      PROVE  /\ Refs[h] # NoNode => Places[h] = Refs[h]
             /\ req.op # "target" => Places[h] = Refs[h]
  <2>1. CASE h \in FsSlots
    <3>1. Places[h] = MountPlace(h[1], h[2]) BY <2>1, PlacesAt
    <3>2. Refs[h] = MountRef(h[1], h[2]) BY <2>1, SlotFacts, SlotParts DEF Refs
    <3>. QED BY <3>1, <3>2 DEF MountPlace, MountRef, Pending
  <2>2. CASE h \notin FsSlots BY <2>2 DEF Places
  <2>. QED BY <2>1, <2>2
<1>2. "mount" \notin Allowed => req.op # "target" BY DEF IInv, ReqOK
<1>3. Refs = [h \in RefSlots |-> Refs[h]] BY DEF Refs
<1>. QED BY <1>1, <1>2, <1>3, PlacesAt

\* Every vnode counts exactly the descriptors, current directories, mounts
\* and walks that refer to it (VN_HOLD, VN_RELE and vn_count of vfs.h), for
\* every number of processes, descriptors and vnodes, as long as no process
\* leaves a directory, nothing is mounted after the boot and only processes
\* that have stopped are killed.
THEOREM CountsExactAlways ==
  ASSUME "leave" \notin Allowed, "mount" \notin Allowed, "running" \notin Allowed
  PROVE  Spec => []CountsExact
<1>1. IInv => CountsExact
  BY RefsInPlaces DEF IInv, Balanced, Exact, Calm, CountsExact, Holders, RefTo
<1>. QED BY <1>1, VfsInvariant, PTL

\* No vnode that anything refers to is in the free list (vfs_vnode_free),
\* even when a process has left a directory, a mount has failed or its
\* target is not there.
THEOREM NoneFreedAlways == Spec => []NoneFreed
<1>1. IInv => NoneFreed
  <2>. SUFFICES ASSUME IInv, NEW v \in Nodes, vn[v].list = 0
                PROVE  vn[v].count = 0 /\ Holders(v) = {}
    BY DEF NoneFreed
  <2>1. vn[v].count = 0 BY DEF IInv, Balanced
  <2>2. ASSUME NEW h \in RefSlots, Refs[h] = v PROVE FALSE
    <3>1. v # NoNode BY DEF Nodes, NoNode
    <3>2. Places[h] = v BY <2>2, <3>1, RefsInPlaces
    <3>. QED BY <3>1, <3>2, RootHeld, HeldIsListed DEF IInv
  <2>. QED BY <2>1, <2>2 DEF Holders
<1>. QED BY <1>1, VfsInvariant, PTL

\* A process that is gone holds no descriptor and no directory
\* (_vfs_kill), so that a fork overwrites none (_vfs_fork), as long as it has
\* stopped when it is killed: nothing it asked for is served between VFS_KILL
\* and proc_kill.
THEOREM DeadHoldNothingAlways ==
  ASSUME "running" \notin Allowed
  PROVE  Spec => []DeadHoldNothing
<1>1. IInv => DeadHoldNothing BY DEF IInv, DeadEmpty, DeadHoldNothing, Calm
<1>. QED BY <1>1, VfsInvariant, PTL

\* Everything keeps its type.
THEOREM VfsTypes == Spec => []TypeOK
<1>1. IInv => TypeOK
  BY DEF IInv, TypeOK, Table, FsOK, Typed, ReqOK, ReqType, NodeOrNone
<1>. QED BY <1>1, VfsInvariant, PTL
-----------------------------------------------------------------------------
(* Two users of one file share its vnode.                                  *)

OneIn(n) ==
  \A v, w \in Nodes :
    /\ n[v].list > 0 /\ n[v].list = n[w].list /\ n[v].key = n[w].key
    => v = w \/ fs[n[v].list].root \in {v, w}

LEMMA KeptOne ==
  ASSUME NEW n, NEW m, OneIn(n), Kept(n, m)
  PROVE  OneIn(m)
BY DEF OneIn, Kept

\* An object that has no vnode gets one.
LEMMA GrewOne ==
  ASSUME IInv, OneVnode, Walking, NEW a \in Table, NEW w \in Nodes,
         NEW f \in Mounts \cup {-1}, NEW k, NEW t, Grew(a, w, f, k, t)
  PROVE  OneIn(a)
<1>. DEFINE n == Cross(req.at)
<1>1. n \in Table /\ Kept(vn, n) BY CrossBalanced
<1>2. OneIn(n) BY <1>1, KeptOne DEF OneVnode, OneIn
<1>3. CASE a = n BY <1>2, <1>3
<1>4. CASE Find(n, f, k) = {} /\ a = Alloc(n, w, f, k, t)
  <2>1. Match(n, f, k) = {}
    <3>1. Match(n, f, k) \ {fs[f].root} = {} => Match(n, f, k) \subseteq {fs[f].root}
      OBVIOUS
    <3>. QED BY <1>4, <3>1 DEF Find
  <2>2. \A u \in Nodes : n[u].list # f \/ n[u].key # k BY <2>1 DEF Match
  <2>3. a[w].list = f /\ a[w].key = k /\ \A u \in Nodes : u # w => a[u] = n[u]
    BY <1>1, <1>4 DEF Alloc, Table
  <2>. QED BY <1>2, <2>2, <2>3 DEF OneIn
<1>. QED BY <1>3, <1>4 DEF Grew

LEMMA OneOK ==
  ASSUME IInv, OneVnode, Next
  PROVE  OneVnode'
<1>. DEFINE v == Crossed(req.at)
            n == Cross(req.at)
<1>1. OneIn(vn) BY DEF OneVnode, OneIn
<1>2. ASSUME Kept(vn, vn'), fs' = fs PROVE OneVnode'
  BY <1>1, <1>2, KeptOne DEF OneVnode, OneIn
<1>3. ASSUME NEW o \in Files \cup Dirs, Lookup(o) PROVE OneVnode'
  <2>1. Walking /\ fs' = fs BY <1>3 DEF Lookup, Step
  <2>2. vn[v].list \in Mounts \cup {-1} BY <2>1, CrossBalanced
  <2>3. PICK a \in Table, w \in Nodes :
          Grew(a, w, vn[v].list, o, FileType(o)) /\ Kept(a, vn')
    BY <1>3, LookupOK
  <2>4. OneIn(a) BY <2>1, <2>2, <2>3, GrewOne
  <2>5. OneIn(vn') BY <2>3, <2>4, KeptOne
  <2>. QED BY <2>1, <2>5 DEF OneVnode, OneIn
\* The directory of devices alone takes another key.
<1>4. ASSUME NEW d \in Devices, LookupDev(d) PROVE OneVnode'
  <2>1. Walking /\ fs' = fs /\ v = fs[vn[v].list].root BY <1>4 DEF LookupDev, Step
  <2>2. vn[v].list \in Mounts \cup {-1} /\ v \in Nodes BY <2>1, CrossBalanced
  <2>3. PICK a \in Table, w \in Nodes :
          /\ Grew(a, w, vn[v].list, d, DevType(d))
          /\ Kept(Named(a, w, v, d), vn')
    BY <1>4, LookupDevOK
  <2>4. OneIn(a) BY <2>1, <2>2, <2>3, GrewOne
  <2>. DEFINE m == Named(a, w, v, d)
  <2>5. \A u \in Nodes : /\ m[u].list = a[u].list
                         /\ u # v => m[u].key = a[u].key
    BY <2>2, NamedFacts
  <2>6. a[v].list > 0 => fs[a[v].list].root = v
    <3>1. Kept(vn, n) BY <2>1, CrossBalanced
    <3>2. n[v].list = vn[v].list \/ n[v].list = 0 BY <2>2, <3>1 DEF Kept
    <3>3. CASE a = n BY <2>1, <3>2, <3>3
    <3>4. CASE a = Alloc(n, w, vn[v].list, d, DevType(d))
      <4>1. a[v].list = n[v].list \/ a[v].list = vn[v].list
        BY <2>2, <3>4 DEF Alloc, Table
      <4>. QED BY <2>1, <3>2, <4>1
    <3>. QED BY <2>3, <3>3, <3>4 DEF Grew
  <2>7. OneIn(m) BY <2>4, <2>5, <2>6 DEF OneIn
  <2>8. OneIn(vn') BY <2>3, <2>7, KeptOne
  <2>. QED BY <2>1, <2>8 DEF OneVnode, OneIn
\* The new root is alone in its list.
<1>5. ASSUME NEW kind \in {"rfs", "fat", "devfs"}, NEW f \in Mounts, NEW w \in Nodes,
             NEW len \in 0..MaxPath, NEW u \in Nodes, Mount(kind, f, w, len, u)
      PROVE  OneVnode'
  <2>1. PICK m : m = MountTable(kind, f, w) OBVIOUS
  <2>2. /\ Walking /\ f \in Slots /\ w \in NextFree(Reached) /\ vn' = Hold(m, u)
        /\ fs' = [fs EXCEPT ![f].kind = kind, ![f].root = w]
    BY <1>5, <2>1 DEF Mount, Arrived, Walking, MountTable
  <2>3. /\ m \in Table /\ m[w].list = f
        /\ \A x \in Nodes :
             x # w => /\ m[x].list = IF vn[x].list = f THEN -1 ELSE Reached[x].list
                      /\ m[x].key = vn[x].key
    <3>1. w \in NextFree(Reached) /\ f \in Slots BY <2>2
    <3>2. /\ m \in Table /\ w \in Nodes /\ Reached[w].list = 0
          /\ m[w].list = f /\ m[w].count = Roots(kind)
          /\ \A x \in Nodes :
               /\ m[x].mnt = vn[x].mnt
               /\ x # w => /\ m[x].count = vn[x].count \/ m[x].count = Reached[x].count
                           /\ m[x].list = IF vn[x].list = f THEN -1 ELSE Reached[x].list
                           /\ m[x].list = -1 \/ m[x].count = Reached[x].count
                           /\ m[x].key = vn[x].key
      BY <2>1, <2>2, <3>1, MountTableFacts
    <3>. QED BY <3>2
  <2>4. Kept(vn, Reached) BY <2>2, CrossBalanced DEF Reached
  <2>5. \A g \in Mounts : g # f => fs'[g].root = fs[g].root BY <2>2 DEF IInv, FsOK
  <2>6. fs'[f].root = w BY <2>2 DEF IInv, FsOK
  <2>7. ASSUME NEW x \in Nodes, x # w, m[x].list > 0
        PROVE  m[x].list # f /\ m[x].list = vn[x].list /\ m[x].list \in Mounts
    <3>1. m[x].list \in Mounts BY <2>3, <2>7 DEF Table, VnodeType
    <3>2. m[x].list = Reached[x].list /\ vn[x].list # f BY <2>3, <2>7
    <3>. QED BY <2>4, <2>7, <3>1, <3>2 DEF Kept
  <2>8. \A x, y \in Nodes :
          /\ m[x].list > 0 /\ m[x].list = m[y].list /\ m[x].key = m[y].key
          => x = y \/ fs'[m[x].list].root \in {x, y}
    BY <1>1, <2>3, <2>5, <2>6, <2>7 DEF OneIn
  <2>9. Kept(m, vn') BY <2>2, <2>3, HoldFacts
  <2>. QED BY <2>8, <2>9 DEF OneVnode, Kept
<1>6. ASSUME Mounted PROVE OneVnode'
  <2>1. PICK f : f = vn[req.new].list OBVIOUS
  <2>2. /\ Walking /\ vn' = [n EXCEPT ![v].mnt = f] /\ fs' = [fs EXCEPT ![f].covered = v]
    BY <1>6, <2>1 DEF Mounted, Arrived, Walking, End, There, Reached
  <2>3. n \in Table /\ v \in Nodes /\ Kept(vn, n) BY <2>2, CrossBalanced
  <2>4. \A u \in Nodes : vn'[u].list = n[u].list /\ vn'[u].key = n[u].key
    BY <2>2, <2>3 DEF Table, VnodeType
  <2>5. \A g : fs'[g].root = fs[g].root BY <2>2 DEF IInv, FsOK
  <2>6. OneIn(n) BY <1>1, <2>3, KeptOne
  <2>. QED BY <2>4, <2>5, <2>6 DEF OneVnode, OneIn
<1>7. ASSUME NEW p \in Procs, NEW i \in Fds, Close(p, i) \/ Use(p, i) PROVE OneVnode'
  <2>1. CASE Close(p, i) BY <1>2, <2>1, CloseOK DEF Close
  <2>2. CASE Use(p, i) BY <1>2, <2>2, KeptSelf DEF Use
  <2>. QED BY <1>7, <2>1, <2>2
<1>8. ASSUME NEW p \in Procs, NEW len \in 0..MaxPath, NEW u \in Nodes,
             NEW op \in {"open", "chdir", "mkdir", "device"}, Begin(p, op, len, u)
      PROVE  OneVnode'
  <2>1. Kept(vn, vn') BY <1>8, HoldFacts DEF Begin, IInv
  <2>. QED BY <1>2, <1>8, <2>1 DEF Begin
<1>9. ASSUME NEW i \in Fds, Open(i) \/ KillClose(i) PROVE OneVnode'
  BY <1>2, <1>9, OpenOK, KillCloseOK DEF Open, KillClose
<1>10. ASSUME NEW p \in Users, Kill(p) \/ ProcKill(p) \/ Sysdir(p) PROVE OneVnode'
  BY <1>2, <1>10, KillOK, SysdirOK, KeptSelf DEF Kill, ProcKill, Sysdir
<1>11. ASSUME NEW p \in Users, NEW q \in Users, Fork(p, q) PROVE OneVnode'
  BY <1>2, <1>11, ForkOK DEF Fork
<1>12. ASSUME Drop \/ OpenFails PROVE OneVnode'
  <2>1. /\ Walking /\ End(Rele(Cross(req.at), Crossed(req.at))) /\ req.op # "target"
        /\ UNCHANGED <<fs, fd, cwd, alive, dying>>
    BY <1>12, ArrivedWalks DEF Drop, OpenFails, Reached, There
  <2>. QED BY <1>2, <2>1, DropOK
<1>13. ASSUME Dot \/ LookupFails \/ MountFails \/ NotMounted PROVE OneVnode'
  <2>1. fs' = fs BY <1>13 DEF Dot, Step, LookupFails, MountFails, NotMounted
  <2>. QED BY <1>2, <1>13, <2>1, DotOK, LookupFailsOK, MountFailsOK, NotMountedOK
<1>14. ASSUME Chdir \/ KillEnd \/ SysdirBack PROVE OneVnode'
  BY <1>2, <1>14, ChdirOK, KillEndOK, SysdirBackOK DEF Chdir, KillEnd, SysdirBack
<1>. QED BY <1>3, <1>4, <1>5, <1>6, <1>7, <1>8, <1>9, <1>10, <1>11, <1>12, <1>13, <1>14
         DEF Next, AskOpen, AskChdir, AskMkdir, AskMount

\* Two users of one file share its vnode (_find_vnode before
\* _allocate_vnode), whatever its clients do and however often vnodes are
\* given back; only the root of a devfs may be named like a device in it.
THEOREM OneVnodeAlways == Spec => []OneVnode
<1>1. Init => OneVnode
  <2>1. ASSUME Init PROVE OneVnode
    <3>1. \A v \in Nodes : /\ v \in {1, 2} => vn[v].list = 1
                           /\ v \in {3, 4} => vn[v].list = 2
                           /\ v \notin {1, 2, 3, 4} => vn[v].list = 0
      BY <2>1 DEF Init, BootVn, Free
    <3>2. fs[1].root = 1 /\ fs[2].root = 3
      <4>1. 1 \in Mounts /\ 2 \in Mounts BY VfsAssumption DEF Mounts
      <4>. QED BY <2>1, <4>1 DEF Init, BootFs
    <3>3. \A v \in Nodes : vn[v].list > 0 =>
            \/ v \in {1, 2} /\ vn[v].list = 1
            \/ v \in {3, 4} /\ vn[v].list = 2
      BY <3>1
    <3>. QED BY <3>2, <3>3 DEF OneVnode
  <2>. QED BY <2>1
<1>2. IInv /\ OneVnode /\ [Next]_vars => OneVnode'
  <2>1. IInv /\ OneVnode /\ Next => OneVnode' BY OneOK
  <2>2. OneVnode /\ UNCHANGED vars => OneVnode' BY DEF vars, OneVnode
  <2>. QED BY <2>1, <2>2
<1>. QED BY <1>1, <1>2, VfsInvariant, PTL DEF Spec
-----------------------------------------------------------------------------
(* The promise to the clients.                                             *)

\* Without mounts every vnode is in the list of a file system of the boot:
\* 1 is remote and 2 the devices.
Kind == "mount" \notin Allowed /\ Calm
Listed == \A u \in Nodes : vn[u].list # -1

\* What a descriptor, a directory or a mount refers to is in a list.
Held ==
  /\ \A p \in Procs, i \in Fds : fd[p][i] # NoNode => vn[fd[p][i]].list # 0
  /\ \A p \in Procs : cwd[p] # NoNode => vn[cwd[p]].list # 0
  /\ \A f \in Mounts \ Slots : vn[fs[f].root].list # 0

LEMMA HeldOK ==
  ASSUME IInv
  PROVE  Held
<1>1. Places \in RefMap /\ vn \in Table /\ Balanced(vn, Places) BY RootHeld DEF IInv
<1>2. \A h \in RefSlots : Places[h] # NoNode => vn[Places[h]].list # 0
  BY <1>1, HeldIsListed
<1>3. \A p \in Procs, i \in Fds : fd[p][i] # NoNode => vn[fd[p][i]].list # 0
  BY <1>2, SlotFacts, PlacesAt
<1>4. \A p \in Procs : cwd[p] # NoNode => vn[cwd[p]].list # 0
  BY <1>2, SlotFacts, PlacesAt
<1>. QED BY <1>3, <1>4, RootHeld DEF Held

\* A vnode that is not only the walk's.
Shared(u) == \E h \in RefSlots : h # W /\ Places[h] = u

\* A vnode stays what it is, or is freed; a directory of devices may be named
\* like one of them.
Stays(n, m, u) == /\ m[u].key = n[u].key \/ n[u].list = 2
                  /\ m[u].list = n[u].list \/ m[u].list = 0

LEMMA BootFacts ==
  ASSUME IInv, Kind
  PROVE  /\ fs = BootFs /\ {1, 2} \subseteq Mounts
         /\ \A f \in Mounts : fs[f].kind = "devfs" <=> f = 2
         /\ \A f \in Mounts : fs[f].kind \in {"rfs", "fat"} => f = 1
<1>1. {1, 2} \subseteq Mounts BY VfsAssumption DEF Mounts
<1>2. fs = BootFs BY DEF IInv, FsOK, Kind
<1>. QED BY <1>1, <1>2 DEF BootFs

\* The vnodes that are shared when the walk has crossed a mount point.
LEMMA SharedListed ==
  ASSUME IInv, Walking, NEW u \in Nodes, Shared(u)
  PROVE  Cross(req.at)[u].list # 0 /\ Cross(req.at)[u].list = vn[u].list
<1>. DEFINE n == Cross(req.at)
            Q == [Places EXCEPT ![W] = Crossed(req.at)]
<1>1. n \in Table /\ Q \in RefMap /\ Balanced(n, Q) /\ Kept(vn, n) BY CrossBalanced
<1>2. PICK h \in RefSlots : h # W /\ Places[h] = u BY DEF Shared
<1>3. Q[h] = u BY <1>2, RootHeld DEF RefMap
<1>4. u # NoNode BY DEF Nodes, NoNode
<1>. HIDE DEF Q
<1>5. n[u].list # 0 BY <1>1, <1>3, <1>4, HeldIsListed
<1>. QED BY <1>1, <1>5 DEF Kept

LEMMA NodesStay ==
  ASSUME IInv, Listed, Kind, Next, NEW u \in Nodes
  PROVE  /\ vn'[u].list # -1
         /\ Stays(vn, vn', u) \/ ~Shared(u)
<1>. DEFINE v == Crossed(req.at)
            n == Cross(req.at)
            f == vn[v].list
<1>1. Kept(vn, vn') => Stays(vn, vn', u) /\ vn'[u].list # -1
  BY DEF Kept, Stays, Listed
<1>2. ASSUME Walking
      PROVE  f \in Mounts /\ v \in Nodes /\ n \in Table /\ Kept(vn, n)
  BY <1>2, CrossBalanced DEF Listed
\* The table that a lookup starts from.
<1>3. ASSUME Walking, NEW a \in Table, NEW w \in Nodes, NEW k, NEW t,
             Grew(a, w, f, k, t)
      PROVE  /\ a[u].list # -1
             /\ \/ a[u].key = vn[u].key /\ (a[u].list = vn[u].list \/ a[u].list = 0)
                \/ ~Shared(u)
  <2>1. /\ n[u].key = vn[u].key /\ (n[u].list = vn[u].list \/ n[u].list = 0)
        /\ vn[u].list # -1 /\ f # -1
    BY <1>2, <1>3 DEF Kept, Listed, Mounts
  <2>2. CASE a = n BY <2>1, <2>2
  <2>3. CASE w \in NextFree(n) /\ a = Alloc(n, w, f, k, t)
    <3>1. n[w].list = 0 BY <2>3 DEF NextFree, Unused
    <3>2. /\ u # w => a[u] = n[u]
          /\ u = w => a[u].list = f
      BY <1>2, <1>3, <2>3 DEF Alloc, Table
    <3>3. CASE u # w BY <2>1, <3>2, <3>3
    <3>4. CASE u = w
      <4>1. ~Shared(u) BY <1>3, <3>1, <3>4, SharedListed
      <4>. QED BY <2>1, <3>2, <3>4, <4>1
    <3>. QED BY <3>3, <3>4
  <2>. QED BY <1>3, <2>2, <2>3 DEF Grew
<1>4. ASSUME NEW o \in Files \cup Dirs, Lookup(o)
      PROVE  vn'[u].list # -1 /\ (Stays(vn, vn', u) \/ ~Shared(u))
  <2>1. Walking BY <1>4 DEF Lookup
  <2>2. PICK a \in Table, w \in Nodes : Grew(a, w, f, o, FileType(o)) /\ Kept(a, vn')
    BY <1>4, LookupOK
  <2>. QED BY <1>3, <2>1, <2>2 DEF Kept, Stays
\* The vnode that is named is the root of the devices.
<1>14. ASSUME NEW d \in Devices, LookupDev(d)
       PROVE  vn'[u].list # -1 /\ (Stays(vn, vn', u) \/ ~Shared(u))
  <2>1. Walking /\ fs[f].kind = "devfs" BY <1>14 DEF LookupDev
  <2>2. f = 2 /\ v \in Nodes BY <1>2, <2>1, BootFacts
  <2>3. PICK a \in Table, w \in Nodes :
          Grew(a, w, f, d, DevType(d)) /\ Kept(Named(a, w, v, d), vn')
    BY <1>14, LookupDevOK
  <2>. DEFINE m == Named(a, w, v, d)
  <2>4. m[u].list = a[u].list /\ m[u].key = IF u = v THEN d ELSE a[u].key
    BY <2>2, <2>3, NamedFacts
  <2>5. Kept(m, vn') BY <2>3
  <2>. HIDE DEF m
  <2>6. /\ vn'[u].key = IF u = v THEN d ELSE a[u].key
        /\ vn'[u].list = a[u].list \/ vn'[u].list = 0
    BY <2>4, <2>5 DEF Kept
  <2>7. u = v => vn[u].list = 2 BY <2>2
  <2>8. /\ a[u].list # -1
        /\ \/ a[u].key = vn[u].key /\ (a[u].list = vn[u].list \/ a[u].list = 0)
           \/ ~Shared(u)
    BY <1>3, <2>1, <2>3
  <2>. QED BY <2>6, <2>7, <2>8 DEF Stays
\* Nothing is mounted.
<1>5. ~(MountFails \/ Mounted \/ NotMounted)
  BY DEF MountFails, Mounted, NotMounted, Arrived, IInv, ReqOK, Kind
<1>6. ASSUME NEW kind, NEW g, NEW w, NEW len, NEW x, Mount(kind, g, w, len, x)
      PROVE  FALSE
  BY <1>6 DEF Mount, Arrived, IInv, ReqOK, Kind
<1>7. ASSUME NEW p \in Procs, NEW i \in Fds, Close(p, i) \/ Use(p, i) PROVE Kept(vn, vn')
  <2>1. CASE Close(p, i) BY <2>1, CloseOK
  <2>2. CASE Use(p, i) BY <2>2, KeptSelf DEF Use
  <2>. QED BY <1>7, <2>1, <2>2
<1>8. ASSUME NEW p \in Procs, NEW len \in 0..MaxPath, NEW x \in Nodes,
             NEW op \in {"open", "chdir", "mkdir", "device"}, Begin(p, op, len, x)
      PROVE  Kept(vn, vn')
  BY <1>8, HoldFacts DEF Begin, IInv
<1>9. ASSUME NEW i \in Fds, Open(i) \/ KillClose(i) PROVE Kept(vn, vn')
  BY <1>9, OpenOK, KillCloseOK
<1>10. ASSUME NEW p \in Users, Kill(p) \/ ProcKill(p) \/ Sysdir(p) PROVE Kept(vn, vn')
  BY <1>10, KillOK, SysdirOK, KeptSelf DEF ProcKill
<1>11. ASSUME NEW p \in Users, NEW q \in Users, Fork(p, q) PROVE Kept(vn, vn')
  BY <1>11, ForkOK
<1>12. ASSUME Drop \/ OpenFails PROVE Kept(vn, vn')
  <2>1. /\ Walking /\ End(Rele(Cross(req.at), Crossed(req.at))) /\ req.op # "target"
        /\ UNCHANGED <<fs, fd, cwd, alive, dying>>
    BY <1>12, ArrivedWalks DEF Drop, OpenFails, Reached, There
  <2>. QED BY <2>1, DropOK
<1>13. ASSUME Dot \/ LookupFails \/ Chdir \/ KillEnd \/ SysdirBack PROVE Kept(vn, vn')
  BY <1>13, DotOK, LookupFailsOK, ChdirOK, KillEndOK, SysdirBackOK
<1>. QED BY <1>1, <1>4, <1>5, <1>6, <1>7, <1>8, <1>9, <1>10, <1>11, <1>12, <1>13, <1>14
         DEF Next, AskOpen, AskChdir, AskMkdir, AskMount

\* What the clients see of a step.
Rests == io' = <<>> /\ UNCHANGED <<fd, cwd>>
Opens(p, i, v) == /\ FirstFd(p, i) /\ fd' = [fd EXCEPT ![p][i] = v]
                  /\ io' = <<>> /\ UNCHANGED cwd
Closes(p, i) == /\ fd[p][i] # NoNode
                /\ fd' = [fd EXCEPT ![p][i] = NoNode]
                /\ io' = <<>> /\ UNCHANGED cwd
Moves(p, v) == /\ cwd' = [cwd EXCEPT ![p] = v]
               /\ io' = <<>> /\ UNCHANGED fd

LEMMA ClientStep ==
  ASSUME IInv, Kind, Next
  PROVE  \/ Rests
         \/ \E p \in Procs, i \in Fds, v \in Nodes : Opens(p, i, v)
         \/ \E p \in Procs, i \in Fds : Closes(p, i) \/ Use(p, i)
         \/ \E p \in Procs, v \in NodeOrNone : Moves(p, v)
         \/ \E p, q \in Users : Fork(p, q)
<1>1. ASSUME NEW p \in Procs, NEW i \in Fds, Close(p, i) PROVE Closes(p, i)
  BY <1>1 DEF Close, Closes, End
<1>2. ASSUME NEW i \in Fds, Open(i)
      PROVE  \E p \in Procs, v \in Nodes : Opens(p, i, v)
  <2>1. Walking /\ req.pid \in Procs BY <1>2, ArrivedWalks DEF Open, IInv, ReqOK, ReqType
  <2>2. There \in Nodes BY <2>1, CrossBalanced DEF There
  <2>3. Opens(req.pid, i, There) BY <1>2 DEF Open, Opens, End
  <2>. QED BY <2>1, <2>2, <2>3
<1>3. ASSUME NEW i \in Fds, KillClose(i)
      PROVE  \E p \in Procs : Closes(p, i)
  <2>1. req.pid \in Procs BY DEF IInv, ReqOK, ReqType
  <2>2. Closes(req.pid, i) BY <1>3, <2>1 DEF KillClose, Closes
  <2>. QED BY <2>1, <2>2
<1>4. ASSUME Chdir PROVE \E p \in Procs, v \in NodeOrNone : Moves(p, v)
  <2>1. Walking /\ req.pid \in Procs
    BY <1>4 DEF Chdir, Arrived, Walking, IInv, ReqOK, ReqType
  <2>2. There \in NodeOrNone BY <2>1, CrossBalanced DEF There, NodeOrNone
  <2>3. Moves(req.pid, There) BY <1>4 DEF Chdir, Moves, End
  <2>. QED BY <2>1, <2>2, <2>3
<1>5. ASSUME KillEnd \/ SysdirBack PROVE \E p \in Procs, v \in NodeOrNone : Moves(p, v)
  <2>1. req.pid \in Procs /\ SYS \in Procs /\ NoNode \in NodeOrNone
    BY DEF IInv, ReqOK, ReqType, Procs, NodeOrNone
  <2>2. Moves(req.pid, NoNode) \/ Moves(SYS, NoNode)
    BY <1>5 DEF KillEnd, SysdirBack, Moves, End
  <2>. QED BY <2>1, <2>2
<1>6. ASSUME NEW p \in Users, Sysdir(p) PROVE \E q \in Procs, v \in NodeOrNone : Moves(q, v)
  <2>1. p \in Procs /\ SYS \in Procs BY DEF Procs
  <2>2. cwd[p] \in NodeOrNone BY <2>1 DEF IInv, Typed
  <2>3. Moves(SYS, cwd[p]) BY <1>6 DEF Sysdir, Moves, End
  <2>. QED BY <2>1, <2>2, <2>3
<1>7. ASSUME NEW p \in Users, Kill(p) \/ ProcKill(p) PROVE Rests
  BY <1>7 DEF Kill, ProcKill, Rests
<1>8. ASSUME NEW o \in Files \cup Dirs, Lookup(o) PROVE Rests
  BY <1>8 DEF Lookup, Step, Rests
<1>9. ASSUME NEW d \in Devices, LookupDev(d) PROVE Rests
  BY <1>9 DEF LookupDev, Step, Rests
<1>10. ASSUME NEW p, NEW op, NEW len, NEW v, Begin(p, op, len, v) PROVE Rests
  BY <1>10 DEF Begin, Rests
<1>11. ASSUME Dot \/ LookupFails \/ OpenFails \/ Drop PROVE Rests
  BY <1>11 DEF Dot, Step, LookupFails, OpenFails, Drop, End, Rests
<1>12. ~(MountFails \/ Mounted \/ NotMounted)
  BY DEF MountFails, Mounted, NotMounted, Arrived, IInv, ReqOK, Kind
<1>13. ASSUME NEW kind, NEW g, NEW w, NEW len, NEW x, Mount(kind, g, w, len, x)
       PROVE  FALSE
  BY <1>13 DEF Mount, Arrived, IInv, ReqOK, Kind
<1>. QED BY <1>1, <1>2, <1>3, <1>4, <1>5, <1>6, <1>7, <1>8, <1>9, <1>10, <1>11, <1>12, <1>13
         DEF Next, AskOpen, AskChdir, AskMkdir, AskMount

LEMMA WhatType ==
  ASSUME IInv, NEW v \in NodeOrNone
  PROVE  IF v = NoNode THEN What(v) = None ELSE What(v) \in Objects /\ What(v) # None
<1>1. CASE v # NoNode
  <2>1. v \in Nodes /\ vn[v] \in VnodeType BY <1>1 DEF IInv, Table, NodeOrNone
  <2>2. vn[v].key \in Objects BY <2>1 DEF VnodeType
  <2>3. DEVFS \in Objects /\ None \notin Objects BY VfsAssumption DEF Objects
  <2>. QED BY <1>1, <2>2, <2>3 DEF What
<1>. QED BY <1>1 DEF What

FileOf == [p \in Procs |-> [i \in Fds |-> What(fd[p][i])]]
DirOf  == [p \in Procs |-> What(cwd[p])]

\* What is referred to by descriptors and current directories before a step
\* and after it has the same name.
LEMMA NamesStay ==
  ASSUME IInv, Listed, Kind, Next, IInv', NEW v \in NodeOrNone, Shared(v),
         v # NoNode => vn'[v].list # 0
  PROVE  What(v)' = What(v)
<1>1. CASE v = NoNode BY <1>1 DEF What
<1>2. CASE v # NoNode
  <2>1. v \in Nodes BY <1>2 DEF NodeOrNone
  <2>2. (vn'[v].key = vn[v].key \/ vn[v].list = 2) /\ vn'[v].list = vn[v].list
    BY <1>2, <2>1, NodesStay DEF Stays
  <2>3. fs' = fs BY DEF IInv, FsOK, Kind
  <2>4. vn[v].list = 2 => vn[v].list \in Mounts /\ fs[vn[v].list].kind = "devfs"
    BY BootFacts
  <2>. QED BY <1>2, <2>2, <2>3, <2>4 DEF What
<1>. QED BY <1>1, <1>2

LEMMA FdNames ==
  ASSUME IInv, Listed, Kind, Next, IInv', Held', NEW v
  PROVE  /\ \A p, q \in Procs, i, j \in Fds :
              v = fd[p][i] /\ v = fd'[q][j] => What(v)' = What(v)
         /\ \A p, q \in Procs : v = cwd[p] /\ v = cwd'[q] => What(v)' = What(v)
<1>1. ASSUME NEW p \in Procs, NEW q \in Procs, NEW i \in Fds, NEW j \in Fds,
             v = fd[p][i], v = fd'[q][j]
      PROVE  What(v)' = What(v)
  <2>1. v \in NodeOrNone BY <1>1 DEF IInv, Typed
  <2>2. Shared(v)
    <3>1. FdSlot(p, i) \in RefSlots /\ FdSlot(p, i) # W /\ Places[FdSlot(p, i)] = v
      BY <1>1, SlotFacts, PlacesAt
    <3>. QED BY <3>1 DEF Shared
  <2>3. v # NoNode => vn'[v].list # 0 BY <1>1 DEF Held
  <2>. QED BY <2>1, <2>2, <2>3, NamesStay
<1>2. ASSUME NEW p \in Procs, NEW q \in Procs, v = cwd[p], v = cwd'[q]
      PROVE  What(v)' = What(v)
  <2>1. v \in NodeOrNone BY <1>2 DEF IInv, Typed
  <2>2. Shared(v) BY <1>2, SlotFacts, PlacesAt DEF Shared
  <2>3. v # NoNode => vn'[v].list # 0 BY <1>2 DEF Held
  <2>. QED BY <2>1, <2>2, <2>3, NamesStay
<1>. QED BY <1>1, <1>2

\* What a vnode is after the step.
NextWhat(v) ==
  IF v = NoNode THEN None
  ELSE IF vn'[v].list \in Mounts /\ fs'[vn'[v].list].kind = "devfs" THEN DEVFS
  ELSE vn'[v].key

Puts(p, i, v) == fd' = [fd EXCEPT ![p][i] = v]

LEMMA FilesStay ==
  ASSUME IInv, Listed, Kind, Next, IInv', Held'
  PROVE  /\ fd' = fd => FileOf' = FileOf
         /\ cwd' = cwd => DirOf' = DirOf
         /\ \A p \in Procs, i \in Fds, v \in NodeOrNone :
              Puts(p, i, v) => FileOf' = [FileOf EXCEPT ![p][i] = NextWhat(v)]
         /\ \A p \in Procs, v \in NodeOrNone :
              cwd' = [cwd EXCEPT ![p] = v] => DirOf' = [DirOf EXCEPT ![p] = NextWhat(v)]
         /\ \A p, q \in Procs :
              fd' = [fd EXCEPT ![q] = fd[p]] => FileOf' = [FileOf EXCEPT ![q] = FileOf[p]]
         /\ \A p, q \in Procs :
              cwd' = [cwd EXCEPT ![q] = cwd[p]] => DirOf' = [DirOf EXCEPT ![q] = DirOf[p]]
<1>1. Typed BY DEF IInv
<1>2. /\ FileOf' = [p \in Procs |-> [i \in Fds |-> NextWhat(fd'[p][i])]]
      /\ DirOf' = [p \in Procs |-> NextWhat(cwd'[p])]
      /\ \A v \in NodeOrNone : What(v)' = NextWhat(v)
  BY DEF FileOf, DirOf, What, NextWhat
<1>3. /\ \A p, q \in Procs, i, j \in Fds :
           fd'[q][j] = fd[p][i] => NextWhat(fd'[q][j]) = FileOf[p][i]
      /\ \A p, q \in Procs : cwd'[q] = cwd[p] => NextWhat(cwd'[q]) = DirOf[p]
  <2>1. ASSUME NEW p \in Procs, NEW q \in Procs, NEW i \in Fds, NEW j \in Fds,
               fd'[q][j] = fd[p][i]
        PROVE  NextWhat(fd'[q][j]) = FileOf[p][i]
    <3>1. PICK v : v = fd[p][i] /\ v = fd'[q][j] BY <2>1
    <3>2. What(v)' = What(v) BY <3>1, FdNames
    <3>3. What(v)' = NextWhat(v) BY DEF What, NextWhat
    <3>. QED BY <3>1, <3>2, <3>3 DEF FileOf
  <2>2. ASSUME NEW p \in Procs, NEW q \in Procs, cwd'[q] = cwd[p]
        PROVE  NextWhat(cwd'[q]) = DirOf[p]
    <3>1. PICK v : v = cwd[p] /\ v = cwd'[q] BY <2>2
    <3>2. What(v)' = What(v) BY <3>1, FdNames
    <3>3. What(v)' = NextWhat(v) BY DEF What, NextWhat
    <3>. QED BY <3>1, <3>2, <3>3 DEF DirOf
  <2>. QED BY <2>1, <2>2
<1>4. /\ FileOf = [p \in Procs |-> [i \in Fds |-> FileOf[p][i]]]
      /\ DirOf = [p \in Procs |-> DirOf[p]]
  BY DEF FileOf, DirOf
<1>5. fd' = fd => FileOf' = FileOf BY <1>2, <1>3, <1>4
<1>6. cwd' = cwd => DirOf' = DirOf BY <1>2, <1>3, <1>4
<1>7. ASSUME NEW p \in Procs, NEW i \in Fds, NEW v \in NodeOrNone,
             Puts(p, i, v)
      PROVE  FileOf' = [FileOf EXCEPT ![p][i] = NextWhat(v)]
  <2>. DEFINE G == [FileOf EXCEPT ![p][i] = NextWhat(v)]
  <2>1. \A q \in Procs, j \in Fds :
          fd'[q][j] = IF q = p /\ j = i THEN v ELSE fd[q][j]
    BY <1>1, <1>7 DEF Typed, Puts
  <2>2. \A q \in Procs, j \in Fds :
          G[q][j] = IF q = p /\ j = i THEN NextWhat(v) ELSE FileOf[q][j]
    BY <1>4
  <2>3. G = [q \in Procs |-> [j \in Fds |-> G[q][j]]] BY <1>4
  <2>. HIDE DEF G
  <2>4. \A q \in Procs, j \in Fds : NextWhat(fd'[q][j]) = G[q][j] BY <1>3, <2>1, <2>2
  <2>5. FileOf' = G BY <1>2, <2>3, <2>4
  <2>. QED BY <2>5 DEF G
<1>8. ASSUME NEW p \in Procs, NEW v \in NodeOrNone, cwd' = [cwd EXCEPT ![p] = v]
      PROVE  DirOf' = [DirOf EXCEPT ![p] = NextWhat(v)]
  <2>. DEFINE G == [DirOf EXCEPT ![p] = NextWhat(v)]
  <2>1. \A q \in Procs : cwd'[q] = IF q = p THEN v ELSE cwd[q]
    BY <1>1, <1>8 DEF Typed
  <2>2. /\ \A q \in Procs : G[q] = IF q = p THEN NextWhat(v) ELSE DirOf[q]
        /\ G = [q \in Procs |-> G[q]]
    BY <1>4
  <2>. HIDE DEF G
  <2>3. \A q \in Procs : NextWhat(cwd'[q]) = G[q] BY <1>3, <2>1, <2>2
  <2>4. DirOf' = G BY <1>2, <2>2, <2>3
  <2>. QED BY <2>4 DEF G
<1>9. ASSUME NEW p \in Procs, NEW q \in Procs, fd' = [fd EXCEPT ![q] = fd[p]]
      PROVE  FileOf' = [FileOf EXCEPT ![q] = FileOf[p]]
  <2>. DEFINE G == [FileOf EXCEPT ![q] = FileOf[p]]
  <2>1. \A r \in Procs, j \in Fds : fd'[r][j] = IF r = q THEN fd[p][j] ELSE fd[r][j]
    BY <1>1, <1>9 DEF Typed
  <2>2. /\ \A r \in Procs, j \in Fds :
             G[r][j] = IF r = q THEN FileOf[p][j] ELSE FileOf[r][j]
        /\ G = [r \in Procs |-> [j \in Fds |-> G[r][j]]]
    BY <1>4
  <2>. HIDE DEF G
  <2>3. \A r \in Procs, j \in Fds : NextWhat(fd'[r][j]) = G[r][j] BY <1>3, <2>1, <2>2
  <2>4. FileOf' = G BY <1>2, <2>2, <2>3
  <2>. QED BY <2>4 DEF G
<1>10. ASSUME NEW p \in Procs, NEW q \in Procs, cwd' = [cwd EXCEPT ![q] = cwd[p]]
       PROVE  DirOf' = [DirOf EXCEPT ![q] = DirOf[p]]
  <2>. DEFINE G == [DirOf EXCEPT ![q] = DirOf[p]]
  <2>1. \A r \in Procs : cwd'[r] = IF r = q THEN cwd[p] ELSE cwd[r]
    BY <1>1, <1>10 DEF Typed
  <2>2. /\ \A r \in Procs : G[r] = IF r = q THEN DirOf[p] ELSE DirOf[r]
        /\ G = [r \in Procs |-> G[r]]
    BY <1>4
  <2>. HIDE DEF G
  <2>3. \A r \in Procs : NextWhat(cwd'[r]) = G[r] BY <1>3, <2>1, <2>2
  <2>4. DirOf' = G BY <1>2, <2>2, <2>3
  <2>. QED BY <2>4 DEF G
<1>. QED BY <1>5, <1>6, <1>7, <1>8, <1>9, <1>10

\* A step of the server is one of the promise.
LEMMA PromiseStep ==
  ASSUME IInv, Listed, Kind, Next, IInv', Held'
  PROVE  Promise!Next
<1>1. /\ \A v \in NodeOrNone : v # NoNode => What(v) \in Objects /\ What(v) # None
      /\ What(NoNode) = None
  BY WhatType DEF What
<1>2. ASSUME NEW v \in NodeOrNone
      PROVE  NextWhat(v) \in Objects \cup {None} /\ (v # NoNode => NextWhat(v) \in Objects)
  <2>1. CASE v = NoNode BY <2>1 DEF NextWhat
  <2>2. CASE v # NoNode
    <3>1. v \in Nodes /\ vn'[v] \in VnodeType BY <2>2 DEF IInv, Table, NodeOrNone
    <3>2. vn'[v].key \in Objects /\ DEVFS \in Objects BY <3>1 DEF VnodeType, Objects
    <3>. QED BY <2>2, <3>2 DEF NextWhat
  <2>. QED BY <2>1, <2>2
<1>3. \A p \in Procs : /\ cwd[p] \in NodeOrNone
                       /\ \A i \in Fds : fd[p][i] \in NodeOrNone
  BY DEF IInv, Typed
<1>4. /\ \A p \in Procs, i \in Fds : FileOf[p][i] = What(fd[p][i])
      /\ \A p \in Procs : DirOf[p] = What(cwd[p])
      /\ \A p \in Procs, i \in Fds : FileOf[p][i] # None <=> fd[p][i] # NoNode
  BY <1>1, <1>3 DEF FileOf, DirOf
<1>5. ASSUME Rests PROVE Promise!Rest
  <2>1. io' = <<>> /\ FileOf' = FileOf /\ DirOf' = DirOf BY <1>5, FilesStay DEF Rests
  <2>. QED BY <2>1 DEF Promise!Rest, FileOf, DirOf
<1>6. ASSUME NEW p \in Procs, NEW i \in Fds, NEW v \in Nodes, Opens(p, i, v)
      PROVE  \E o \in Objects : Promise!Open(p, i, o)
  <2>1. v \in NodeOrNone /\ v # NoNode BY DEF NodeOrNone, Nodes, NoNode
  <2>2. PICK o \in Objects : o = NextWhat(v) BY <1>2, <2>1
  <2>3. /\ io' = <<>> /\ FileOf' = [FileOf EXCEPT ![p][i] = o] /\ DirOf' = DirOf
    <3>1. io' = <<>> /\ Puts(p, i, v) /\ cwd' = cwd BY <1>6 DEF Opens, Puts
    <3>2. FileOf' = [FileOf EXCEPT ![p][i] = NextWhat(v)] BY <2>1, <3>1, FilesStay
    <3>. QED BY <2>2, <3>1, <3>2, FilesStay
  <2>4. ~(FileOf[p][i] # None) /\ \A j \in Fds : j < i => FileOf[p][j] # None
    BY <1>4, <1>6 DEF Opens, FirstFd
  <2>. QED BY <2>3, <2>4 DEF Promise!Open, Promise!Used, FileOf, DirOf
<1>7. ASSUME NEW p \in Procs, NEW i \in Fds, Closes(p, i)
      PROVE  Promise!Close(p, i)
  <2>1. NoNode \in NodeOrNone /\ NextWhat(NoNode) = None BY DEF NodeOrNone, NextWhat
  <2>2. /\ io' = <<>> /\ FileOf' = [FileOf EXCEPT ![p][i] = None] /\ DirOf' = DirOf
    <3>1. io' = <<>> /\ Puts(p, i, NoNode) /\ cwd' = cwd BY <1>7 DEF Closes, Puts
    <3>2. FileOf' = [FileOf EXCEPT ![p][i] = NextWhat(NoNode)] BY <2>1, <3>1, FilesStay
    <3>. QED BY <2>1, <3>1, <3>2, FilesStay
  <2>3. FileOf[p][i] # None BY <1>4, <1>7 DEF Closes
  <2>. QED BY <2>2, <2>3 DEF Promise!Close, Promise!Used, FileOf, DirOf
<1>8. ASSUME NEW p \in Procs, NEW i \in Fds, Use(p, i)
      PROVE  Promise!Use(p, i)
  <2>1. FileOf' = FileOf /\ DirOf' = DirOf BY <1>8, FilesStay DEF Use
  <2>2. io' = <<p, i, FileOf[p][i]>> /\ FileOf[p][i] # None BY <1>4, <1>8 DEF Use
  <2>. QED BY <2>1, <2>2 DEF Promise!Use, Promise!Used, FileOf, DirOf
<1>9. ASSUME NEW p \in Procs, NEW v \in NodeOrNone, Moves(p, v)
      PROVE  \E o \in Objects \cup {None} : Promise!ChangeDir(p, o)
  <2>1. PICK o \in Objects \cup {None} : o = NextWhat(v) BY <1>2
  <2>2. io' = <<>> /\ FileOf' = FileOf /\ DirOf' = [DirOf EXCEPT ![p] = o]
    BY <1>9, <2>1, FilesStay DEF Moves
  <2>. QED BY <2>2 DEF Promise!ChangeDir, FileOf, DirOf
<1>10. ASSUME NEW p \in Users, NEW q \in Users, Fork(p, q)
       PROVE  p \in Procs /\ q \in Procs /\ Promise!Fork(p, q)
  <2>1. /\ p \in Procs /\ q \in Procs /\ p # q /\ q \notin alive /\ io' = <<>>
        /\ fd' = [fd EXCEPT ![q] = fd[p]] /\ cwd' = [cwd EXCEPT ![q] = cwd[p]]
    BY <1>10 DEF Fork, Procs
  <2>2. /\ FileOf' = [FileOf EXCEPT ![q] = FileOf[p]]
        /\ DirOf' = [DirOf EXCEPT ![q] = DirOf[p]]
    BY <2>1, FilesStay
  <2>3. cwd[q] = NoNode /\ \A i \in Fds : fd[q][i] = NoNode
    BY <2>1 DEF IInv, DeadEmpty, Kind
  <2>4. DirOf[q] = None /\ \A i \in Fds : ~(FileOf[q][i] # None)
    BY <1>1, <1>4, <2>1, <2>3
  <2>. QED BY <2>1, <2>2, <2>4 DEF Promise!Fork, Promise!Used, FileOf, DirOf
<1>. QED BY <1>5, <1>6, <1>7, <1>8, <1>9, <1>10, ClientStep DEF Promise!Next

\* The server keeps its promise to its clients (OpenFiles): the file or
\* directory that a descriptor names never changes between the open and the
\* close, nor becomes a device, whatever others open, close, fork and look up
\* (vfs.c, devfs.c), for every number of processes, descriptors, vnodes, files
\* and devices, as long as nothing is mounted after the boot and only
\* processes that have stopped are killed.
THEOREM KeepsPromiseAlways ==
  ASSUME "mount" \notin Allowed, "running" \notin Allowed
  PROVE  Spec => KeepsPromise
<1>1. Kind BY DEF Kind, Calm
<1>2. Init => Listed BY DEF Init, BootVn, Free, Listed
<1>3. IInv => Held BY HeldOK
<1>4. IInv /\ Listed /\ [Next]_vars => Listed'
  <2>1. IInv /\ Listed /\ Next => Listed' BY <1>1, NodesStay DEF Listed
  <2>2. Listed /\ UNCHANGED vars => Listed' BY DEF vars, Listed
  <2>. QED BY <2>1, <2>2
<1>5. Spec => [](IInv /\ Listed) BY <1>2, <1>4, VfsInvariant, PTL DEF Spec
<1>6. Init => Promise!TypeOK /\ io = <<>>
  <2>. SUFFICES ASSUME Init PROVE Promise!TypeOK /\ io = <<>> OBVIOUS
  <2>1. IInv BY InitOK
  <2>2. \A v \in NodeOrNone : What(v) \in Objects \cup {None}
    BY <2>1, WhatType
  <2>3. \A p \in Procs : cwd[p] \in NodeOrNone /\ \A i \in Fds : fd[p][i] \in NodeOrNone
    BY <2>1 DEF IInv, Typed
  <2>. QED BY <2>2, <2>3 DEF Promise!TypeOK, Init
<1>7. IInv /\ Listed /\ IInv' /\ [Next]_vars => [Promise!Next]_(Promise!vars)
  <2>1. IInv /\ Listed /\ IInv' /\ Held' /\ Next => Promise!Next
    BY <1>1, PromiseStep
  <2>2. IInv' => Held' BY <1>3, PTL
  <2>3. UNCHANGED vars => UNCHANGED Promise!vars
    BY DEF vars, Promise!vars, What
  <2>. QED BY <2>1, <2>2, <2>3
<1>. QED BY <1>5, <1>6, <1>7, PTL DEF Spec, KeepsPromise, Promise!Spec
=============================================================================
