---------------------------- MODULE SystemProofs ----------------------------
(***************************************************************************)
(* Proc and System are correct for every size of the process table, every  *)
(* set of tasks and of signalled processes.                                *)
(*                                                                         *)
(* The first two parts are about Proc, alone and under System: what the    *)
(* list operations of kernel/proc.c do to well-formed lists (two general   *)
(* facts about inserting into and removing from one cycle, and the four    *)
(* operations, each with the frame condition that the other list is not    *)
(* disturbed); and the type invariant, the two lists and who has the CPU,  *)
(* none of them inductive alone.  A list operation needs both lists well   *)
(* formed and disjoint, removing from the ready list needs somebody else   *)
(* in it (idle), and rotating it needs to know that the process that runs  *)
(* is its head.                                                            *)
(*                                                                         *)
(* The other parts are about the kernel with its processes.  First in      *)
(* general, whatever signals arrive, whatever programs take an exception   *)
(* and whenever a child ends: every step is one of Proc, and the system    *)
(* task frees no slot that is free.  The invariant RInv says what the two  *)
(* servers can be at, that who waits for the system task has called it,    *)
(* and that each child is in one hand at most, its parent's or the system  *)
(* task's, and there as long as it is.  FInv adds to it who can still be   *)
(* disturbed: a process is signalled by the child it waits for or is about *)
(* to wait for, and by no other.  So the system task forks nobody whose    *)
(* call is half cut, and no rendezvous is missed.                          *)
(*                                                                         *)
(* Then about undisturbed programs (Quiet): no device signals a task, no   *)
(* program takes an exception, and a child does not end before its parent  *)
(* waits for it.  A server never waits for one client, an answer goes to   *)
(* the process that asked for it, and wait and kill see the child they are *)
(* about.  Disturbed, calls are cut short and answers do go astray.  The   *)
(* invariant SInv says of each server which request it holds and that its  *)
(* client waits for nothing else, of each user process where in a call it  *)
(* is, and of each parent and child that the one knows the other.          *)
(***************************************************************************)
EXTENDS System, WellFoundedInduction, TLAPS


-----------------------------------------------------------------------------
(* Pointers on a set decide whether the set is a ring.                     *)

LEMMA Frame ==
  ASSUME NEW L, NEW M, NEW S, NEW h, Ring(L, h, S),
         \A q \in S : M.next[q] = L.next[q] /\ M.prev[q] = L.prev[q]
  PROVE  Ring(M, h, S)
BY DEF Ring, Linked, OneCycle

LEMMA AnyHead ==
  ASSUME NEW L, NEW S, NEW h, NEW g \in S, Ring(L, h, S)
  PROVE  Ring(L, g, S)
BY DEF Ring

LEMMA Alone ==
  ASSUME NEW L \in LinksType, NEW p \in Pid
  PROVE  Ring(LinkAlone(L, p), p, {p})
<1> DEFINE M == LinkAlone(L, p)
<1>1. M.next[p] = p /\ M.prev[p] = p
  BY DEF LinkAlone, LinksType
<1>2. Linked(M, {p}) /\ OneCycle(M, {p})
  BY <1>1 DEF Linked, OneCycle
<1> QED  BY <1>2 DEF Ring

LEMMA Inserted ==
  ASSUME NEW L \in LinksType, NEW S \in SUBSET Pid, NEW h \in S,
         NEW p \in Pid \ S, Ring(L, h, S)
  PROVE  Ring(LinkAfter(L, h, p), h, S \cup {p})
<1> DEFINE M == LinkAfter(L, h, p)
           n == L.next[h]
<1>1. n \in S /\ p # n /\ p # h
  BY DEF Ring, Linked
<1>2. /\ \A q \in Pid : M.next[q] = IF q = h THEN p ELSE IF q = p THEN n ELSE L.next[q]
      /\ \A q \in Pid : M.prev[q] = IF q = n THEN p ELSE IF q = p THEN h ELSE L.prev[q]
  BY <1>1 DEF LinkAfter, LinksType
<1>3. Linked(M, S \cup {p})
  BY <1>1, <1>2 DEF Ring, Linked
<1>4. OneCycle(M, S \cup {p})
  <2> SUFFICES ASSUME NEW T \in SUBSET (S \cup {p}), T # {},
                      \A q \in T : M.next[q] \in T
               PROVE  T = S \cup {p}
    BY DEF OneCycle
  <2> DEFINE U == T \ {p}
  <2>1. U # {}
    BY <1>1, <1>2
  <2>2. \A q \in U : L.next[q] \in U
    BY <1>1, <1>2 DEF Ring, Linked
  <2>3. U = S
    BY <2>1, <2>2 DEF Ring, OneCycle
  <2> QED  BY <1>2, <2>3
<1> QED  BY <1>3, <1>4 DEF Ring

LEMMA Removed ==
  ASSUME NEW L \in LinksType, NEW S \in SUBSET Pid, NEW h, NEW p \in S, NEW o \in S,
         o # p, Ring(L, h, S)
  PROVE  /\ Linked(Unlink(L, p), S \ {p})
         /\ OneCycle(Unlink(L, p), S \ {p})
         /\ L.next[p] \in S \ {p}
         /\ L.prev[p] \in S \ {p}
<1> DEFINE M == Unlink(L, p)
           a == L.prev[p]
           b == L.next[p]
<1>1. a \in S /\ b \in S /\ L.next[a] = p /\ L.prev[b] = p
  BY DEF Ring, Linked
<1>2. b # p
  <2> SUFFICES ASSUME b = p PROVE FALSE
    OBVIOUS
  <2>1. {p} \in SUBSET S /\ {p} # {} /\ \A q \in {p} : L.next[q] \in {p}
    OBVIOUS
  <2>2. {p} = S
    BY <2>1 DEF Ring, OneCycle
  <2> QED  BY <2>2
<1>3. a # p
  BY <1>1, <1>2
<1>4. /\ \A q \in Pid : M.next[q] = IF q = a THEN b ELSE L.next[q]
      /\ \A q \in Pid : M.prev[q] = IF q = b THEN a ELSE L.prev[q]
  BY <1>1 DEF Unlink, LinksType
<1>5. Linked(M, S \ {p})
  BY <1>1, <1>2, <1>3, <1>4 DEF Ring, Linked
<1>6. OneCycle(M, S \ {p})
  <2> SUFFICES ASSUME NEW T \in SUBSET (S \ {p}), T # {},
                      \A q \in T : M.next[q] \in T
               PROVE  T = S \ {p}
    BY DEF OneCycle
  <2> DEFINE U == IF a \in T THEN T \cup {p} ELSE T
  <2>1. \A q \in U : L.next[q] \in U
    BY <1>1, <1>3, <1>4
  <2>2. U = S
    BY <2>1 DEF Ring, OneCycle
  <2> QED  BY <2>2
<1> QED  BY <1>1, <1>2, <1>3, <1>5, <1>6

-----------------------------------------------------------------------------
(* The operations on a table whose ready list holds S and whose free list  *)
(* holds F.                                                                *)

Lists(L, S, F) ==
  /\ L \in LinksType
  /\ S \in SUBSET Pid /\ F \in SUBSET Pid /\ S \cap F = {}
  /\ Ring(L, L.ready, S)
  /\ Ring(L, L.free, F)

LEMMA ReadyAdded ==
  ASSUME NEW L, NEW S, NEW F, Lists(L, S, F), S # {}, NEW p \in Pid \ (S \cup F)
  PROVE  /\ Lists(AddReady(L, p), S \cup {p}, F)
         /\ AddReady(L, p).ready = L.ready
         /\ AddReady(L, p).free = L.free
<1> DEFINE M == LinkAfter(L, L.ready, p)
<1>1. L.ready \in S /\ L.ready # NULL /\ L.next[L.ready] \in S
  <2>1. L.ready \in S /\ Linked(L, S)
    BY DEF Lists, Ring
  <2>2. S \subseteq Pid
    BY DEF Lists
  <2>3. NULL \notin Pid
    BY DEF NULL, Pid
  <2> QED  BY <2>1, <2>2, <2>3 DEF Linked
<1>2. AddReady(L, p) = M
  BY <1>1 DEF AddReady
<1>3. M \in LinksType /\ M.ready = L.ready /\ M.free = L.free
  <2>1. L.ready \in Pid /\ L.next[L.ready] \in Pid
    BY <1>1 DEF Lists
  <2>2. L \in LinksType
    BY DEF Lists
  <2> QED  BY <2>1, <2>2 DEF LinkAfter, LinksType
<1>4. Ring(M, M.ready, S \cup {p})
  BY <1>1, <1>3, Inserted DEF Lists
<1>5. Ring(M, M.free, F)
  <2>1. \A q \in F : M.next[q] = L.next[q] /\ M.prev[q] = L.prev[q]
    BY <1>1 DEF Lists, LinkAfter, LinksType
  <2>2. Ring(L, L.free, F)
    BY DEF Lists
  <2> QED  BY <1>3, <2>1, <2>2, Frame
<1> QED  BY <1>2, <1>3, <1>4, <1>5 DEF Lists

LEMMA ReadyRemoved ==
  ASSUME NEW L, NEW S, NEW F, Lists(L, S, F), NEW p \in S, NEW o \in S, o # p
  PROVE  /\ Lists(RemoveReady(L, p), S \ {p}, F)
         /\ L.ready # p => RemoveReady(L, p).ready = L.ready
<1> DEFINE U == Unlink(L, p)
           M == RemoveReady(L, p)
<1>1. /\ Linked(U, S \ {p})
      /\ OneCycle(U, S \ {p})
      /\ L.next[p] \in S \ {p}
      /\ L.prev[p] \in S \ {p}
  BY Removed DEF Lists
<1>2. U \in LinksType /\ U.ready = L.ready /\ U.free = L.free
  BY <1>1 DEF Lists, Unlink, LinksType
<1>3. /\ M \in LinksType
      /\ M.ready = (IF L.ready = p THEN L.next[p] ELSE L.ready)
      /\ M.free = L.free
  BY <1>1, <1>2 DEF Lists, RemoveReady, LinksType
<1>4. \A q \in Pid \ {p} : M.next[q] = U.next[q] /\ M.prev[q] = U.prev[q]
  BY <1>2 DEF RemoveReady, LinksType
<1>5. Ring(M, M.ready, S \ {p})
  <2>1. M.ready \in S \ {p}
    BY <1>1, <1>3 DEF Lists, Ring
  <2>2. Ring(U, M.ready, S \ {p})
    BY <1>1, <2>1 DEF Ring
  <2>3. \A q \in S \ {p} : M.next[q] = U.next[q] /\ M.prev[q] = U.prev[q]
    BY <1>4 DEF Lists
  <2> QED  BY <2>2, <2>3, Frame
<1>6. Ring(M, M.free, F)
  <2>1. \A q \in F : U.next[q] = L.next[q] /\ U.prev[q] = L.prev[q]
    BY <1>1 DEF Lists, Unlink, LinksType
  <2>2. \A q \in F : M.next[q] = L.next[q] /\ M.prev[q] = L.prev[q]
    BY <1>4, <2>1 DEF Lists
  <2>3. Ring(L, L.free, F)
    BY DEF Lists
  <2> QED  BY <1>3, <2>2, <2>3, Frame
<1> QED  BY <1>3, <1>5, <1>6 DEF Lists

LEMMA FreeAdded ==
  ASSUME NEW L, NEW S, NEW F, Lists(L, S, F), NEW p \in Pid \ (S \cup F)
  PROVE  /\ Lists(AddFree(L, p), S, F \cup {p})
         /\ AddFree(L, p).ready = L.ready
<1> DEFINE M == AddFree(L, p)
<1>1. CASE F = {}
  <2>1. L.free = NULL
    BY <1>1 DEF Lists, Ring
  <2> DEFINE A == LinkAlone(L, p)
  <2>2. M \in LinksType /\ M.ready = L.ready /\ M.free = p
    BY <2>1 DEF AddFree, LinkAlone, Lists, LinksType
  <2>3. \A q \in Pid : M.next[q] = A.next[q] /\ M.prev[q] = A.prev[q]
    BY <2>1 DEF AddFree, LinkAlone, Lists, LinksType
  <2>4. Ring(M, p, {p})
    <3>1. Ring(A, p, {p})
      BY Alone DEF Lists
    <3> QED  BY <3>1, <2>3, Frame
  <2>5. Ring(M, M.ready, S)
    <3>1. \A q \in S : M.next[q] = L.next[q] /\ M.prev[q] = L.prev[q]
      BY <2>1 DEF AddFree, LinkAlone, Lists, LinksType
    <3>2. Ring(L, L.ready, S)
      BY DEF Lists
    <3> QED  BY <2>2, <3>1, <3>2, Frame
  <2>6. F \cup {p} = {p}
    BY <1>1
  <2> QED  BY <2>2, <2>4, <2>5, <2>6 DEF Lists
<1>2. CASE F # {}
  <2>1. L.free \in F /\ L.free # NULL /\ L.next[L.free] \in F
    <3>1. L.free \in F
      BY <1>2 DEF Lists, Ring
    <3>2. L.next[L.free] \in F
      BY <3>1 DEF Lists, Ring, Linked
    <3>3. L.free # NULL
      BY <3>1 DEF Lists, NULL, Pid
    <3> QED  BY <3>1, <3>2, <3>3
  <2>2. M = LinkAfter(L, L.free, p)
    BY <2>1 DEF AddFree
  <2>3. M \in LinksType /\ M.ready = L.ready /\ M.free = L.free
    <3>1. LinkAfter(L, L.free, p) \in LinksType
      BY <2>1 DEF Lists, LinkAfter, LinksType
    <3>2. M.ready = L.ready /\ M.free = L.free
      BY <2>2 DEF Lists, LinkAfter, LinksType
    <3> QED  BY <2>2, <3>1, <3>2
  <2>4. Ring(M, M.free, F \cup {p})
    BY <2>1, <2>2, <2>3, Inserted DEF Lists
  <2>5. Ring(M, M.ready, S)
    <3>1. \A q \in S : M.next[q] = L.next[q] /\ M.prev[q] = L.prev[q]
      BY <2>1, <2>2 DEF Lists, LinkAfter, LinksType
    <3>2. Ring(L, L.ready, S)
      BY DEF Lists
    <3> QED  BY <2>3, <3>1, <3>2, Frame
  <2> QED  BY <2>3, <2>4, <2>5 DEF Lists
<1> QED  BY <1>1, <1>2

LEMMA FreeRemoved ==
  ASSUME NEW L, NEW S, NEW F, Lists(L, S, F), NEW p \in F
  PROVE  /\ Lists(RemoveFree(L, p), S, F \ {p})
         /\ RemoveFree(L, p).ready = L.ready
<1> DEFINE M == RemoveFree(L, p)
<1>1. CASE L.prev[p] = p
  <2>1. L.next[p] = p
    BY <1>1 DEF Lists, Ring, Linked
  <2>2. {p} \in SUBSET F /\ {p} # {} /\ \A q \in {p} : L.next[q] \in {p}
    BY <2>1
  <2>3. F = {p}
    BY <2>2 DEF Lists, Ring, OneCycle
  <2>4. /\ M \in LinksType /\ M.ready = L.ready /\ M.free = NULL
        /\ M.next = L.next /\ M.prev = L.prev
    BY <1>1 DEF RemoveFree, Lists, LinksType
  <2>5. Ring(M, M.ready, S)
    <3>1. Ring(L, L.ready, S)
      BY DEF Lists
    <3> QED  BY <2>4, <3>1, Frame
  <2>6. Ring(M, M.free, F \ {p})
    BY <2>3, <2>4 DEF Ring, Linked, OneCycle
  <2> QED  BY <2>4, <2>5, <2>6 DEF Lists
<1>2. CASE L.prev[p] # p
  <2> DEFINE U == Unlink(L, p)
  <2>1. L.prev[p] \in F
    BY DEF Lists, Ring, Linked
  <2>2. /\ Linked(U, F \ {p})
        /\ OneCycle(U, F \ {p})
        /\ L.next[p] \in F \ {p}
        /\ L.prev[p] \in F \ {p}
    BY <1>2, <2>1, Removed DEF Lists
  <2>3. /\ M \in LinksType /\ M.ready = L.ready /\ M.free = L.next[p]
        /\ M.next = U.next /\ M.prev = U.prev
    BY <1>2, <2>2 DEF RemoveFree, Unlink, Lists, LinksType
  <2>4. Ring(M, M.free, F \ {p})
    <3>1. Ring(U, M.free, F \ {p})
      BY <2>2, <2>3 DEF Ring
    <3> QED  BY <2>3, <3>1, Frame
  <2>5. Ring(M, M.ready, S)
    <3>1. \A q \in S : M.next[q] = L.next[q] /\ M.prev[q] = L.prev[q]
      BY <2>2, <2>3 DEF Unlink, Lists, LinksType
    <3>2. Ring(L, L.ready, S)
      BY DEF Lists
    <3> QED  BY <2>3, <3>1, <3>2, Frame
  <2> QED  BY <2>3, <2>4, <2>5 DEF Lists
<1> QED  BY <1>1, <1>2


LEMMA FirstReady ==
  ASSUME NEW L, NEW F, Lists(L, {}, F), NEW p \in Pid \ F
  PROVE  /\ Lists(AddReady(L, p), {p}, F)
         /\ AddReady(L, p).ready = p
<1> DEFINE M == AddReady(L, p)
           A == LinkAlone(L, p)
<1>1. L.ready = NULL
  BY DEF Lists, Ring
<1>2. /\ M \in LinksType /\ M.ready = p /\ M.free = L.free
      /\ \A q \in Pid : M.next[q] = A.next[q] /\ M.prev[q] = A.prev[q]
  BY <1>1 DEF AddReady, LinkAlone, Lists, LinksType
<1>3. Ring(M, p, {p})
  <2>1. Ring(A, p, {p})
    BY Alone DEF Lists
  <2> QED  BY <1>2, <2>1, Frame
<1>4. Ring(M, M.free, F)
  <2>1. \A q \in F : M.next[q] = L.next[q] /\ M.prev[q] = L.prev[q]
    BY <1>2 DEF LinkAlone, Lists, LinksType
  <2>2. Ring(L, L.free, F)
    BY DEF Lists
  <2> QED  BY <1>2, <2>1, <2>2, Frame
<1> QED  BY <1>2, <1>3, <1>4 DEF Lists

\* proc_schedule moves the head to another ready process.
LEMMA HeadMoved ==
  ASSUME NEW L, NEW S, NEW F, Lists(L, S, F), NEW n \in S
  PROVE  Lists([L EXCEPT !.ready = n], S, F)
<1> DEFINE M == [L EXCEPT !.ready = n]
<1>1. /\ M \in LinksType /\ M.ready = n /\ M.free = L.free
      /\ M.next = L.next /\ M.prev = L.prev
  BY DEF Lists, LinksType
<1>2. Ring(M, n, S) /\ Ring(M, M.free, F)
  BY <1>1, AnyHead, Frame DEF Lists
<1> QED  BY <1>1, <1>2 DEF Lists

\* The process behind the head is ready too, and so is the one behind that.
LEMMA NextReady ==
  ASSUME NEW L, NEW S, NEW F, Lists(L, S, F), NEW o \in S
  PROVE  /\ L.ready \in S
         /\ \A q \in S : L.next[q] \in S
BY DEF Lists, Ring, Linked

-----------------------------------------------------------------------------
(* Boot: the slots in the order of their numbers make one cycle.           *)

LEMMA Smallest ==
  ASSUME NEW T \in SUBSET Nat, T # {}
  PROVE  \E x \in T : \A y \in T : x <= y
<1> DEFINE R == OpToRel(<, Nat)
<1>1. IsWellFoundedOn(R, Nat)
  BY NatLessThanWellFounded
<1>2. \A x, y \in Nat : x < y => <<x, y>> \in R
  BY DEF OpToRel
<1> HIDE DEF R
<1>3. \E x \in T : \A y \in T : ~(<<y, x>> \in R)
  BY <1>1, WFMin
<1>4. \A x, y \in T : ~(<<y, x>> \in R) => x <= y
  BY <1>2
<1> QED  BY <1>3, <1>4

LEMMA Upwards ==
  ASSUME NEW T \in SUBSET Pid, NEW e \in T,
         \A j \in Pid : j # 0 /\ j - 1 \in T => j \in T
  PROVE  \A k \in Pid : k >= e => k \in T
<1> DEFINE D == {k \in Pid : k >= e /\ k \notin T}
<1> SUFFICES ASSUME D # {} PROVE FALSE
  OBVIOUS
<1>1. D \in SUBSET Nat /\ e \in Nat
  BY ProcCountAssumption DEF Pid
<1>2. PICK j \in D : \A i \in D : j <= i
  BY <1>1, Smallest
<1>3. j \in Pid /\ j \in Nat /\ j >= e /\ j \notin T /\ j # e
  BY <1>1
<1>4. j # 0 /\ j - 1 >= e /\ ~(j <= j - 1)
  BY <1>1, <1>3
<1>5. j - 1 \in Pid
  BY <1>3, <1>4, ProcCountAssumption DEF Pid
<1>6. j - 1 \notin D
  BY <1>2, <1>4
<1>7. j - 1 \in T
  BY <1>4, <1>5, <1>6
<1> QED  BY <1>3, <1>4, <1>7

LEMMA InOrder ==
  ASSUME NEW L,
         L.next = [p \in Pid |-> IF p = K_PROC_COUNT - 1 THEN 0 ELSE p + 1],
         L.prev = [p \in Pid |-> IF p = 0 THEN K_PROC_COUNT - 1 ELSE p - 1]
  PROVE  Ring(L, 0, Pid)
<1>1. 0 \in Pid /\ K_PROC_COUNT - 1 \in Pid
  BY ProcCountAssumption DEF Pid
<1>2. Linked(L, Pid)
  BY ProcCountAssumption DEF Linked, Pid
<1>3. \A j \in Pid : j # 0 => j - 1 \in Pid /\ L.next[j - 1] = j
  BY ProcCountAssumption DEF Pid
<1>4. L.next[K_PROC_COUNT - 1] = 0
  BY ProcCountAssumption DEF Pid
<1>5. \A e \in Pid : K_PROC_COUNT - 1 >= e /\ e >= 0
  BY ProcCountAssumption DEF Pid
<1>6. OneCycle(L, Pid)
  <2> SUFFICES ASSUME NEW T \in SUBSET Pid, NEW e \in T, \A q \in T : L.next[q] \in T
               PROVE  Pid \subseteq T
    BY DEF OneCycle
  <2>1. \A j \in Pid : j # 0 /\ j - 1 \in T => j \in T
    BY <1>3
  <2>2. K_PROC_COUNT - 1 \in T
    <3>1. \A k \in Pid : k >= e => k \in T
      BY <2>1, Upwards
    <3>2. e \in Pid
      OBVIOUS
    <3> QED  BY <1>1, <1>5, <3>1, <3>2
  <2>3. 0 \in T
    BY <1>4, <2>2
  <2>4. \A k \in Pid : k >= 0 => k \in T
    BY <2>1, <2>3, Upwards
  <2> QED  BY <1>5, <2>4
<1> QED  BY <1>1, <1>2, <1>6 DEF Ring

-----------------------------------------------------------------------------
(* The process table.                                                      *)

\* Idle never leaves the ready list; the system task is never stopped, freed
\* or run as a user.
IdleReady ==
  /\ state[IDLE] = "ready" /\ uid[IDLE] = KERNEL
  /\ state[SYSTEM] \in {"ready", "blocked"} /\ uid[SYSTEM] = KERNEL

IInv ==
  /\ TypeOK
  /\ Lists(links, Is("ready"), Is("none"))
  /\ IdleReady
  /\ OnCpu

-----------------------------------------------------------------------------
(* Consequences of the invariant used by several actions.                  *)

LEMMA Slots == SYSTEM \in Pid /\ IDLE \in Pid /\ SYSTEM # IDLE /\ NULL \notin Pid
BY ProcCountAssumption DEF SYSTEM, IDLE, Pid, NULL

LEMMA RunningIsHead ==
  ASSUME IInv, NEW p \in Pid, Running(p)
  PROVE  links.ready = p /\ p \in Is("ready") /\ irq = "off" /\ cur = p
BY DEF IInv, OnCpu, Running, Is

LEMMA IdleIsReady ==
  ASSUME IInv
  PROVE  /\ IDLE \in Is("ready") /\ Is("ready") # {}
         /\ links.ready \in Is("ready")
         /\ \A q \in Is("ready") : links.next[q] \in Is("ready")
BY Slots, NextReady DEF IInv, IdleReady, Is

LEMMA Successor ==
  ASSUME NEW L, NEW S, NEW F, Lists(L, S, F), IDLE \in S
  PROVE  L.ready \in S /\ RunNext(L) \in S
BY NextReady DEF RunNext

\* The lists with a blocked process made ready, and with nothing changed.
LEMMA Wakes ==
  ASSUME IInv, NEW q \in Pid, state[q] = "blocked",
         links' = AddReady(links, q), state' = [state EXCEPT ![q] = "ready"]
  PROVE  /\ Lists(links', Is("ready")', Is("none")')
         /\ links'.ready = links.ready
<1>1. q \in Pid \ (Is("ready") \cup Is("none"))
  BY DEF Is
<1>2. /\ Lists(AddReady(links, q), Is("ready") \cup {q}, Is("none"))
      /\ AddReady(links, q).ready = links.ready
  BY <1>1, IdleIsReady, ReadyAdded DEF IInv
<1>3. state \in [Pid -> States]
  BY DEF IInv, TypeOK
<1>4. Is("ready")' = Is("ready") \cup {q} /\ Is("none")' = Is("none")
  BY <1>3 DEF Is
<1> QED  BY <1>2, <1>4

LEMMA SameLists ==
  ASSUME IInv, UNCHANGED <<links, state>>
  PROVE  /\ Lists(links', Is("ready")', Is("none")')
         /\ links'.ready = links.ready
BY DEF IInv, Is

-----------------------------------------------------------------------------
(* Initial state.                                                          *)

LEMMA InitIInv == Init => IInv
<1> SUFFICES ASSUME Init PROVE IInv
  OBVIOUS
<1> DEFINE all  == [next  |-> [p \in Pid |-> IF p = IDLE THEN 0 ELSE p + 1],
                    prev  |-> [p \in Pid |-> IF p = 0 THEN IDLE ELSE p - 1],
                    ready |-> NULL,
                    free  |-> 0]
           L1 == RemoveFree(all, IDLE)
           L2 == AddReady(L1, IDLE)
           L3 == RemoveFree(L2, SYSTEM)
           L4 == AddReady(L3, SYSTEM)
<1>1. Lists(all, {}, Pid)
  <2>1. all \in LinksType
    BY ProcCountAssumption DEF LinksType, Pid, NULL, IDLE
  <2>2. Ring(all, 0, Pid)
    BY InOrder DEF IDLE
  <2>3. Ring(all, NULL, {})
    BY DEF Ring, Linked, OneCycle
  <2> QED  BY <2>1, <2>2, <2>3 DEF Lists
<1> HIDE DEF all
<1>2. Lists(L1, {}, Pid \ {IDLE})
  BY <1>1, FreeRemoved, Slots
<1> HIDE DEF L1
<1>3. Lists(L2, {IDLE}, Pid \ {IDLE})
  BY <1>2, FirstReady, Slots
<1> HIDE DEF L2
<1>4. Lists(L3, {IDLE}, (Pid \ {IDLE}) \ {SYSTEM})
  BY <1>3, FreeRemoved, Slots
<1> HIDE DEF L3
<1>5. Lists(L4, {IDLE} \cup {SYSTEM}, (Pid \ {IDLE}) \ {SYSTEM})
  BY <1>4, ReadyAdded, Slots
<1> HIDE DEF L4
<1>6. Lists([L4 EXCEPT !.ready = SYSTEM], {IDLE} \cup {SYSTEM}, (Pid \ {IDLE}) \ {SYSTEM})
  BY <1>5, HeadMoved
<1>7. links = [L4 EXCEPT !.ready = SYSTEM]
  BY DEF Init, BootLinks, all, L1, L2, L3, L4
<1>8. Is("ready") = {IDLE} \cup {SYSTEM} /\ Is("none") = (Pid \ {IDLE}) \ {SYSTEM}
  BY Slots DEF Init, Is
<1>9. Lists(links, Is("ready"), Is("none"))
  BY <1>6, <1>7, <1>8
<1>10. TypeOK
  <2>1. links \in LinksType
    BY <1>9 DEF Lists
  <2>2. 0 \in Pid
    BY Slots DEF SYSTEM
  <2> QED  BY <2>1, <2>2, Slots, ProcAssumption DEF Init, TypeOK, States
<1>11. links.ready = SYSTEM
  BY <1>5, <1>7 DEF Lists, LinksType
<1> QED  BY <1>9, <1>10, <1>11, Slots DEF IInv, IdleReady, OnCpu, Init
-----------------------------------------------------------------------------
(* Rescheduling.                                                           *)

LEMMA SysIrqKeeps == IInv /\ SysIrq => IInv'
<1> SUFFICES ASSUME IInv, SysIrq PROVE IInv'
  OBVIOUS
<1>1. pick' \in Is("ready")
  BY IdleIsReady DEF SysIrq
<1>2. Is("ready")' = Is("ready") /\ Is("none")' = Is("none")
  BY DEF SysIrq, Is
<1>3. TypeOK'
  BY <1>1 DEF IInv, TypeOK, SysIrq, ipc, Is
<1>4. OnCpu'
  BY <1>1 DEF OnCpu, SysIrq, Is
<1> QED  BY <1>2, <1>3, <1>4 DEF IInv, SysIrq, IdleReady

LEMMA SysIrqEndKeeps == IInv /\ SysIrqEnd => IInv'
<1> SUFFICES ASSUME IInv, SysIrqEnd PROVE IInv'
  OBVIOUS
<1>1. pick \in Is("ready") /\ pick \in Pid
  BY DEF IInv, OnCpu, SysIrqEnd, Is
<1>2. Is("ready")' = Is("ready") /\ Is("none")' = Is("none")
  BY DEF SysIrqEnd, Is
<1>3. Lists(links', Is("ready"), Is("none"))
  BY <1>1, HeadMoved DEF IInv, SysIrqEnd
<1>4. links' \in LinksType /\ links'.ready = pick
  BY <1>3 DEF Lists, SysIrqEnd, IInv, TypeOK, LinksType
<1>5. TypeOK'
  BY <1>1, <1>4 DEF IInv, TypeOK, SysIrqEnd, ipc
<1>6. OnCpu'
  BY <1>4 DEF OnCpu, SysIrqEnd
<1> QED  BY <1>2, <1>3, <1>5, <1>6 DEF IInv, SysIrqEnd, IdleReady

-----------------------------------------------------------------------------
(* Rendezvous.                                                             *)

LEMMA SendNowKeeps ==
  ASSUME IInv, NEW p \in Pid, NEW q \in Pid, NEW m \in Msg, SendNow(p, q, m)
  PROVE  IInv'
<1>1. state[q] = "blocked" /\ Running(p)
  BY DEF SendNow, Accepts
<1>2. Lists(links', Is("ready")', Is("none")') /\ links'.ready = links.ready
  BY <1>1, Wakes DEF SendNow
<1>3. TypeOK'
  BY <1>2 DEF IInv, TypeOK, SendNow, States, Lists
<1>4. IdleReady'
  BY <1>1, Slots DEF IInv, TypeOK, IdleReady, SendNow
<1>5. OnCpu'
  BY <1>1, <1>2, RunningIsHead DEF OnCpu, SendNow
<1> QED  BY <1>2, <1>3, <1>4, <1>5 DEF IInv

LEMMA SendLockedKeeps ==
  ASSUME IInv, NEW p \in Pid, NEW q \in Pid, NEW m \in Msg, SendLocked(p, q, m)
  PROVE  IInv'
<1>1. TypeOK'
  BY DEF IInv, TypeOK, SendLocked
<1>2. Lists(links', Is("ready")', Is("none")')
  BY SameLists DEF SendLocked
<1>3. OnCpu'
  BY <1>2, RunningIsHead DEF OnCpu, SendLocked
<1> QED  BY <1>1, <1>2, <1>3 DEF IInv, SendLocked, IdleReady

LEMMA RecvNowKeeps ==
  ASSUME IInv, NEW p \in Pid, RecvNow(p)
  PROVE  IInv'
<1>1. PICK s \in Senders(p) :
      /\ Running(p)
      /\ \/ links' = AddReady(links, s) /\ state' = [state EXCEPT ![s] = "ready"]
         \/ links' = links /\ state' = state
      /\ m_from' = [m_from EXCEPT ![p] = NONE]
      /\ m_to' = [m_to EXCEPT ![s] = NONE, ![p] = NONE]
      /\ d0' = [d0 EXCEPT ![s] = p, ![p] = s]
      /\ msg' = [msg EXCEPT ![p] = msg[s]]
      /\ UNCHANGED <<cur, irq, pick, sig_mask, ppid, uid, ops>>
  BY DEF RecvNow
<1>2. s \in Pid /\ state[s] = "blocked"
  BY DEF Senders
<1>3. Lists(links', Is("ready")', Is("none")') /\ links'.ready = links.ready
  BY <1>1, <1>2, Wakes, SameLists
<1>4. state' \in [Pid -> States]
  BY <1>1 DEF States, IInv, TypeOK
<1>5. TypeOK'
  BY <1>1, <1>2, <1>3, <1>4 DEF IInv, TypeOK, Lists
<1>6. IdleReady'
  BY <1>1, <1>2, Slots DEF IInv, TypeOK, IdleReady
<1>7. OnCpu'
  BY <1>1, <1>3, RunningIsHead DEF OnCpu
<1> QED  BY <1>3, <1>5, <1>6, <1>7 DEF IInv

LEMMA TaskReturnKeeps ==
  ASSUME IInv, NEW p \in Pid, TaskReturn(p)
  PROVE  IInv'
<1>1. /\ irq = "off"
      /\ ops' = [ops EXCEPT ![p] = {}]
      /\ UNCHANGED <<links, cur, irq, pick, state, sig_mask, ppid, uid, m_from, m_to, msg>>
  BY DEF TaskReturn
<1>2. \E r \in Pid \cup {NONE, ANY, EABORT} : d0' = [d0 EXCEPT ![p] = r]
  BY DEF TaskReturn, IInv, TypeOK
<1>3. TypeOK'
  BY <1>1, <1>2 DEF IInv, TypeOK, NONE, ANY, ELOCK, EABORT
<1>4. OnCpu'
  BY <1>1 DEF IInv, OnCpu, IsTask
<1>5. Lists(links', Is("ready")', Is("none")')
  BY <1>1, SameLists
<1> QED  BY <1>1, <1>3, <1>4, <1>5 DEF IInv, IdleReady
\* The heart of sendreceive: the receiver of the message may become ready, the
\* caller may leave the ready list, and a user process is replaced at once.
LEMMA WaitKeeps ==
  ASSUME IInv, NEW p \in Pid, p # IDLE, NEW q \in Pid \cup {ANY},
         NEW o \in SUBSET {SEND, RECV}, o # {}, SEND \in o => q \in Pid,
         NEW m \in Msg, Wait(p, q, o, m)
  PROVE  IInv'
<1> DEFINE now  == SEND \in o /\ Accepts(q, p)
           L    == IF now THEN AddReady(links, q) ELSE links
           st   == IF now THEN [state EXCEPT ![q] = "ready"] ELSE state
           quit == sig_mask[p] # {}
           K    == IF quit THEN L ELSE RemoveReady(L, p)
           n    == IF IsTask(p) THEN K.ready ELSE RunNext(K)
           S    == {x \in Pid : st[x] = "ready"}
           T    == IF quit THEN S ELSE S \ {p}
<1>1. /\ Running(p)
      /\ links' = [K EXCEPT !.ready = n]
      /\ state' = IF quit THEN st ELSE [st EXCEPT ![p] = "blocked"]
      /\ UNCHANGED <<pick, ppid, uid>>
  BY DEF Wait
<1>9. /\ IsTask(p) => irq' = "yield" /\ ops' = [ops EXCEPT ![p] = o] /\ cur' = cur
      /\ ~IsTask(p) => irq' = "off" /\ ops' = ops /\ cur' = n
  BY DEF Wait
<1>2. /\ state \in [Pid -> States] /\ st \in [Pid -> States]
      /\ state[p] = "ready" /\ state[IDLE] = "ready"
      /\ now => q \in Pid /\ state[q] = "blocked"
  BY <1>1 DEF IInv, TypeOK, IdleReady, Running, Accepts, States
<1>3. Lists(L, S, Is("none")) /\ p \in S /\ IDLE \in S
  <2>1. CASE now
    <3>1. q \in Pid \ (Is("ready") \cup Is("none"))
      BY <1>2, <2>1 DEF Is
    <3>2. Lists(AddReady(links, q), Is("ready") \cup {q}, Is("none"))
      BY <3>1, IdleIsReady, ReadyAdded DEF IInv
    <3>3. S = Is("ready") \cup {q}
      BY <1>2, <2>1 DEF Is
    <3> QED  BY <1>2, <2>1, <3>2, <3>3, Slots DEF Is
  <2>2. CASE ~now
    BY <1>2, <2>2, Slots DEF IInv, Is
  <2> QED  BY <2>1, <2>2
<1>4. Is("ready")' = T /\ Is("none")' = Is("none")
  BY <1>1, <1>2 DEF Is
<1> HIDE DEF L, S
<1>5. Lists(K, T, Is("none")) /\ IDLE \in T
  BY <1>3, ReadyRemoved
<1> HIDE DEF K, T
<1>6. n \in T
  BY <1>5, Successor
<1>7. Lists(links', Is("ready")', Is("none")') /\ links'.ready = n
  <2>1. Lists(links', T, Is("none"))
    BY <1>1, <1>5, <1>6, HeadMoved
  <2>2. K \in LinksType
    BY <1>5 DEF Lists
  <2> QED  BY <1>1, <1>4, <2>1, <2>2 DEF LinksType
<1>8. n \in Pid
  BY <1>4, <1>6 DEF Is
<1>10. TypeOK'
  <2>1. links' \in LinksType
    BY <1>7 DEF Lists
  <2>2. cur' \in Pid /\ irq' \in {"off", "yield"} /\ ops' \in [Pid -> SUBSET {SEND, RECV}]
    BY <1>8, <1>9 DEF IInv, TypeOK
  <2>3. state' \in [Pid -> States]
    BY <1>1, <1>2 DEF States
  <2>4. m_from' \in [Pid -> Pid \cup {NONE, ANY}]
    BY <1>2 DEF Wait, IInv, TypeOK
  <2>5. m_to' \in [Pid -> Pid \cup {NONE}]
    BY <1>2 DEF Wait, IInv, TypeOK
  <2>6. sig_mask' \in [Pid -> SUBSET {"alrm", "child"}]
    BY DEF Wait, IInv, TypeOK
  <2>7. d0' \in [Pid -> Pid \cup {ELOCK, EABORT}]
    BY <1>2 DEF Wait, IInv, TypeOK
  <2>8. msg' \in [Pid -> Msg]
    BY <1>2 DEF Wait, IInv, TypeOK
  <2> QED  BY <1>1, <2>1, <2>2, <2>3, <2>4, <2>5, <2>6, <2>7, <2>8 DEF IInv, TypeOK
<1>11. IdleReady'
  <2>1. state'[IDLE] = "ready"
    BY <1>4, <1>5 DEF Is
  <2>2. state'[SYSTEM] \in {"ready", "blocked"}
    BY <1>1, <1>2, Slots DEF IInv, IdleReady
  <2> QED  BY <1>1, <2>1, <2>2 DEF IInv, IdleReady
<1>12. OnCpu'
  <2>1. CASE IsTask(p)
    <3>1. cur = p
      BY <1>1 DEF Running
    <3>2. ops'[p] = o
      BY <1>9, <2>1 DEF IInv, TypeOK
    <3> QED  BY <1>1, <1>9, <2>1, <3>1, <3>2 DEF OnCpu, IsTask
  <2>2. CASE ~IsTask(p)
    BY <1>7, <1>9, <2>2 DEF OnCpu
  <2> QED  BY <2>1, <2>2
<1> QED  BY <1>7, <1>10, <1>11, <1>12 DEF IInv

-----------------------------------------------------------------------------
(* Signals and the end of processes.                                       *)

\* What proc_sig does to lists L that match states st.
LEMMA Signal ==
  ASSUME NEW L, NEW st \in [Pid -> States], NEW q \in Pid, NEW s \in {"alrm", "child"},
         TypeOK, st[IDLE] = "ready",
         Lists(L, {x \in Pid : st[x] = "ready"}, {x \in Pid : st[x] = "none"}),
         ProcSig(L, st, q, s), UNCHANGED <<cur, irq, pick, ppid, uid, ops, msg>>
  PROVE  /\ TypeOK'
         /\ Lists(links', Is("ready")', Is("none")')
         /\ links'.ready = L.ready
         /\ \A x \in Pid : state'[x] # st[x] => st[x] = "blocked" /\ state'[x] = "ready"
<1> DEFINE S == {x \in Pid : st[x] = "ready"}
           F == {x \in Pid : st[x] = "none"}
<1>1. /\ Lists(links', Is("ready")', Is("none")')
      /\ links'.ready = L.ready
      /\ state' \in [Pid -> States]
      /\ \A x \in Pid : state'[x] # st[x] => st[x] = "blocked" /\ state'[x] = "ready"
  <2>1. CASE st[q] = "blocked"
    <3>1. links' = AddReady(L, q) /\ state' = [st EXCEPT ![q] = "ready"]
      BY <2>1 DEF ProcSig
    <3>2. q \in Pid \ (S \cup F) /\ S # {}
      BY <2>1, Slots
    <3>3. Lists(AddReady(L, q), S \cup {q}, F) /\ AddReady(L, q).ready = L.ready
      BY <3>2, ReadyAdded
    <3>4. Is("ready")' = S \cup {q} /\ Is("none")' = F
      BY <2>1, <3>1 DEF Is
    <3> QED  BY <2>1, <3>1, <3>3, <3>4 DEF States
  <2>2. CASE st[q] # "blocked"
    <3>1. links' = L /\ state' = st
      BY <2>2 DEF ProcSig
    <3> QED  BY <3>1 DEF Is
  <2> QED  BY <2>1, <2>2
<1>2. TypeOK'
  <2>1. links' \in LinksType
    BY <1>1 DEF Lists
  <2>2. /\ m_from' \in [Pid -> Pid \cup {NONE, ANY}]
        /\ m_to' \in [Pid -> Pid \cup {NONE}]
        /\ d0' \in [Pid -> Pid \cup {ELOCK, EABORT}]
        /\ sig_mask' \in [Pid -> SUBSET {"alrm", "child"}]
    BY DEF ProcSig, TypeOK
  <2> QED  BY <1>1, <2>1, <2>2 DEF TypeOK
<1> QED  BY <1>1, <1>2

LEMMA AlarmKeeps ==
  ASSUME IInv, NEW p \in Pid, ProcSig(links, state, p, "alrm"),
         UNCHANGED <<cur, irq, pick, ppid, uid, ops, msg>>
  PROVE  IInv'
<1>1. /\ TypeOK'
      /\ Lists(links', Is("ready")', Is("none")')
      /\ links'.ready = links.ready
      /\ \A x \in Pid : state'[x] # state[x] => state[x] = "blocked" /\ state'[x] = "ready"
  BY Signal DEF IInv, TypeOK, IdleReady, Is
<1>2. IdleReady'
  BY <1>1, Slots DEF IInv, IdleReady
<1>3. OnCpu'
  BY <1>1 DEF IInv, TypeOK, OnCpu, IsTask, Is
<1> QED  BY <1>1, <1>2, <1>3 DEF IInv

LEMMA ProcExitKeeps ==
  ASSUME IInv, NEW p \in Pid, ~IsTask(p), state[p] # "none", irq = "off",
         cur # p => state[cur] = "ready", ProcExit(p)
  PROVE  IInv'
<1> DEFINE L  == IF state[p] = "ready" THEN RemoveReady(links, p) ELSE links
           st == [state EXCEPT ![p] = "stopped"]
           S  == {x \in Pid : st[x] = "ready"}
           F  == {x \in Pid : st[x] = "none"}
<1>1. p # IDLE /\ p # SYSTEM
  BY DEF IInv, IdleReady, IsTask
<1>2. /\ state \in [Pid -> States] /\ st \in [Pid -> States]
      /\ st[p] = "stopped" /\ st[IDLE] = "ready"
      /\ \A x \in Pid \ {p} : st[x] = state[x]
  BY <1>1, Slots DEF IInv, TypeOK, States, IdleReady
<1>3. Lists(L, S, F) /\ (links.ready # p => L.ready = links.ready)
  <2>1. F = Is("none")
    BY <1>2 DEF Is
  <2>2. CASE state[p] = "ready"
    <3>1. S = Is("ready") \ {p} /\ p \in Is("ready")
      BY <1>2, <2>2 DEF Is
    <3>2. IDLE \in Is("ready") /\ IDLE # p
      BY <1>1, IdleIsReady
    <3>3. /\ Lists(RemoveReady(links, p), Is("ready") \ {p}, Is("none"))
          /\ links.ready # p => RemoveReady(links, p).ready = links.ready
      BY <3>1, <3>2, ReadyRemoved DEF IInv
    <3> QED  BY <2>1, <2>2, <3>1, <3>3
  <2>3. CASE state[p] # "ready"
    <3>1. S = Is("ready")
      BY <1>2, <2>3 DEF Is
    <3> QED  BY <2>1, <2>3, <3>1 DEF IInv
  <2> QED  BY <2>2, <2>3
<1>4. /\ ProcSig(L, st, ppid[p], "child")
      /\ UNCHANGED <<cur, irq, pick, ppid, uid, ops, msg>>
  BY DEF ProcExit
<1>5. ppid[p] \in Pid /\ TypeOK
  BY DEF IInv, TypeOK
<1> HIDE DEF L, st
<1>6. /\ TypeOK'
      /\ Lists(links', Is("ready")', Is("none")')
      /\ links'.ready = L.ready
      /\ \A x \in Pid : state'[x] # st[x] => st[x] = "blocked" /\ state'[x] = "ready"
  BY <1>2, <1>3, <1>4, <1>5, Signal
<1>7. IdleReady'
  <2>1. state'[IDLE] = "ready" /\ state'[SYSTEM] \in {"ready", "blocked"}
    BY <1>1, <1>2, <1>6, Slots DEF IInv, IdleReady
  <2> QED  BY <1>4, <2>1 DEF IInv, IdleReady
<1>8. OnCpu'
  <2>1. CASE cur = p
    <3>1. state'[p] = "stopped"
      BY <1>2, <1>6
    <3> QED  BY <1>4, <2>1, <3>1 DEF OnCpu, IsTask
  <2>2. CASE cur # p
    <3>1. cur = links.ready
      BY <2>2 DEF IInv, OnCpu
    <3> QED  BY <1>3, <1>4, <1>6, <2>2, <3>1 DEF OnCpu
  <2> QED  BY <2>1, <2>2
<1> QED  BY <1>6, <1>7, <1>8 DEF IInv

LEMMA FaultKeeps ==
  ASSUME IInv, NEW p \in Pid, Fault(p)
  PROVE  IInv'
<1>1. cur = p /\ irq = "off" /\ ~IsTask(p) /\ ProcExit(p)
  BY DEF Fault
<1>2. state[p] # "none"
  BY <1>1, IdleIsReady DEF IInv, OnCpu, Is
<1> QED  BY <1>1, <1>2, ProcExitKeeps

-----------------------------------------------------------------------------
(* Creation and removal.                                                   *)

\* Of the three that take a slot, this is what they have in common.
LEMMA SlotTaken ==
  ASSUME IInv, Running(SYSTEM), NEW c \in Is("none"), UNCHANGED <<cur, irq, pick>>,
         state' = [state EXCEPT ![c] = "blocked"], links' = RemoveFree(links, c)
  PROVE  /\ Lists(links', Is("ready")', Is("none")')
         /\ OnCpu'
         /\ \A x \in Pid \ {c} : state'[x] = state[x]
         /\ state' \in [Pid -> States]
         /\ c # SYSTEM /\ c # IDLE
<1>1. state \in [Pid -> States] /\ c \in Pid
  BY DEF IInv, TypeOK, Is
<1>2. Lists(links', Is("ready"), Is("none") \ {c}) /\ links'.ready = links.ready
  BY FreeRemoved DEF IInv
<1>3. Is("ready")' = Is("ready") /\ Is("none")' = Is("none") \ {c}
  BY <1>1 DEF Is
<1>4. OnCpu'
  BY <1>2, Slots, RunningIsHead DEF OnCpu
<1>5. c # SYSTEM /\ c # IDLE
  BY DEF IInv, IdleReady, Is
<1>6. \A x \in Pid \ {c} : state'[x] = state[x]
  BY <1>1
<1> QED  BY <1>1, <1>2, <1>3, <1>4, <1>5, <1>6 DEF States

LEMMA CreateTaskKeeps ==
  ASSUME IInv, NEW p \in TaskPids, CreateTask(p)
  PROVE  IInv'
<1>1. /\ p \in Pid /\ p \in Is("none") /\ Running(SYSTEM)
      /\ links' = AddReady(RemoveFree(links, p), p)
      /\ m_from' = [m_from EXCEPT ![p] = 0]
      /\ m_to' = [m_to EXCEPT ![p] = 0]
      /\ Fresh(p, KERNEL, "ready")
  BY ProcAssumption, ProcCountAssumption DEF CreateTask, Is, Pid
<1>2. state \in [Pid -> States] /\ p # SYSTEM /\ p # IDLE
  BY <1>1 DEF IInv, TypeOK, IdleReady, Is
<1>3. /\ Lists(links', Is("ready") \cup {p}, Is("none") \ {p})
      /\ links'.ready = links.ready
  <2> DEFINE M == RemoveFree(links, p)
  <2>1. Lists(M, Is("ready"), Is("none") \ {p}) /\ M.ready = links.ready
    BY <1>1, FreeRemoved DEF IInv
  <2>2. p \in Pid \ (Is("ready") \cup (Is("none") \ {p}))
    BY <1>1 DEF Is
  <2> HIDE DEF M
  <2>3. /\ Lists(AddReady(M, p), Is("ready") \cup {p}, Is("none") \ {p})
        /\ AddReady(M, p).ready = M.ready
    BY <2>1, <2>2, IdleIsReady, ReadyAdded
  <2> QED  BY <1>1, <2>1, <2>3 DEF M
<1>4. Is("ready")' = Is("ready") \cup {p} /\ Is("none")' = Is("none") \ {p}
  BY <1>1, <1>2 DEF Fresh, Is
<1>5. TypeOK'
  <2>1. links' \in LinksType /\ 0 \in Pid /\ SYSTEM \in Pid
    BY <1>3, Slots DEF Lists, SYSTEM
  <2> QED  BY <1>1, <2>1, ProcAssumption DEF IInv, TypeOK, Fresh, States
<1>6. IdleReady'
  BY <1>1, <1>2, Slots DEF IInv, TypeOK, IdleReady, Fresh
<1>7. OnCpu'
  BY <1>1, <1>3, Slots, RunningIsHead DEF OnCpu, Fresh
<1> QED  BY <1>3, <1>4, <1>5, <1>6, <1>7 DEF IInv

LEMMA FreeHead ==
  ASSUME IInv, links.free # NULL
  PROVE  links.free \in Is("none") /\ links.free \in Pid
BY DEF IInv, Lists, Ring, Is

LEMMA CreateInitKeeps == IInv /\ CreateInit => IInv'
<1> SUFFICES ASSUME IInv, CreateInit PROVE IInv'
  OBVIOUS
<1> DEFINE p == links.free
<1>1. /\ p \in Pid /\ p \in Is("none") /\ Running(SYSTEM)
      /\ links' = RemoveFree(links, p)
      /\ m_from' = [m_from EXCEPT ![p] = NONE]
      /\ m_to' = [m_to EXCEPT ![p] = NONE]
      /\ Fresh(p, ROOT, "blocked")
  BY FreeHead DEF CreateInit
<1> HIDE DEF p
<1>2. /\ Lists(links', Is("ready")', Is("none")')
      /\ OnCpu'
      /\ \A x \in Pid \ {p} : state'[x] = state[x]
      /\ state' \in [Pid -> States]
      /\ p # SYSTEM /\ p # IDLE
  BY <1>1, SlotTaken DEF Fresh
<1>3. TypeOK'
  <2>1. links' \in LinksType /\ 0 \in Pid /\ SYSTEM \in Pid
    BY <1>2, Slots DEF Lists, SYSTEM
  <2> QED  BY <1>1, <1>2, <2>1, ProcAssumption DEF IInv, TypeOK, Fresh
<1>4. IdleReady'
  BY <1>1, <1>2, Slots DEF IInv, TypeOK, IdleReady, Fresh
<1> QED  BY <1>2, <1>3, <1>4 DEF IInv

LEMMA ForkKeeps ==
  ASSUME IInv, NEW p \in Pid, Fork(p)
  PROVE  IInv'
<1> DEFINE c == links.free
<1>1. /\ c \in Pid /\ c \in Is("none") /\ Running(SYSTEM)
      /\ links' = RemoveFree(links, c)
      /\ state' = [state EXCEPT ![c] = "blocked"]
      /\ ppid' = [ppid EXCEPT ![c] = p]
      /\ uid' = [uid EXCEPT ![c] = uid[p]]
      /\ sig_mask' = [sig_mask EXCEPT ![c] = sig_mask[p]]
      /\ m_from' = [m_from EXCEPT ![c] = m_from[p]]
      /\ m_to' = [m_to EXCEPT ![c] = m_to[p]]
      /\ d0' = [d0 EXCEPT ![c] = d0[p]]
      /\ msg' = [msg EXCEPT ![c] = msg[p]]
      /\ UNCHANGED <<cur, irq, pick, ops>>
  BY FreeHead DEF Fork
<1> HIDE DEF c
<1>2. /\ Lists(links', Is("ready")', Is("none")')
      /\ OnCpu'
      /\ \A x \in Pid \ {c} : state'[x] = state[x]
      /\ state' \in [Pid -> States]
      /\ c # SYSTEM /\ c # IDLE
  BY <1>1, SlotTaken
<1>3. TypeOK'
  <2>1. links' \in LinksType
    BY <1>2 DEF Lists
  <2> QED  BY <1>1, <1>2, <2>1 DEF IInv, TypeOK
<1>4. IdleReady'
  BY <1>1, <1>2, Slots DEF IInv, TypeOK, IdleReady
<1> QED  BY <1>2, <1>3, <1>4 DEF IInv

LEMMA WaitChildKeeps ==
  ASSUME IInv, NEW p \in Pid, WaitChild(p)
  PROVE  IInv'
<1>1. /\ Running(SYSTEM)
      /\ m_from' = [m_from EXCEPT ![p] = NONE]
      /\ m_to' = [m_to EXCEPT ![p] = NONE]
      /\ UNCHANGED <<links, cur, irq, pick, state, sig_mask, ppid, uid, ops, d0, msg>>
  BY DEF WaitChild
<1>2. TypeOK'
  BY <1>1 DEF IInv, TypeOK
<1>3. Lists(links', Is("ready")', Is("none")') /\ links'.ready = links.ready
  BY <1>1, SameLists
<1>4. OnCpu'
  BY <1>1, <1>3, Slots, RunningIsHead DEF OnCpu
<1> QED  BY <1>1, <1>2, <1>3, <1>4 DEF IInv, IdleReady

LEMMA KillKeeps ==
  ASSUME IInv, NEW p \in Pid, Kill(p)
  PROVE  IInv'
<1> DEFINE L == IF state[p] = "ready" THEN RemoveReady(links, p) ELSE links
<1>1. /\ Running(SYSTEM) /\ ~IsTask(p) /\ state[p] # "none"
      /\ links' = AddFree(L, p)
      /\ state' = [state EXCEPT ![p] = "none"]
      /\ UNCHANGED <<cur, irq, pick, sig_mask, ppid, uid, ops, ipc>>
  BY DEF Kill
<1>2. state \in [Pid -> States] /\ p # IDLE /\ p # SYSTEM
  BY <1>1 DEF IInv, TypeOK, IdleReady, IsTask
<1>3. links.ready # p
  BY <1>1, <1>2, Slots, RunningIsHead
<1>4. Lists(L, Is("ready") \ {p}, Is("none")) /\ L.ready = links.ready
  <2>1. CASE state[p] = "ready"
    <3>1. p \in Is("ready") /\ IDLE \in Is("ready")
      BY <2>1, IdleIsReady DEF Is
    <3> QED  BY <1>2, <1>3, <2>1, <3>1, ReadyRemoved DEF IInv
  <2>2. CASE state[p] # "ready"
    <3>1. Is("ready") \ {p} = Is("ready")
      BY <2>2 DEF Is
    <3> QED  BY <2>2, <3>1 DEF IInv
  <2> QED  BY <2>1, <2>2
<1> HIDE DEF L
<1>5. p \in Pid \ ((Is("ready") \ {p}) \cup Is("none"))
  BY <1>1 DEF Is
<1>6. /\ Lists(links', Is("ready") \ {p}, Is("none") \cup {p})
      /\ links'.ready = links.ready
  BY <1>1, <1>4, <1>5, FreeAdded
<1>7. Is("ready")' = Is("ready") \ {p} /\ Is("none")' = Is("none") \cup {p}
  BY <1>1, <1>2 DEF Is
<1>8. TypeOK'
  <2>1. links' \in LinksType
    BY <1>6 DEF Lists
  <2> QED  BY <1>1, <2>1 DEF IInv, TypeOK, States, ipc
<1>9. IdleReady'
  BY <1>1, <1>2, Slots DEF IInv, IdleReady
<1>10. OnCpu'
  BY <1>1, <1>6, Slots, RunningIsHead DEF OnCpu
<1> QED  BY <1>6, <1>7, <1>8, <1>9, <1>10 DEF IInv

-----------------------------------------------------------------------------
(* The invariant.                                                          *)

LEMMA CallKeeps ==
  ASSUME IInv, NEW p \in Pid, p # IDLE, NEW m \in Msg,
         UserCall(p, m) \/ TaskCall(p, m)
  PROVE  IInv'
<1>1. TaskPids \subseteq Pid /\ NoMsg \in Msg
  BY ProcAssumption, ProcCountAssumption DEF Pid
<1>2. CASE UserCall(p, m)
  <2>1. PICK q \in TaskPids \cup {SYSTEM} : Call(p, q, m)
    BY <1>2 DEF UserCall, Trap
  <2>2. q \in Pid
    BY <1>1, Slots
  <2> QED  BY <2>1, <2>2, SendLockedKeeps, WaitKeeps DEF Call
<1>3. CASE TaskCall(p, m)
  <2>1. CASE \E q \in Pid \ {p, IDLE} : Send(p, q, m)
    BY <2>1, SendNowKeeps, SendLockedKeeps, WaitKeeps DEF Send
  <2>2. CASE \E q \in TaskPids \ {p} : Call(p, q, m)
    BY <1>1, <2>2, SendLockedKeeps, WaitKeeps DEF Call
  <2>3. CASE Receive(p)
    BY <1>1, <2>3, RecvNowKeeps, WaitKeeps DEF Receive, SEND, RECV
  <2> QED  BY <1>3, <2>1, <2>2, <2>3 DEF TaskCall
<1> QED  BY <1>2, <1>3

LEMMA LifecycleKeeps ==
  ASSUME IInv, NEW p \in Pid, Lifecycle(p)
  PROVE  IInv'
<1>1. CASE Exit(p)
  <2>1. /\ state[SYSTEM] = "ready" /\ cur = SYSTEM /\ irq = "off"
        /\ ~IsTask(p) /\ state[p] # "none" /\ ProcExit(p)
    BY <1>1 DEF Exit, Running
  <2> QED  BY <2>1, ProcExitKeeps
<1>2. CASE StartInit(p)
  BY <1>2, AlarmKeeps DEF StartInit
<1> QED  BY <1>1, <1>2, ForkKeeps, WaitChildKeeps, KillKeeps DEF Lifecycle

LEMMA NextIInv == IInv /\ [Next]_vars => IInv'
<1> SUFFICES ASSUME IInv, [Next]_vars PROVE IInv'
  OBVIOUS
<1>1. CASE UNCHANGED vars
  <2>1. Is("ready")' = Is("ready") /\ Is("none")' = Is("none")
    BY <1>1 DEF vars, Is
  <2> QED  BY <1>1, <2>1 DEF IInv, TypeOK, IdleReady, OnCpu, IsTask, vars, ipc
<1>2. CASE SysIrq
  BY <1>2, SysIrqKeeps
<1>3. CASE SysIrqEnd
  BY <1>3, SysIrqEndKeeps
<1>4. CASE CreateInit
  BY <1>4, CreateInitKeeps
<1>5. ASSUME NEW p \in TaskPids, CreateTask(p) PROVE IInv'
  BY <1>5, CreateTaskKeeps
<1>6. ASSUME NEW p \in Pid, Alarm(p) PROVE IInv'
  BY <1>6, AlarmKeeps DEF Alarm
<1>7. ASSUME NEW p \in Pid, Fault(p) PROVE IInv'
  BY <1>7, FaultKeeps
<1>8. ASSUME NEW p \in Pid, NEW m \in Msg, UserCall(p, m) \/ TaskCall(p, m) PROVE IInv'
  <2>1. p # IDLE
    BY <1>8 DEF UserCall, Trap, TaskCall, IInv, IdleReady, IsTask
  <2> QED  BY <1>8, <2>1, CallKeeps
<1>9. ASSUME NEW p \in Pid, TaskReturn(p) PROVE IInv'
  BY <1>9, TaskReturnKeeps
<1>10. ASSUME NEW p \in Pid, Lifecycle(p) PROVE IInv'
  BY <1>10, LifecycleKeeps
<1> QED
  BY <1>1, <1>2, <1>3, <1>4, <1>5, <1>6, <1>7, <1>8, <1>9, <1>10 DEF Next

\* The inductive invariant holds of the program: all below follow from it.
THEOREM Invariance == Spec => []IInv
<1>1. Init => IInv
  BY InitIInv
<1>2. IInv /\ [Next]_vars => IInv'
  BY NextIInv
<1> QED  BY <1>1, <1>2, PTL DEF Spec

\* Every field of the process table stays in its type.
THEOREM TypeCorrect == Spec => []TypeOK
<1>1. IInv => TypeOK
  BY DEF IInv
<1> QED  BY <1>1, Invariance, PTL

\* The ready list is a ring of exactly the READY processes, whatever calls,
\* interrupts, signals and deaths there are, for every size of the table.
THEOREM ReadyListCorrect == Spec => []ReadyRing
<1>1. IInv => ReadyRing
  BY DEF IInv, Lists, ReadyRing
<1> QED  BY <1>1, Invariance, PTL

\* The free list is a ring of exactly the unused slots.
THEOREM FreeListCorrect == Spec => []FreeRing
<1>1. IInv => FreeRing
  BY DEF IInv, Lists, FreeRing
<1> QED  BY <1>1, Invariance, PTL

\* The process on the CPU is the head of the ready list, and what the handler
\* has picked stays ready until it is given the CPU.
THEOREM CpuCorrect == Spec => []OnCpu
<1>1. IInv => OnCpu
  BY DEF IInv
<1> QED  BY <1>1, Invariance, PTL

-----------------------------------------------------------------------------
(* The system with its processes, disturbed or not.                        *)

\* p is a process that runs a program.
User(p) == p \in Pid /\ ~IsTask(p) /\ state[p] # "none"

Calls == {"vfs", "fork", "exec", "wait", "kill", "exit"}

\* The types of the threads: of a program that has ended, too.
RThreads ==
  /\ sys \in [pc : {"boot", "init", "start", "recv", "got", "vfs", "kill", "answer",
                    "child", "reset"},
              from : Pid \cup {NONE}, req : Requests, child : Pid \cup {NONE}]
  /\ vfs \in {"recv", "got"}
  /\ user \in [Pid -> [prog : {"init", "shell", "leaf"}, pc : Calls \cup {"none"},
                       in : BOOLEAN, kid : Pid \cup {NONE}]]

RTask(p) ==
  /\ ops[p] # {} => p \in {SYSTEM, VFS}
  /\ IsTask(p) => /\ state[p] # "none" => p \in {SYSTEM, VFS, IDLE}
                  /\ user[p] = Resume("init", "vfs", NONE)
  /\ sys.pc \in {"boot", "init"} => IsTask(p)

\* The server has nothing to say to itself or to idle, and only answers.
RVfs ==
  /\ IsTask(VFS) /\ (sys.pc # "boot" => state[VFS] # "none")
  /\ {d0[VFS], m_from[VFS], m_to[VFS]} \cap {VFS, IDLE} = {}
  /\ state[VFS] = "blocked" /\ m_to[VFS] # NONE => msg[VFS] = Answer("vfs", 0)

\* The system task has taken a request: to fork, from p.
Held == /\ sys.pc = "got" /\ state[SYSTEM] = "ready" /\ d0[SYSTEM] \in Pid
        /\ msg[SYSTEM].type \in Calls

ForkHeld(p) == Held /\ msg[SYSTEM].type = "fork" /\ p = d0[SYSTEM]

RSys ==
  /\ sys.pc = "start" => sys.child \in Pid
  /\ state[SYSTEM] = "blocked" =>
       IF sys.pc = "got"
       THEN m_from[SYSTEM] = ANY /\ m_to[SYSTEM] = NONE /\ ops[SYSTEM] = {RECV}
       ELSE m_from[SYSTEM] \in {NONE, VFS}
  /\ sys.pc = "got" /\ state[SYSTEM] = "ready" =>
       /\ ops[SYSTEM] \in {{}, {RECV}}
       /\ ops[SYSTEM] = {RECV} => \/ m_from[SYSTEM] = d0[SYSTEM]
                                  \/ m_from[SYSTEM] = NONE /\ d0[SYSTEM] = EABORT
  /\ Held => /\ User(d0[SYSTEM])
             /\ msg[SYSTEM] \in [type : Calls \ {"vfs"}, pid : Pid \cup {NONE}]
             /\ msg[SYSTEM].type = "kill" => msg[SYSTEM].pid # d0[SYSTEM]
  /\ sys.pc \in {"vfs", "kill", "answer"} =>
       /\ User(sys.from) /\ sys.req \in {"fork", "exec", "kill"}
       /\ sys.req \in {"fork", "kill"} => sys.child # sys.from
       /\ sys.req = "fork" => sys.child # 0
  /\ sys.pc = "kill" => sys.req = "kill"
  /\ sys.pc = "child" => User(sys.child)

\* p has an answer of the system task and has not looked at it.
Answered(p) == state[p] = "ready" /\ user[p].in /\ d0[p] = SYSTEM

\* Who waits for the system task has called it, and who is still to be heard
\* has its call in the buffer; an answer fits the call at which it is read.
RUser(p) ==
  /\ user[p].in => user[p].pc \in Calls
  /\ user[p].pc \notin {"wait", "kill"} => user[p].kid = NONE
  /\ state[p] = "blocked" /\ m_from[p] = SYSTEM =>
       user[p].in /\ user[p].pc \in Calls \ {"vfs"}
  /\ state[p] = "blocked" /\ m_to[p] = SYSTEM =>
       m_from[p] = SYSTEM /\ msg[p] = Request(user[p].pc, user[p].kid)
  /\ Answered(p) =>
       /\ user[p].pc = "fork" => msg[p].val \in Pid \cup {NONE}
       /\ user[p].pc = "exec" => msg[p].val \in {0, NONE}

\* The parent and the child of the fork the system task is at.
Forker(p) ==
  \/ ForkHeld(p)
  \/ sys.pc \in {"vfs", "answer"} /\ sys.req = "fork" /\ p \in {sys.from, sys.child}
  \/ sys.pc = "child" /\ p = sys.child

\* They know of no child yet, wherever a signal has sent them meanwhile; and
\* a parent that waits for the system task, or seems to, is inside a call.
RFork(p) ==
  /\ Forker(p) =>
       /\ user[p].pc \in {"fork", "vfs", "exit", "none"}
       /\ ~(Answered(p) /\ user[p].pc = "fork")
  /\ ForkHeld(p) /\ SYSTEM \in {m_from[p], m_to[p]} => state[p] = "blocked"

\* p will have c killed, unless its call is cut short: it has c for an answer,
\* waits for it, or is about to ask or asking to have it killed.
Holds(p, c) ==
  /\ User(p) /\ state[p] # "stopped"
  /\ \/ user[p].pc = "wait" /\ user[p].kid = c
     \/ /\ user[p].pc = "kill" /\ user[p].kid = c
        /\ ~user[p].in \/ (state[p] = "blocked" /\ m_to[p] = SYSTEM)
     \/ Answered(p) /\ user[p].pc = "fork" /\ msg[p].val = c /\ c \notin {0, NONE}

\* The system task will kill c, or give it to its parent.
SysHolds(c) ==
  \/ Held /\ msg[SYSTEM].type = "kill" /\ msg[SYSTEM].pid = c
  \/ sys.pc \in {"vfs", "kill"} /\ sys.req = "kill" /\ sys.child = c
  \/ sys.pc \in {"vfs", "answer"} /\ sys.req = "fork" /\ sys.child = c /\ c # NONE

\* Each child is in one hand at most, and is there as long as it is.
RHolds ==
  /\ \A p \in Pid, c \in Pid \cup {NONE} : Holds(p, c) => User(c) /\ c # p /\ ~SysHolds(c)
  /\ \A c \in Pid \cup {NONE} : SysHolds(c) => User(c)
  /\ \A p, q \in Pid, c \in Pid : Holds(p, c) /\ Holds(q, c) => p = q

RTasks == \A p \in Pid : RTask(p)
RUsers == \A p \in Pid : User(p) => RUser(p)
RForks == \A p \in Pid : RFork(p)

RInv == IInv /\ RThreads /\ RTasks /\ RVfs /\ RSys /\ RUsers /\ RForks /\ RHolds

-----------------------------------------------------------------------------
(* Facts used by every step. *)

LEMMA Who ==
  /\ SYSTEM \in Pid /\ VFS \in Pid /\ IDLE \in Pid /\ VFS \in TaskPids
  /\ SYSTEM # VFS /\ SYSTEM # IDLE /\ VFS # IDLE
  /\ NONE \notin Pid /\ ANY \notin Pid /\ NONE # ANY /\ 0 \in Pid /\ SYSTEM = 0
  /\ EABORT \notin Pid /\ ELOCK \notin Pid
BY ProcCountAssumption, ProcAssumption, SystemAssumption
   DEF SYSTEM, IDLE, Pid, NONE, ANY, EABORT, ELOCK

\* The parts of the state the protocol is about.
proto == <<state, m_from, m_to, d0, msg, ops, sig_mask, uid, ppid>>

\* The types, and who the tasks are, in one formula.
Typed ==
  /\ state \in [Pid -> States] /\ m_from \in [Pid -> Pid \cup {NONE, ANY}]
  /\ m_to \in [Pid -> Pid \cup {NONE}] /\ d0 \in [Pid -> Pid \cup {ELOCK, EABORT}]
  /\ ops \in [Pid -> SUBSET {SEND, RECV}] /\ msg \in [Pid -> Msg]
  /\ uid \in [Pid -> {KERNEL, ROOT}] /\ ppid \in [Pid -> Pid]
  /\ sig_mask \in [Pid -> SUBSET {"alrm", "child"}]
  /\ uid[SYSTEM] = KERNEL /\ uid[IDLE] = KERNEL /\ uid[VFS] = KERNEL
  /\ state[IDLE] = "ready" /\ state[SYSTEM] \in {"ready", "blocked"}
  /\ DOMAIN user = Pid

LEMMA RTypes == RInv => Typed
BY DEF RInv, IInv, TypeOK, IdleReady, RVfs, IsTask, RThreads, Typed

LEMMA UserNoTask ==
  ASSUME Typed, NEW p, User(p)
  PROVE  p \in Pid /\ p # SYSTEM /\ p # VFS /\ p # IDLE /\ uid[p] # KERNEL
BY DEF Typed, User, IsTask

\* A user process to which the step does no more than cut its call short, stop
\* it, or take or answer its call to the file system server.
Mild(p) ==
  /\ user'[p] = user[p]
  /\ state[p] = "stopped" => state'[p] = "stopped"
  /\ state'[p] = "blocked" =>
       /\ state[p] = "blocked" /\ msg'[p] = msg[p]
       /\ m_from'[p] = SYSTEM => m_from[p] = SYSTEM
       /\ m_to'[p] = SYSTEM => m_to[p] = SYSTEM /\ m_from'[p] = m_from[p]
  /\ state'[p] = "ready" /\ d0'[p] = SYSTEM =>
       state[p] = "ready" /\ d0[p] = SYSTEM /\ msg'[p] = msg[p]
  /\ ForkHeld(p)' /\ SYSTEM \in {m_from'[p], m_to'[p]} =>
       /\ SYSTEM \in {m_from[p], m_to[p]}
       /\ state[p] = "blocked" => state'[p] = "blocked"

LEMMA MildUser ==
  ASSUME NEW p \in Pid, User(p), RUser(p), Mild(p)
  PROVE  /\ RUser(p)'
         /\ Answered(p)' => Answered(p) /\ msg'[p] = msg[p]
         /\ \A c : Holds(p, c)' => Holds(p, c)
<1>1. Answered(p)' => Answered(p) /\ msg'[p] = msg[p]
  BY DEF Answered, Mild
<1>2. RUser(p)'
  BY <1>1 DEF RUser, Mild
<1>3. ASSUME NEW c, Holds(p, c)' PROVE Holds(p, c)
  <2>1. state'[p] # "stopped" /\ state'[p] # "none" BY <1>3 DEF Holds, User
  <2>2. CASE user[p].pc = "wait" /\ user[p].kid = c
    BY <2>2, <1>3 DEF Holds, Mild, User
  <2>. QED BY <1>1, <1>3 DEF Holds, Mild, User
<1>. QED BY <1>1, <1>2, <1>3

LEMMA MildFork ==
  ASSUME NEW p \in Pid, User(p), RUser(p), RFork(p), Mild(p),
         Forker(p)' => Forker(p), ForkHeld(p)' => ForkHeld(p)
  PROVE  RFork(p)'
<1>1. Answered(p)' => Answered(p) BY MildUser
<1>2. ForkHeld(p)' /\ SYSTEM \in {m_from[p], m_to[p]}' => state'[p] = "blocked"
  BY DEF RFork, Mild
<1>3. user'[p] = user[p] BY DEF Mild
<1>. QED BY <1>1, <1>2, <1>3 DEF RFork

\* A process the system task is concerned with is a user process.
LEMMA Concerned ==
  ASSUME RInv, NEW p \in Pid, Forker(p)
  PROVE  User(p)
<1>s. RSys /\ RHolds /\ RThreads BY DEF RInv
<1>1. CASE ForkHeld(p) BY <1>1, <1>s DEF ForkHeld, RSys
<1>2. CASE sys.pc \in {"vfs", "answer"} /\ sys.req = "fork" /\ p = sys.from
  BY <1>2, <1>s DEF RSys
<1>3. CASE sys.pc \in {"vfs", "answer"} /\ sys.req = "fork" /\ p = sys.child
  <2>1. SysHolds(p) BY <1>3, Who DEF SysHolds
  <2>. QED BY <2>1, <1>s DEF RHolds
<1>4. CASE sys.pc = "child" /\ p = sys.child BY <1>4, <1>s DEF RSys
<1>. QED BY <1>1, <1>2, <1>3, <1>4 DEF Forker

\* A step that is mild to all, and after which the system task is at no more
\* than it was.
LEMMA Milds ==
  ASSUME RInv,
         \A p \in Pid : User(p)' <=> User(p),
         \A p \in Pid : User(p) => Mild(p),
         \A p \in Pid : Forker(p)' => Forker(p),
         \A p \in Pid : ForkHeld(p)' => ForkHeld(p),
         \A c : SysHolds(c)' => SysHolds(c)
  PROVE  RUsers' /\ RForks' /\ RHolds'
<1>s. RUsers /\ RForks /\ RHolds BY DEF RInv
<1>1. ASSUME NEW p \in Pid, User(p)
      PROVE  RUser(p)' /\ \A c : Holds(p, c)' => Holds(p, c)
  BY <1>1, <1>s, MildUser DEF RUsers
<1>2. RUsers' BY <1>1 DEF RUsers
<1>3. ASSUME NEW p \in Pid PROVE RFork(p)'
  <2>1. CASE Forker(p)'
    <3>1. User(p) BY <2>1, Concerned
    <3>. QED BY <3>1, <1>s, MildFork DEF RUsers, RForks
  <2>2. CASE ~Forker(p)' BY <2>2 DEF RFork, Forker
  <2>. QED BY <2>1, <2>2
<1>4. ASSUME NEW p \in Pid, NEW c, Holds(p, c)' PROVE Holds(p, c)
  <2>1. User(p) BY <1>4 DEF Holds
  <2>. QED BY <2>1, <1>1, <1>4
<1>5. RHolds'
  <2>1. \A p \in Pid, c \in Pid \cup {NONE} : Holds(p, c)' => User(c)' /\ c # p /\ ~SysHolds(c)'
    <3>1. \A c : User(c) => c \in Pid BY DEF User
    <3>. QED BY <3>1, <1>4, <1>s DEF RHolds
  <2>2. \A c \in Pid \cup {NONE} : SysHolds(c)' => User(c)'
    <3>1. \A c : User(c) => c \in Pid BY DEF User
    <3>. QED BY <3>1, <1>s DEF RHolds
  <2>3. \A p, q \in Pid, c \in Pid : Holds(p, c)' /\ Holds(q, c)' => p = q
    BY <1>4, <1>s DEF RHolds
  <2>. QED BY <2>1, <2>2, <2>3 DEF RHolds
<1>. QED BY <1>2, <1>3, <1>5 DEF RForks


\* The system task stays where it is, with the request it has, if any.
LEMMA SystemKept ==
  ASSUME RSys, sys' = sys, \A p : User(p) => User(p)',
         Held' => Held /\ d0'[SYSTEM] = d0[SYSTEM] /\ msg'[SYSTEM] = msg[SYSTEM],
         state'[SYSTEM] = "blocked" =>
           IF sys.pc = "got"
           THEN m_from'[SYSTEM] = ANY /\ m_to'[SYSTEM] = NONE /\ ops'[SYSTEM] = {RECV}
           ELSE m_from'[SYSTEM] \in {NONE, VFS},
         sys.pc = "got" /\ state'[SYSTEM] = "ready" =>
           /\ ops'[SYSTEM] \in {{}, {RECV}}
           /\ ops'[SYSTEM] = {RECV} => \/ m_from'[SYSTEM] = d0'[SYSTEM]
                                       \/ m_from'[SYSTEM] = NONE /\ d0'[SYSTEM] = EABORT
  PROVE  /\ RSys'
         /\ \A p : (Forker(p)' => Forker(p)) /\ (ForkHeld(p)' => ForkHeld(p))
         /\ \A c : SysHolds(c)' => SysHolds(c)
<1>1. /\ \A p : (Forker(p)' => Forker(p)) /\ (ForkHeld(p)' => ForkHeld(p))
      /\ \A c : SysHolds(c)' => SysHolds(c)
  BY DEF Forker, ForkHeld, SysHolds
<1>2. Held' => /\ User(d0[SYSTEM])'
               /\ msg'[SYSTEM] \in [type : Calls \ {"vfs"}, pid : Pid \cup {NONE}]
  BY DEF RSys
<1>3. RSys' BY <1>2 DEF RSys, User
<1>. QED BY <1>1, <1>3

\* It has gone on, or stays, and holds nothing.
LEMMA SystemFree ==
  ASSUME RSys, \A p : User(p) => User(p)', ~Held',
         sys' = [sys EXCEPT !.pc = "recv"], RThreads,
         state'[SYSTEM] = "blocked" => m_from'[SYSTEM] \in {NONE, VFS}
  PROVE  /\ RSys'
         /\ \A p : ~Forker(p)' /\ ~ForkHeld(p)'
         /\ \A c : ~SysHolds(c)'
<1>1. sys'.pc = "recv" BY DEF RThreads
<1>. QED BY <1>1 DEF RSys, RThreads, Forker, ForkHeld, SysHolds

LEMMA RIdles ==
  ASSUME RInv, IInv', UNCHANGED <<proto, threads>>
  PROVE  RInv'
<1>1. /\ state' = state /\ m_from' = m_from /\ m_to' = m_to /\ d0' = d0
      /\ msg' = msg /\ ops' = ops /\ sig_mask' = sig_mask /\ uid' = uid
      /\ ppid' = ppid /\ sys' = sys /\ vfs' = vfs /\ user' = user
  BY DEF proto, threads
<1>2. \A p : /\ User(p)' = User(p) /\ IsTask(p)' = IsTask(p)
             /\ Answered(p)' = Answered(p)
  BY <1>1 DEF User, IsTask, Answered
<1>3. Held' = Held /\ \A p : ForkHeld(p)' = ForkHeld(p) /\ Forker(p)' = Forker(p)
  BY <1>1 DEF Held, ForkHeld, Forker
<1>4. /\ \A c : SysHolds(c)' = SysHolds(c)
      /\ \A p, c : Holds(p, c)' = Holds(p, c)
  BY <1>1, <1>2, <1>3 DEF SysHolds, Holds
<1>5. RThreads' /\ RTasks' /\ RVfs'
  BY <1>1, <1>2 DEF RInv, RThreads, RTasks, RTask, RVfs
<1>6. RSys' BY <1>1, <1>2, <1>3 DEF RInv, RSys
<1>7. RUsers' BY <1>1, <1>2 DEF RInv, RUsers, RUser
<1>8. RForks' BY <1>1, <1>2, <1>3 DEF RInv, RForks, RFork
<1>9. RHolds' BY <1>2, <1>4 DEF RInv, RHolds
<1>. QED BY <1>5, <1>6, <1>7, <1>8, <1>9 DEF RInv

\* A signal, after which the system task goes on or not, and a process may
\* have been stopped.
LEMMA Disturbs ==
  ASSUME RInv, IInv', NEW L, NEW st \in [Pid -> States], NEW q \in Pid, NEW s,
         ProcSig(L, st, q, s), UNCHANGED <<uid, ops, msg, vfs, user>>,
         \A x \in Pid : \/ st[x] = state[x]
                        \/ /\ st[x] = "stopped" /\ User(x)
                           /\ state[x] # "blocked" \/ sys'.pc = "recv",
         \/ sys' = sys
         \/ sys' = [sys EXCEPT !.pc = "recv"] /\ state[SYSTEM] = "ready" /\ sys.pc # "boot"
  PROVE  RInv'
<1>s. /\ RThreads /\ RTasks /\ RVfs /\ RSys /\ RUsers /\ RForks /\ RHolds /\ Typed
  BY RTypes DEF RInv
<1>1. \A x \in Pid :
        IF x = q /\ st[q] = "blocked"
        THEN state'[x] = "ready" /\ m_from'[x] = NONE /\ m_to'[x] = NONE /\ d0'[x] = EABORT
        ELSE state'[x] = st[x] /\ m_from'[x] = m_from[x] /\ m_to'[x] = m_to[x] /\ d0'[x] = d0[x]
  BY <1>s DEF ProcSig, Typed
<1>2. /\ uid' = uid /\ ops' = ops /\ msg' = msg /\ vfs' = vfs /\ user' = user
  OBVIOUS
<1>3. \A p : User(p)' <=> User(p)
  BY <1>1, <1>2 DEF User, IsTask
<1>4. /\ st[SYSTEM] = state[SYSTEM] /\ st[VFS] = state[VFS]
  BY <1>s, Who, UserNoTask
<1>5. RThreads' /\ RTasks'
  <2>1. RThreads' BY <1>2, <1>s DEF RThreads
  <2>2. sys'.pc \in {"boot", "init"} => sys.pc \in {"boot", "init"} BY <1>s DEF RThreads
  <2>. QED BY <2>1, <2>2, <1>1, <1>2, <1>s DEF RTasks, RTask, IsTask, User
<1>6. RVfs'
  <2>1. {NONE, EABORT} \cap {VFS, IDLE} = {} BY Who
  <2>2. sys'.pc # "boot" => sys.pc # "boot" OBVIOUS
  <2>3. sys'.pc # "boot" => state'[VFS] # "none" BY <2>2, <1>1, <1>4, <1>s, Who DEF RVfs
  <2>. QED BY <2>1, <2>3, <1>1, <1>2, <1>4, <1>s, Who DEF RVfs, IsTask
<1>7. /\ RSys'
      /\ \A p : (Forker(p)' => Forker(p)) /\ (ForkHeld(p)' => ForkHeld(p))
      /\ \A c : SysHolds(c)' => SysHolds(c)
      /\ \A p : ForkHeld(p)' => sys' = sys
  <2>1. CASE sys' = sys
    <3>1. Held' => Held /\ d0'[SYSTEM] = d0[SYSTEM] /\ msg'[SYSTEM] = msg[SYSTEM]
      BY <2>1, <1>1, <1>2, <1>4, Who DEF Held
    <3>2. state'[SYSTEM] = "blocked" =>
            /\ state[SYSTEM] = "blocked" /\ m_from'[SYSTEM] = m_from[SYSTEM]
            /\ m_to'[SYSTEM] = m_to[SYSTEM] /\ ops'[SYSTEM] = ops[SYSTEM]
      BY <1>1, <1>2, <1>4, Who
    <3>3. state'[SYSTEM] = "ready" =>
            \/ /\ state[SYSTEM] = "ready" /\ m_from'[SYSTEM] = m_from[SYSTEM]
               /\ d0'[SYSTEM] = d0[SYSTEM] /\ ops'[SYSTEM] = ops[SYSTEM]
            \/ /\ state[SYSTEM] = "blocked" /\ m_from'[SYSTEM] = NONE
               /\ d0'[SYSTEM] = EABORT /\ ops'[SYSTEM] = ops[SYSTEM]
      BY <1>1, <1>2, <1>4, <1>s, Who DEF Typed
    <3>4. state'[SYSTEM] = "blocked" =>
            IF sys.pc = "got"
            THEN m_from'[SYSTEM] = ANY /\ m_to'[SYSTEM] = NONE /\ ops'[SYSTEM] = {RECV}
            ELSE m_from'[SYSTEM] \in {NONE, VFS}
      BY <3>2, <1>s DEF RSys
    <3>5. sys.pc = "got" /\ state'[SYSTEM] = "ready" =>
            /\ ops'[SYSTEM] \in {{}, {RECV}}
            /\ ops'[SYSTEM] = {RECV} => \/ m_from'[SYSTEM] = d0'[SYSTEM]
                                        \/ m_from'[SYSTEM] = NONE /\ d0'[SYSTEM] = EABORT
      BY <3>3, <1>s DEF RSys
    <3>. QED BY <2>1, <3>1, <3>4, <3>5, <1>s, <1>3, SystemKept
  <2>2. CASE sys' = [sys EXCEPT !.pc = "recv"] /\ state[SYSTEM] = "ready"
    <3>1. sys'.pc = "recv" /\ state'[SYSTEM] = "ready" BY <2>2, <1>1, <1>4, <1>s, Who DEF RThreads
    <3>2. ~Held' BY <3>1 DEF Held
    <3>. QED BY <2>2, <3>1, <3>2, <1>2, <1>3, <1>s, SystemFree
  <2>. QED BY <2>1, <2>2
<1>8. ASSUME NEW p \in Pid, User(p) PROVE Mild(p)
  <2>1. st[p] = state[p] \/ (st[p] = "stopped" /\ (state[p] # "blocked" \/ sys'.pc = "recv"))
    OBVIOUS
  <2>2. SYSTEM # NONE /\ SYSTEM # EABORT BY Who
  <2>3. ForkHeld(p)' => sys'.pc = "got" BY DEF ForkHeld, Held
  <2>. QED BY <2>1, <2>2, <2>3, <1>1, <1>2, <1>7 DEF Mild
<1>9. RUsers' /\ RForks' /\ RHolds' BY <1>3, <1>7, <1>8, Milds
<1>. QED BY <1>5, <1>6, <1>7, <1>9 DEF RInv


-----------------------------------------------------------------------------
(* The servers. *)

\* A task comes back from a call.
LEMMA RTaskBack ==
  ASSUME RInv, IInv', NEW t \in Pid, TaskReturn(t), UNCHANGED threads
  PROVE  RInv'
<1>s. /\ RThreads /\ RTasks /\ RVfs /\ RSys /\ RUsers /\ RForks /\ RHolds /\ Typed /\ IInv
  BY RTypes DEF RInv
<1>1. /\ t \in {SYSTEM, VFS} /\ state[t] = "ready"
  <2>1. t \in {SYSTEM, VFS} BY <1>s DEF TaskReturn, RTasks, RTask
  <2>2. cur = t /\ irq = "off" BY DEF TaskReturn
  <2>3. IsTask(t) BY <2>1, <1>s DEF Typed, IsTask
  <2>4. links.ready \in Is("ready") BY <1>s, IdleIsReady
  <2>. QED BY <2>1, <2>2, <2>3, <2>4, <1>s DEF IInv, OnCpu, Is
<1>2. /\ state' = state /\ m_from' = m_from /\ m_to' = m_to /\ uid' = uid /\ msg' = msg
      /\ sys' = sys /\ vfs' = vfs /\ user' = user
      /\ \A x \in Pid : x # t => d0'[x] = d0[x] /\ ops'[x] = ops[x]
      /\ ops'[t] = {}
      /\ \/ RECV \in ops[t] /\ d0'[t] = IF m_from[t] # NONE THEN m_from[t] ELSE EABORT
         \/ RECV \notin ops[t] /\ d0'[t] \in {m_to[t], EABORT}
  <2>1. /\ state' = state /\ m_from' = m_from /\ m_to' = m_to /\ uid' = uid /\ msg' = msg
        /\ sys' = sys /\ vfs' = vfs /\ user' = user
    BY DEF TaskReturn, threads
  <2>2. /\ ops' = [ops EXCEPT ![t] = {}]
        /\ RECV \in ops[t] =>
             d0' = [d0 EXCEPT ![t] = IF m_from[t] # NONE THEN m_from[t] ELSE EABORT]
        /\ RECV \notin ops[t] =>
             d0' = [d0 EXCEPT ![t] = IF m_to[t] # NONE THEN m_to[t] ELSE EABORT]
    BY DEF TaskReturn
  <2>. QED BY <2>1, <2>2, <1>s DEF Typed
<1>3. \A p : User(p)' <=> User(p) BY <1>2 DEF User, IsTask
<1>4. RThreads' /\ RTasks'
  BY <1>2, <1>s DEF RThreads, RTasks, RTask, IsTask
<1>5. RVfs'
  <2>1. EABORT \notin {VFS, IDLE} BY Who
  <2>2. d0'[VFS] \notin {VFS, IDLE} BY <2>1, <1>2, <1>s, Who DEF RVfs
  <2>. QED BY <2>2, <1>2, <1>s DEF RVfs, IsTask
<1>6. /\ RSys'
      /\ \A p : (Forker(p)' => Forker(p)) /\ (ForkHeld(p)' => ForkHeld(p))
      /\ \A c : SysHolds(c)' => SysHolds(c)
  <2>1. CASE t = SYSTEM
    <3>1. ASSUME sys.pc = "got", d0'[SYSTEM] \in Pid PROVE d0'[SYSTEM] = d0[SYSTEM]
      <4>1. /\ ops[SYSTEM] = {RECV}
            /\ \/ m_from[SYSTEM] = d0[SYSTEM]
               \/ m_from[SYSTEM] = NONE /\ d0[SYSTEM] = EABORT
        BY <3>1, <2>1, <1>1, <1>s DEF RSys, TaskReturn
      <4>2. d0'[SYSTEM] = IF m_from[SYSTEM] # NONE THEN m_from[SYSTEM] ELSE EABORT
        BY <4>1, <2>1, <1>2
      <4>. QED BY <4>1, <4>2, <3>1, Who
    <3>2. Held' => Held /\ d0'[SYSTEM] = d0[SYSTEM] /\ msg'[SYSTEM] = msg[SYSTEM]
      BY <3>1, <1>2 DEF Held
    <3>. QED BY <2>1, <3>2, <1>1, <1>2, <1>3, <1>s, SystemKept
  <2>2. CASE t # SYSTEM
    <3>1. d0'[SYSTEM] = d0[SYSTEM] /\ ops'[SYSTEM] = ops[SYSTEM] BY <2>2, <1>2, Who
    <3>2. Held' => Held /\ d0'[SYSTEM] = d0[SYSTEM] /\ msg'[SYSTEM] = msg[SYSTEM]
      BY <3>1, <1>2 DEF Held
    <3>3. RSys BY <1>s
    <3>. QED BY <3>1, <3>2, <3>3, <1>2, <1>3, SystemKept DEF RSys
  <2>. QED BY <2>1, <2>2
<1>7. ASSUME NEW p \in Pid, User(p) PROVE Mild(p)
  <2>1. p # t BY <1>1, <1>7, <1>s, UserNoTask
  <2>. QED BY <2>1, <1>2, <1>6 DEF Mild
<1>8. RUsers' /\ RForks' /\ RHolds' BY <1>3, <1>6, <1>7, Milds
<1>. QED BY <1>4, <1>5, <1>6, <1>8 DEF RInv


\* The server does something, to itself and to one other at most.
LEMMA VfsActs ==
  ASSUME RInv, IInv', UNCHANGED <<uid, sys, user>>, vfs' \in {"recv", "got"},
         NEW q \in Pid, q # VFS,
         \A x \in Pid : x \notin {VFS, q} =>
           /\ state'[x] = state[x] /\ m_from'[x] = m_from[x] /\ m_to'[x] = m_to[x]
           /\ d0'[x] = d0[x] /\ msg'[x] = msg[x],
         \A x \in Pid : x # VFS => ops'[x] = ops[x],
         \A x \in Pid : state'[x] = "none" <=> state[x] = "none",
         User(q) => Mild(q),
         {d0'[VFS], m_from'[VFS], m_to'[VFS]} \cap {VFS, IDLE} = {},
         state'[VFS] = "blocked" /\ m_to'[VFS] # NONE => msg'[VFS] = Answer("vfs", 0),
         q = SYSTEM =>
           /\ Held' => Held /\ d0'[SYSTEM] = d0[SYSTEM] /\ msg'[SYSTEM] = msg[SYSTEM]
           /\ state'[SYSTEM] = "blocked" =>
                state[SYSTEM] = "blocked" /\ m_from'[SYSTEM] = m_from[SYSTEM] /\ sys.pc # "got"
           /\ sys.pc = "got" /\ state'[SYSTEM] = "ready" => m_from'[SYSTEM] = d0'[SYSTEM]
           /\ state[SYSTEM] = "blocked"
  PROVE  RInv'
<1>s. /\ RThreads /\ RTasks /\ RVfs /\ RSys /\ RUsers /\ RForks /\ RHolds /\ Typed
  BY RTypes DEF RInv
<1>2. uid' = uid /\ sys' = sys /\ user' = user
  OBVIOUS
<1>3. \A p : User(p)' <=> User(p) BY <1>2 DEF User, IsTask
<1>4. RThreads' /\ RTasks'
  BY <1>2, <1>s DEF RThreads, RTasks, RTask, IsTask
<1>5. RVfs' BY <1>2, <1>s, Who DEF RVfs, IsTask
<1>6. /\ RSys'
      /\ \A p : (Forker(p)' => Forker(p)) /\ (ForkHeld(p)' => ForkHeld(p))
      /\ \A c : SysHolds(c)' => SysHolds(c)
  <2>0. RSys BY <1>s
  <2>1. CASE q = SYSTEM
    <3>1. ops'[SYSTEM] = ops[SYSTEM] BY Who
    <3>2. sys.pc = "got" => ops[SYSTEM] = {RECV} BY <2>0, <2>1 DEF RSys
    <3>. QED BY <2>0, <2>1, <3>1, <3>2, <1>2, <1>3, SystemKept DEF RSys
  <2>2. CASE q # SYSTEM
    <3>1. /\ state'[SYSTEM] = state[SYSTEM] /\ m_from'[SYSTEM] = m_from[SYSTEM]
          /\ m_to'[SYSTEM] = m_to[SYSTEM] /\ d0'[SYSTEM] = d0[SYSTEM]
          /\ msg'[SYSTEM] = msg[SYSTEM] /\ ops'[SYSTEM] = ops[SYSTEM]
      BY <2>2, Who
    <3>2. Held' => Held BY <3>1, <1>2 DEF Held
    <3>. QED BY <2>0, <3>1, <3>2, <1>2, <1>3, SystemKept DEF RSys
  <2>. QED BY <2>1, <2>2
<1>7. ASSUME NEW p \in Pid, User(p) PROVE Mild(p)
  <2>1. p # VFS BY <1>7, <1>s, UserNoTask
  <2>2. CASE p # q BY <2>1, <2>2, <1>2, <1>6 DEF Mild
  <2>. QED BY <2>2, <1>7
<1>8. RUsers' /\ RForks' /\ RHolds' BY <1>3, <1>6, <1>7, Milds
<1>. QED BY <1>4, <1>5, <1>6, <1>8 DEF RInv

LEMMA RVfsReceives ==
  ASSUME RInv, IInv', Running(VFS), Receive(VFS), vfs' = "got", UNCHANGED <<sys, user>>
  PROVE  RInv'
<1>s. /\ RThreads /\ RTasks /\ RVfs /\ RSys /\ RUsers /\ Typed
  BY RTypes DEF RInv
<1>0. state[VFS] = "ready" /\ IsTask(VFS) BY <1>s DEF Running, RVfs
<1>1. CASE RecvNow(VFS)
  <2>1. PICK s \in Senders(VFS) :
          /\ state' = IF OnlySends(s) THEN [state EXCEPT ![s] = "ready"] ELSE state
          /\ m_from' = [m_from EXCEPT ![VFS] = NONE]
          /\ m_to' = [m_to EXCEPT ![s] = NONE, ![VFS] = NONE]
          /\ d0' = [d0 EXCEPT ![s] = VFS, ![VFS] = s]
          /\ msg' = [msg EXCEPT ![VFS] = msg[s]]
          /\ ops' = ops /\ uid' = uid
    BY <1>1 DEF RecvNow
  <2>2. /\ s \in Pid /\ state[s] = "blocked" /\ m_to[s] = VFS /\ s # VFS /\ s # IDLE
    BY <1>0, <1>s DEF Senders, Typed
  <2>3. /\ \A x \in Pid : x \notin {VFS, s} =>
             /\ state'[x] = state[x] /\ m_from'[x] = m_from[x] /\ m_to'[x] = m_to[x]
             /\ d0'[x] = d0[x] /\ msg'[x] = msg[x]
        /\ state'[s] = IF m_from[s] = NONE THEN "ready" ELSE "blocked"
        /\ m_from'[s] = m_from[s] /\ m_to'[s] = NONE /\ d0'[s] = VFS /\ msg'[s] = msg[s]
        /\ state'[VFS] = "ready" /\ m_from'[VFS] = NONE /\ m_to'[VFS] = NONE /\ d0'[VFS] = s
    BY <2>1, <2>2, <1>0, <1>s, Who DEF Typed, OnlySends
  <2>4. User(s) => Mild(s)
    <3>1. VFS # SYSTEM /\ NONE # SYSTEM BY Who
    <3>. QED BY <2>2, <2>3, <3>1 DEF Mild
  <2>5. \A x \in Pid : state'[x] = "none" <=> state[x] = "none"
    BY <2>2, <2>3, <1>0
  <2>6. s = SYSTEM => sys.pc # "got" BY <2>2, <1>s, Who DEF RSys
  <2>7. {d0'[VFS], m_from'[VFS], m_to'[VFS]} \cap {VFS, IDLE} = {} BY <2>2, <2>3, Who
  <2>. QED BY <2>1, <2>2, <2>3, <2>4, <2>5, <2>6, <2>7, VfsActs DEF Held
<1>2. CASE Wait(VFS, ANY, {RECV}, NoMsg)
  <2>1. /\ \A x \in Pid : x # VFS =>
             /\ state'[x] = state[x] /\ m_from'[x] = m_from[x] /\ m_to'[x] = m_to[x]
             /\ d0'[x] = d0[x] /\ msg'[x] = msg[x] /\ ops'[x] = ops[x]
        /\ state'[VFS] \in {"ready", "blocked"} /\ m_from'[VFS] \in {NONE, ANY}
        /\ m_to'[VFS] = NONE /\ d0'[VFS] \in {d0[VFS], EABORT} /\ uid' = uid
    BY <1>0, <1>2, <1>s, Who DEF Wait, Typed, SEND, RECV
  <2>2. {d0'[VFS], m_from'[VFS], m_to'[VFS]} \cap {VFS, IDLE} = {} BY <2>1, <1>s, Who DEF RVfs
  <2>3. \A x \in Pid : state'[x] = "none" <=> state[x] = "none" BY <2>1, <1>0
  <2>4. ~User(IDLE) /\ IDLE \in Pid /\ IDLE # VFS /\ IDLE # SYSTEM BY <1>s, Who, UserNoTask
  <2>. QED BY <2>1, <2>2, <2>3, <2>4, VfsActs
<1>. QED BY <1>1, <1>2 DEF Receive

LEMMA RVfsSends ==
  ASSUME RInv, IInv', Running(VFS), NEW q \in Pid, q = d0[VFS],
         Send(VFS, q, Answer("vfs", 0)), vfs' = "recv", UNCHANGED <<sys, user>>
  PROVE  RInv'
<1>s. /\ RThreads /\ RTasks /\ RVfs /\ RSys /\ RUsers /\ Typed
  BY RTypes DEF RInv
<1>0. /\ state[VFS] = "ready" /\ IsTask(VFS) /\ q # VFS /\ q # IDLE
  BY <1>s DEF Running, RVfs
<1>9. ~User(IDLE) /\ IDLE \in Pid /\ IDLE # VFS /\ IDLE # SYSTEM BY <1>s, Who, UserNoTask
<1> DEFINE m == Answer("vfs", 0)
<1> HIDE DEF m
<1>1. CASE SendNow(VFS, q, m)
  <2>1. state[q] = "blocked" /\ m_from[q] \in {VFS, ANY} BY <1>1 DEF SendNow, Accepts
  <2>2. /\ \A x \in Pid : x \notin {VFS, q} =>
             /\ state'[x] = state[x] /\ m_from'[x] = m_from[x] /\ m_to'[x] = m_to[x]
             /\ d0'[x] = d0[x] /\ msg'[x] = msg[x]
        /\ state'[q] = "ready" /\ m_from'[q] = VFS /\ m_to'[q] = m_to[q] /\ d0'[q] = VFS
        /\ msg'[q] = m
        /\ state'[VFS] = "ready" /\ m_from'[VFS] = NONE /\ m_to'[VFS] = NONE /\ d0'[VFS] = q
        /\ ops' = ops /\ uid' = uid
    BY <1>0, <1>1, <1>s, Who DEF SendNow, Typed
  <2>3. User(q) => Mild(q)
    <3>1. VFS # SYSTEM /\ ANY # SYSTEM BY Who
    <3>2. User(q) => m_to[q] # SYSTEM BY <2>1, <3>1, <1>s DEF RUsers, RUser
    <3>. QED BY <2>1, <2>2, <3>1, <3>2 DEF Mild
  <2>4. \A x \in Pid : state'[x] = "none" <=> state[x] = "none" BY <2>1, <2>2, <1>0
  <2>5. m.type \notin Calls BY DEF m, Answer, Calls
  <2>6. q = SYSTEM => ~Held' BY <2>2, <2>5 DEF Held
  <2>7. {d0'[VFS], m_from'[VFS], m_to'[VFS]} \cap {VFS, IDLE} = {} BY <2>2, <1>0, Who
  <2>. QED BY <2>1, <2>2, <2>3, <2>4, <2>6, <2>7, <1>0, VfsActs
<1>2. CASE SendLocked(VFS, q, m) \/ Wait(VFS, q, {SEND}, m)
  <2>1. /\ \A x \in Pid : x # VFS =>
             /\ state'[x] = state[x] /\ m_from'[x] = m_from[x] /\ m_to'[x] = m_to[x]
             /\ d0'[x] = d0[x] /\ msg'[x] = msg[x] /\ ops'[x] = ops[x]
        /\ state'[VFS] \in {"ready", "blocked"} /\ m_from'[VFS] \in {NONE, m_from[VFS]}
        /\ m_to'[VFS] \in {NONE, q} /\ d0'[VFS] \in {d0[VFS], EABORT, ELOCK}
        /\ msg'[VFS] = m /\ uid' = uid
    <3>1. CASE SendLocked(VFS, q, m)
      BY <1>0, <3>1, <1>s, Who DEF SendLocked, Typed
    <3>2. CASE Wait(VFS, q, {SEND}, m)
      <4>1. ~(SEND \in {SEND} /\ Accepts(q, VFS)) BY <3>2 DEF Wait
      <4>. QED BY <1>0, <3>2, <4>1, <1>s, Who DEF Wait, Typed, SEND, RECV
    <3>. QED BY <1>2, <3>1, <3>2
  <2>2. {d0'[VFS], m_from'[VFS], m_to'[VFS]} \cap {VFS, IDLE} = {}
    BY <2>1, <1>0, <1>s, Who DEF RVfs
  <2>3. \A x \in Pid : state'[x] = "none" <=> state[x] = "none" BY <2>1, <1>0
  <2>. QED BY <2>1, <2>2, <2>3, <1>9, VfsActs DEF m
<1>. QED BY <1>1, <1>2 DEF Send, m


-----------------------------------------------------------------------------
(* The programs. *)

\* A step that is mild to all but p, after which the system task is at no more
\* than it was, but perhaps at a request of p; a child goes from hand to hand.
LEMMA MildsBut ==
  ASSUME RInv, NEW p \in Pid, User(p),
         \A x \in Pid : User(x)' <=> User(x),
         \A x \in Pid : User(x) /\ x # p => Mild(x),
         \A x \in Pid : x # p => (Forker(x)' => Forker(x)) /\ (ForkHeld(x)' => ForkHeld(x)),
         \A c : Holds(p, c)' => Holds(p, c) \/ (SysHolds(c) /\ c # p),
         \A c : SysHolds(c)' => (SysHolds(c) \/ Holds(p, c)) /\ ~Holds(p, c)',
         RUser(p)', RFork(p)'
  PROVE  RUsers' /\ RForks' /\ RHolds'
<1>s. RUsers /\ RForks /\ RHolds BY DEF RInv
<1>1. ASSUME NEW x \in Pid, User(x), x # p
      PROVE  RUser(x)' /\ \A c : Holds(x, c)' => Holds(x, c)
  BY <1>1, <1>s, MildUser DEF RUsers
<1>2. RUsers' BY <1>1 DEF RUsers
<1>3. ASSUME NEW x \in Pid PROVE RFork(x)'
  <2>1. CASE Forker(x)' /\ x # p
    <3>1. User(x) BY <2>1, Concerned
    <3>. QED BY <2>1, <3>1, <1>s, MildFork DEF RUsers, RForks
  <2>2. CASE ~Forker(x)' BY <2>2 DEF RFork, Forker
  <2>. QED BY <2>1, <2>2
<1>4. ASSUME NEW x \in Pid, NEW c, Holds(x, c)', x # p PROVE Holds(x, c)
  <2>1. User(x) BY <1>4 DEF Holds
  <2>. QED BY <2>1, <1>1, <1>4
<1>5. \A c : User(c) => c \in Pid BY DEF User
<1>6. ASSUME NEW x \in Pid, NEW c \in Pid \cup {NONE}, Holds(x, c)'
      PROVE  User(c)' /\ c # x /\ ~SysHolds(c)'
  <2>1. CASE x = p
    <3>1. User(c) /\ c # p BY <2>1, <1>6, <1>s DEF RHolds
    <3>. QED BY <3>1, <2>1, <1>6, <1>5
  <2>2. CASE x # p
    <3>1. Holds(x, c) /\ User(c) /\ c # x /\ ~SysHolds(c) BY <2>2, <1>4, <1>6, <1>s DEF RHolds
    <3>2. ~Holds(p, c) BY <2>2, <3>1, <1>5, <1>s DEF RHolds
    <3>. QED BY <3>1, <3>2, <1>5
  <2>. QED BY <2>1, <2>2
<1>7. ASSUME NEW c \in Pid \cup {NONE}, SysHolds(c)' PROVE User(c)'
  <2>1. User(c) BY <1>7, <1>s DEF RHolds
  <2>. QED BY <2>1, <1>5
<1>8. ASSUME NEW x \in Pid, NEW y \in Pid, NEW c \in Pid, Holds(x, c)', Holds(y, c)'
      PROVE  x = y
  <2>1. (x # p => Holds(x, c)) /\ (y # p => Holds(y, c)) BY <1>4, <1>8
  <2>2. Holds(p, c)' => Holds(p, c) \/ SysHolds(c) OBVIOUS
  <2>. QED BY <2>1, <2>2, <1>8, <1>s DEF RHolds
<1>9. RHolds' BY <1>6, <1>7, <1>8 DEF RHolds
<1>. QED BY <1>2, <1>3, <1>9 DEF RForks

\* A child that is held is a process, and the system task does not hold it.
LEMMA HeldChild ==
  ASSUME RInv, NEW p \in Pid, NEW c, Holds(p, c)
  PROVE  c \in Pid /\ User(c) /\ c # p /\ ~SysHolds(c)
<1>s. RThreads /\ RUsers /\ RHolds BY DEF RInv
<1>1. User(p) /\ RUser(p) BY <1>s DEF Holds, RUsers
<1>2. c \in Pid \cup {NONE} BY <1>1, <1>s DEF Holds, RThreads, RUser
<1>. QED BY <1>2, <1>s DEF RHolds, User

LEMMA Calling ==
  ASSUME RInv, NEW p \in Pid, UserCalls(p)
  PROVE  /\ User(p) /\ state[p] = "ready" /\ ~user[p].in /\ user[p].pc \in Calls
         /\ Callee(user[p].pc) \in {SYSTEM, VFS}
         /\ Call(p, Callee(user[p].pc), Request(user[p].pc, user[p].kid))
         /\ \A x \in Pid : x # p => user'[x] = user[x]
         /\ user'[p].in /\ user'[p].pc = user[p].pc /\ user'[p].kid = user[p].kid
         /\ sys' = sys /\ vfs' = vfs /\ RThreads'
         /\ p \notin {SYSTEM, VFS, IDLE}
<1>s. /\ RThreads /\ Typed BY RTypes DEF RInv
<1>1. /\ state[p] = "ready" /\ ~IsTask(p) /\ ~user[p].in /\ user[p].pc # "none"
      /\ Call(p, Callee(user[p].pc), Request(user[p].pc, user[p].kid))
      /\ user' = [user EXCEPT ![p].in = TRUE] /\ sys' = sys /\ vfs' = vfs
  BY DEF UserCalls, UserRuns, Running, Trap
<1>2. User(p) BY <1>1 DEF User
<1>3. RThreads' BY <1>1, <1>s DEF RThreads
<1>4. user[p].pc \in Calls BY <1>1, <1>s DEF RThreads
<1>. QED BY <1>1, <1>2, <1>3, <1>4, <1>s, UserNoTask DEF Callee, RThreads

\* The call fails: the other is blocked sending to the caller.
LEMMA RUserLocked ==
  ASSUME RInv, IInv', NEW p \in Pid, UserCalls(p), NEW q \in {SYSTEM, VFS},
         q = Callee(user[p].pc), SendLocked(p, q, Request(user[p].pc, user[p].kid))
  PROVE  RInv'
<1>s. /\ RThreads /\ RTasks /\ RVfs /\ RSys /\ RUsers /\ RForks /\ RHolds /\ Typed
  BY RTypes DEF RInv
<1>1. /\ User(p) /\ state[p] = "ready" /\ ~user[p].in /\ user[p].pc \in Calls
      /\ \A x \in Pid : x # p => user'[x] = user[x]
      /\ user'[p].in /\ user'[p].pc = user[p].pc /\ user'[p].kid = user[p].kid
      /\ sys' = sys /\ vfs' = vfs /\ RThreads' /\ p \notin {SYSTEM, VFS, IDLE}
  BY Calling
<1>2. /\ state' = state /\ m_from' = m_from /\ uid' = uid /\ ops' = ops
      /\ \A x \in Pid : x # p => m_to'[x] = m_to[x] /\ d0'[x] = d0[x] /\ msg'[x] = msg[x]
      /\ m_to'[p] = q /\ d0'[p] = ELOCK
      /\ state[q] = "blocked"
  BY <1>s DEF SendLocked, Senders, Typed
<1>3. \A x : (User(x)' <=> User(x)) /\ IsTask(x)' = IsTask(x) BY <1>2 DEF User, IsTask
<1>4. RTasks' /\ RVfs'
  <2>1. ~IsTask(p) BY <1>1 DEF User
  <2>. QED BY <2>1, <1>1, <1>2, <1>3, <1>s, Who DEF RTasks, RTask, RVfs, IsTask
<1>5. Held' => Held /\ d0'[SYSTEM] = d0[SYSTEM] /\ msg'[SYSTEM] = msg[SYSTEM]
  BY <1>1, <1>2, Who DEF Held
<1>6. /\ RSys'
      /\ \A x : (Forker(x)' => Forker(x)) /\ (ForkHeld(x)' => ForkHeld(x))
      /\ \A c : SysHolds(c)' => SysHolds(c)
  <2>1. RSys BY <1>s
  <2>2. d0'[SYSTEM] = d0[SYSTEM] BY <1>1, <1>2, Who
  <2>3. m_to'[SYSTEM] = m_to[SYSTEM] BY <1>1, <1>2, Who
  <2>. QED BY <2>1, <2>2, <2>3, <1>1, <1>2, <1>3, <1>5, SystemKept DEF RSys
<1>7. ASSUME NEW x \in Pid, User(x), x # p PROVE Mild(x)
  BY <1>7, <1>1, <1>2, <1>6 DEF Mild
<1>8. ~Answered(p)' /\ state'[p] = "ready" BY <1>1, <1>2, Who DEF Answered
<1>9. RUser(p)' BY <1>1, <1>8, <1>s DEF RUser, RUsers
<1>10. RFork(p)'
  <2>1. RFork(p) BY <1>s DEF RForks
  <2>2. ForkHeld(p)' => ForkHeld(p) /\ q # SYSTEM BY <1>2, <1>6 DEF ForkHeld, Held
  <2>3. ForkHeld(p)' => SYSTEM \notin {m_from[p], m_to[p]}
    BY <2>1, <2>2, <1>1 DEF RFork
  <2>. QED BY <2>1, <2>2, <2>3, <1>1, <1>2, <1>6, <1>8 DEF RFork
<1>11. \A c : Holds(p, c)' => Holds(p, c)
  BY <1>1, <1>2, <1>3, <1>8 DEF Holds
<1>12. \A c : SysHolds(c)' => SysHolds(c) /\ ~Holds(p, c)'
  <2>1. ASSUME NEW c, SysHolds(c)', Holds(p, c)' PROVE FALSE
    <3>1. SysHolds(c) /\ Holds(p, c) BY <2>1, <1>6, <1>11
    <3>2. c \in Pid \cup {NONE} BY <3>1, <1>1, <1>s, <1>8 DEF Holds, RThreads, Answered
    <3>. QED BY <3>1, <3>2, <1>s DEF RHolds
  <2>. QED BY <2>1, <1>6
<1>13. RUsers' /\ RForks' /\ RHolds'
  BY <1>1, <1>3, <1>6, <1>7, <1>9, <1>10, <1>11, <1>12, MildsBut
<1>. QED BY <1>1, <1>4, <1>6, <1>13 DEF RInv


\* The call is made: the other takes it at once or not, and the caller blocks
\* or, with a signal pending, comes back at once.
LEMMA RUserWaits ==
  ASSUME RInv, IInv', NEW p \in Pid, UserCalls(p), NEW q \in {SYSTEM, VFS},
         q = Callee(user[p].pc), Wait(p, q, {SEND, RECV}, Request(user[p].pc, user[p].kid))
  PROVE  RInv'
<1>s. /\ RThreads /\ RTasks /\ RVfs /\ RSys /\ RUsers /\ RForks /\ RHolds /\ Typed
  BY RTypes DEF RInv
<1> DEFINE m == Request(user[p].pc, user[p].kid)
<1> HIDE DEF m
<1>1. /\ User(p) /\ state[p] = "ready" /\ ~user[p].in /\ user[p].pc \in Calls
      /\ \A x \in Pid : x # p => user'[x] = user[x]
      /\ user'[p].in /\ user'[p].pc = user[p].pc /\ user'[p].kid = user[p].kid
      /\ sys' = sys /\ vfs' = vfs /\ RThreads' /\ p \notin {SYSTEM, VFS, IDLE}
  BY Calling
<1>0. q \in Pid /\ p # q /\ ~IsTask(p) BY <1>1, Who DEF User
<1>2. /\ uid' = uid /\ ops' = ops
      /\ \A x \in Pid : x \notin {p, q} =>
           /\ state'[x] = state[x] /\ m_from'[x] = m_from[x] /\ m_to'[x] = m_to[x]
           /\ d0'[x] = d0[x] /\ msg'[x] = msg[x]
      /\ \/ state'[p] = "ready" /\ d0'[p] = EABORT /\ m_from'[p] = NONE /\ m_to'[p] = NONE
         \/ state'[p] = "blocked" /\ m_from'[p] = q /\ m_to'[p] \in {NONE, q}
      /\ msg'[p] = m
      /\ m_to'[q] = m_to[q]
      /\ \/ /\ Accepts(q, p) /\ state'[q] = "ready" /\ m_from'[q] = p /\ d0'[q] = p
            /\ msg'[q] = m /\ m_to'[p] = NONE
         \/ /\ state'[q] = state[q] /\ m_from'[q] = m_from[q]
            /\ d0'[q] = d0[q] /\ msg'[q] = msg[q] /\ ~Accepts(q, p)
  <2>1. Wait(p, q, {SEND, RECV}, m) BY DEF m
  <2>2. CASE Accepts(q, p)
    BY <2>1, <2>2, <1>0, <1>1, <1>s DEF Wait, Typed, SEND, RECV
  <2>3. CASE ~Accepts(q, p)
    BY <2>1, <2>3, <1>0, <1>1, <1>s DEF Wait, Typed, SEND, RECV
  <2>. QED BY <2>2, <2>3
<1>3. \A x : (User(x)' <=> User(x)) /\ IsTask(x)' = IsTask(x)
  <2>1. \A x \in Pid : state'[x] = "none" <=> state[x] = "none"
    BY <1>0, <1>1, <1>2 DEF Accepts
  <2>. QED BY <2>1, <1>2 DEF User, IsTask
<1>a. /\ IsTask(VFS) /\ uid' = uid /\ \A x \in {d0[VFS], m_from[VFS], m_to[VFS]} : x # VFS /\ x # IDLE
      /\ VFS # p /\ VFS # SYSTEM /\ VFS # IDLE /\ IDLE # p /\ VFS \in Pid
  BY <1>1, <1>2, <1>s, Who DEF RVfs
<1>4. RTasks' /\ RVfs'
  <2>1. \A x \in Pid : state'[x] = "none" <=> state[x] = "none"
    BY <1>0, <1>1, <1>2 DEF Accepts
  <2>2. RTasks' BY <2>1, <1>0, <1>1, <1>2, <1>3, <1>s DEF RTasks, RTask
  <2>3. CASE q = VFS /\ Accepts(q, p)
    <3>1. state'[VFS] = "ready" /\ m_from'[VFS] = p /\ d0'[VFS] = p /\ m_to'[VFS] = m_to[VFS]
      BY <2>3, <1>2
    <3>3. {d0'[VFS], m_from'[VFS], m_to'[VFS]} \cap {VFS, IDLE} = {}
      BY <3>1, <1>a
    <3>. QED BY <3>1, <3>3, <2>2, <1>a DEF RVfs, IsTask
  <2>4. CASE ~(q = VFS /\ Accepts(q, p))
    <3>1. /\ state'[VFS] = state[VFS] /\ m_from'[VFS] = m_from[VFS] /\ m_to'[VFS] = m_to[VFS]
          /\ d0'[VFS] = d0[VFS] /\ msg'[VFS] = msg[VFS]
      <4>1. CASE q = VFS BY <2>4, <4>1, <1>2
      <4>2. CASE q # VFS BY <4>2, <1>2, <1>a
      <4>. QED BY <4>1, <4>2
    <3>2. /\ state[VFS] = "blocked" /\ m_to[VFS] # NONE => msg[VFS] = Answer("vfs", 0)
          /\ sys.pc # "boot" => state[VFS] # "none"
      BY <1>s DEF RVfs
    <3>3. {d0'[VFS], m_from'[VFS], m_to'[VFS]} \cap {VFS, IDLE} = {}
      BY <3>1, <1>a
    <3>. QED BY <3>1, <3>2, <3>3, <2>2, <1>1, <1>a DEF RVfs, IsTask
  <2>. QED BY <2>2, <2>3, <2>4
<1>6. ~Answered(p)'
  <2>1. EABORT # SYSTEM BY Who
  <2>2. state'[p] = "ready" => d0'[p] # SYSTEM BY <2>1, <1>2
  <2>. QED BY <2>2 DEF Answered
<1>7. RUser(p)'
  <2>1. user[p].pc \notin {"wait", "kill"} => user[p].kid = NONE BY <1>1, <1>s DEF RUsers, RUser
  <2>2. q = SYSTEM => user[p].pc # "vfs" BY Who DEF Callee
  <2>3. NONE # SYSTEM BY Who
  <2>. QED BY <2>1, <2>2, <2>3, <1>1, <1>2, <1>6 DEF RUser, m
<1>8. \A c : Holds(p, c)' => Holds(p, c) /\ (user[p].pc = "kill" => m_to'[p] = SYSTEM)
  BY <1>1, <1>6 DEF Holds
<1>9. \A x \in Pid : User(x) /\ x # p =>
         /\ state'[x] = state[x] /\ m_from'[x] = m_from[x] /\ m_to'[x] = m_to[x]
         /\ d0'[x] = d0[x] /\ msg'[x] = msg[x] /\ user'[x] = user[x]
  BY <1>1, <1>2, <1>s, UserNoTask
<1>10. \A x \in Pid : User(x) /\ x # p => Mild(x)
  BY <1>9 DEF Mild
<1>11. ForkHeld(p)' /\ SYSTEM \in {m_from'[p], m_to'[p]} => state'[p] = "blocked"
  <2>1. NONE # SYSTEM BY Who
  <2>. QED BY <2>1, <1>2
<1>12. CASE q = SYSTEM /\ Accepts(SYSTEM, p)
  <2>1. state[SYSTEM] = "blocked" /\ sys.pc = "got" /\ ops[SYSTEM] = {RECV}
    <3>1. state[SYSTEM] = "blocked" /\ m_from[SYSTEM] \in {p, ANY} BY <1>12 DEF Accepts
    <3>2. p \notin {NONE, VFS} /\ ANY \notin {NONE, VFS} BY <1>1, Who
    <3>. QED BY <3>1, <3>2, <1>s DEF RSys
  <2>2. /\ \A x : ~Forker(x)
        /\ \A c : ~SysHolds(c)
    BY <2>1 DEF Forker, ForkHeld, Held, SysHolds
  <2>3. /\ state'[SYSTEM] = "ready" /\ m_from'[SYSTEM] = p /\ d0'[SYSTEM] = p
        /\ msg'[SYSTEM] = m /\ m_to'[p] = NONE /\ ops'[SYSTEM] = {RECV} /\ sys' = sys
    BY <2>1, <1>12, <1>1, <1>2
  <2>4. m \in [type : Calls \ {"vfs"}, pid : Pid \cup {NONE}]
    <3>1. user[p].pc # "vfs" BY <1>12, Who DEF Callee
    <3>2. user[p].kid \in Pid \cup {NONE} BY <1>1, <1>s DEF RThreads
    <3>. QED BY <3>1, <3>2, <1>1 DEF m, Request
  <2>5. m.type = "kill" => m.pid # p
    <3>1. user[p].pc = "kill" => Holds(p, user[p].kid) BY <1>1 DEF Holds
    <3>. QED BY <3>1, HeldChild DEF m, Request
  <2>11. RSys'
    BY <2>1, <2>3, <2>4, <2>5, <1>1, <1>3 DEF RSys
  <2>6. \A x : Forker(x)' => x = p /\ user[p].pc = "fork"
    BY <2>1, <2>3 DEF Forker, ForkHeld, Held, m, Request
  <2>7. RFork(p)'
    BY <2>6, <1>1, <1>6, <1>11 DEF RFork
  <2>8. \A c : SysHolds(c)' => Holds(p, c) /\ ~Holds(p, c)'
    <3>1. \A c : SysHolds(c)' => user[p].pc = "kill" /\ user[p].kid = c
      BY <2>1, <2>3 DEF SysHolds, m, Request
    <3>2. NONE # SYSTEM BY Who
    <3>3. \A c : SysHolds(c)' => Holds(p, c) BY <3>1, <1>1 DEF Holds
    <3>. QED BY <3>1, <3>2, <3>3, <2>3, <1>8
  <2>9. \A x \in Pid : x # p => ~Forker(x)' /\ ~ForkHeld(x)' BY <2>6 DEF Forker
  <2>10. RUsers' /\ RForks' /\ RHolds'
    BY <2>7, <2>8, <2>9, <1>1, <1>3, <1>7, <1>8, <1>10, MildsBut
  <2>. QED BY <2>10, <2>11, <1>1, <1>4 DEF RInv
<1>13. CASE ~(q = SYSTEM /\ Accepts(SYSTEM, p))
  <2>1. /\ state'[SYSTEM] = state[SYSTEM] /\ m_from'[SYSTEM] = m_from[SYSTEM]
        /\ m_to'[SYSTEM] = m_to[SYSTEM] /\ d0'[SYSTEM] = d0[SYSTEM]
        /\ msg'[SYSTEM] = msg[SYSTEM] /\ ops'[SYSTEM] = ops[SYSTEM]
    <3>1. CASE q = SYSTEM BY <3>1, <1>13, <1>2
    <3>2. CASE q # SYSTEM BY <3>2, <1>1, <1>2, Who
    <3>. QED BY <3>1, <3>2
  <2>2. Held' => Held BY <2>1, <1>1 DEF Held
  <2>0. RSys BY <1>s
  <2>3. /\ RSys'
        /\ \A x : (Forker(x)' => Forker(x)) /\ (ForkHeld(x)' => ForkHeld(x))
        /\ \A c : SysHolds(c)' => SysHolds(c)
    BY <2>0, <2>1, <2>2, <1>1, <1>3, SystemKept DEF RSys
  <2>4. RFork(p)'
    BY <2>3, <1>1, <1>6, <1>11, <1>s DEF RFork, RForks
  <2>5. \A c : SysHolds(c)' => SysHolds(c) /\ ~Holds(p, c)'
    <3>1. ASSUME NEW c, SysHolds(c)', Holds(p, c)' PROVE FALSE
      <4>1. SysHolds(c) /\ Holds(p, c) BY <3>1, <2>3, <1>8
      <4>2. c \in Pid \cup {NONE} BY <4>1, <3>1, <1>1, <1>6, <1>s DEF Holds, RThreads
      <4>. QED BY <4>1, <4>2, <1>s DEF RHolds
    <3>. QED BY <3>1, <2>3
  <2>6. RUsers' /\ RForks' /\ RHolds'
    BY <2>3, <2>4, <2>5, <1>1, <1>3, <1>7, <1>8, <1>10, MildsBut
  <2>. QED BY <2>3, <2>6, <1>1, <1>4 DEF RInv
<1>. QED BY <1>12, <1>13


LEMMA RUserCalls ==
  ASSUME RInv, IInv', NEW p \in Pid, UserCalls(p)
  PROVE  RInv'
<1>1. /\ Callee(user[p].pc) \in {SYSTEM, VFS}
      /\ Call(p, Callee(user[p].pc), Request(user[p].pc, user[p].kid))
  BY Calling
<1>. QED BY <1>1, RUserLocked, RUserWaits DEF Call

\* A program goes on between two calls, with the child it has if any.
LEMMA Moves ==
  ASSUME RInv, IInv', NEW p \in Pid, User(p), state[p] = "ready",
         UNCHANGED <<vars, sys, vfs>>,
         NEW u, user' = [user EXCEPT ![p] = u],
         u \in [prog : {"init", "shell", "leaf"}, pc : Calls \cup {"none"},
                in : BOOLEAN, kid : Pid \cup {NONE}],
         ~u.in, u.pc \notin {"wait", "kill"} => u.kid = NONE,
         Forker(p) => u.pc \in {"fork", "vfs", "exit", "none"},
         u.pc \in {"wait", "kill"} => Holds(p, u.kid)
  PROVE  RInv'
<1>s. /\ RThreads /\ RTasks /\ RVfs /\ RSys /\ RUsers /\ RForks /\ RHolds /\ Typed
  BY RTypes DEF RInv
<1>1. /\ state' = state /\ m_from' = m_from /\ m_to' = m_to /\ d0' = d0
      /\ msg' = msg /\ ops' = ops /\ uid' = uid /\ sys' = sys /\ vfs' = vfs
      /\ \A x \in Pid : x # p => user'[x] = user[x]
      /\ user'[p] = u
  BY <1>s DEF vars, ipc, Typed
<1>2. \A x : (User(x)' <=> User(x)) /\ IsTask(x)' = IsTask(x) BY <1>1 DEF User, IsTask
<1>3. RThreads' BY <1>1, <1>s DEF RThreads
<1>4. RTasks' /\ RVfs'
  <2>1. ~IsTask(p) BY DEF User
  <2>. QED BY <2>1, <1>1, <1>2, <1>s DEF RTasks, RTask, RVfs, IsTask
<1>5. Held' = Held BY <1>1 DEF Held
<1>6. /\ RSys'
      /\ \A x : (Forker(x)' => Forker(x)) /\ (ForkHeld(x)' => ForkHeld(x))
      /\ \A c : SysHolds(c)' => SysHolds(c)
  <2>1. RSys BY <1>s
  <2>. QED BY <2>1, <1>1, <1>2, <1>5, SystemKept DEF RSys
<1>7. ASSUME NEW x \in Pid, User(x), x # p PROVE Mild(x)
  BY <1>7, <1>1, <1>6 DEF Mild
<1>8. ~Answered(p)' BY <1>1 DEF Answered
<1>9. RUser(p)' BY <1>1, <1>8 DEF RUser
<1>10. RFork(p)'
  <2>1. RFork(p) BY <1>s DEF RForks
  <2>. QED BY <2>1, <1>1, <1>6, <1>8 DEF RFork
<1>11. \A c : Holds(p, c)' => Holds(p, c)
  BY <1>1, <1>8 DEF Holds
<1>12. \A c : SysHolds(c)' => SysHolds(c) /\ ~Holds(p, c)'
  BY <1>6, <1>11, HeldChild
<1>13. RUsers' /\ RForks' /\ RHolds'
  BY <1>2, <1>6, <1>7, <1>9, <1>10, <1>11, <1>12, MildsBut
<1>. QED BY <1>3, <1>4, <1>6, <1>13 DEF RInv

\* What a program does after a call of this kind, with this result.
LEMMA AfterCall ==
  ASSUME NEW u, NEW v, NEW w \in After(u, v)
  PROVE  /\ u.pc = "vfs" =>
              w = Resume(u.prog, IF u.prog = "leaf" THEN "exit" ELSE "fork", NONE)
         /\ u.pc = "fork" =>
              w = IF v = NONE THEN Resume(u.prog, "vfs", NONE)
                  ELSE IF v = 0 THEN Resume(u.prog, "exec", NONE)
                  ELSE Resume(u.prog, "wait", v)
         /\ u.pc = "wait" => w = Resume(u.prog, "kill", u.kid)
         /\ u.pc = "kill" => w = Resume(u.prog, "vfs", NONE)
         /\ u.pc = "exec" /\ v = 0 =>
              w = Resume("shell", "vfs", NONE) \/ w = Resume("leaf", "vfs", NONE)
         /\ u.pc = "exec" /\ v = NONE /\ v # 0 =>
              w = Resume(u.prog, IF u.prog = "init" THEN "vfs" ELSE "exit", NONE)
         /\ u.pc = "exit" => w = Resume(u.prog, "none", NONE)
<1>1. u.pc = "vfs" => w = Resume(u.prog, IF u.prog = "leaf" THEN "exit" ELSE "fork", NONE)
  BY Zenon DEF After
<1>2. u.pc = "fork" => w = IF v = NONE THEN Resume(u.prog, "vfs", NONE)
                           ELSE IF v = 0 THEN Resume(u.prog, "exec", NONE)
                           ELSE Resume(u.prog, "wait", v)
  BY Zenon DEF After
<1>3. u.pc = "wait" => w = Resume(u.prog, "kill", u.kid) BY Zenon DEF After
<1>4. u.pc = "kill" => w = Resume(u.prog, "vfs", NONE) BY Zenon DEF After
<1>5. u.pc = "exec" /\ v = 0 =>
        w = Resume("shell", "vfs", NONE) \/ w = Resume("leaf", "vfs", NONE)
  <2>1. v = 0 => v # NONE BY DEF NONE
  <2>2. ASSUME u.pc = "exec", v = 0
        PROVE  After(u, v) = {Resume("shell", "vfs", NONE), Resume("leaf", "vfs", NONE)}
    BY <2>1, <2>2, Zenon DEF After
  <2>. QED BY <2>2
<1>6. u.pc = "exec" /\ v = NONE /\ v # 0 =>
        w = Resume(u.prog, IF u.prog = "init" THEN "vfs" ELSE "exit", NONE)
  BY Zenon DEF After
<1>7. u.pc = "exit" => w = Resume(u.prog, "none", NONE) BY Zenon DEF After
<1>. QED BY <1>1, <1>2, <1>3, <1>4, <1>5, <1>6, <1>7

LEMMA RUserReturns ==
  ASSUME RInv, IInv', NEW p \in Pid, UserReturns(p)
  PROVE  RInv'
<1>s. RThreads /\ RUsers /\ RForks BY DEF RInv
<1>1. /\ state[p] = "ready" /\ ~IsTask(p) /\ user[p].in /\ UNCHANGED <<vars, sys, vfs>>
  BY DEF UserReturns, UserRuns, Running
<1>2. User(p) /\ RUser(p) /\ RFork(p) BY <1>1, <1>s DEF User, RUsers, RForks
<1> DEFINE v == Value(p)
           a == user[p]
<1>3. PICK u \in After(a, v) : user' = [user EXCEPT ![p] = u] BY DEF UserReturns
<1>4. /\ a.pc \in Calls /\ a.prog \in {"init", "shell", "leaf"} /\ a.kid \in Pid \cup {NONE}
  BY <1>1, <1>2, <1>s DEF RUser, RThreads
<1>5. /\ a.pc = "fork" => v \in Pid \cup {NONE}
      /\ a.pc = "exec" => v \in {0, NONE}
      /\ a.pc = "fork" /\ v # NONE => Answered(p) /\ v = msg[p].val
  BY <1>1, <1>2 DEF Value, Callee, RUser, Answered
<1>0. 0 # NONE BY DEF NONE
<1> HIDE DEF v
<1>6. CASE a.pc = "fork" /\ v \notin {0, NONE}
  <2>1. u = Resume(a.prog, "wait", v) BY <1>0, <1>6, AfterCall
  <2>2. Holds(p, v) BY <1>1, <1>2, <1>5, <1>6 DEF Holds
  <2>3. ~Forker(p) BY <1>2, <1>5, <1>6 DEF RFork
  <2>4. u.pc = "wait" /\ ~u.in /\ u.kid = v BY <2>1 DEF Resume
  <2>5. u \in [prog : {"init", "shell", "leaf"}, pc : Calls \cup {"none"},
               in : BOOLEAN, kid : Pid \cup {NONE}]
    BY <2>1, <1>4, <1>5, <1>6 DEF Resume, Calls
  <2>. QED BY <2>2, <2>3, <2>4, <2>5, <1>1, <1>2, <1>3, Moves
<1>7. CASE a.pc = "wait"
  <2>1. u = Resume(a.prog, "kill", a.kid) BY <1>7, AfterCall
  <2>2. Holds(p, a.kid) BY <1>1, <1>2, <1>7 DEF Holds
  <2>3. ~Forker(p) BY <1>2, <1>7 DEF RFork
  <2>4. u.pc = "kill" /\ ~u.in /\ u.kid = a.kid BY <2>1 DEF Resume
  <2>5. u \in [prog : {"init", "shell", "leaf"}, pc : Calls \cup {"none"},
               in : BOOLEAN, kid : Pid \cup {NONE}]
    BY <2>1, <1>4 DEF Resume, Calls
  <2>. QED BY <2>2, <2>3, <2>4, <2>5, <1>1, <1>2, <1>3, Moves
<1>8. CASE ~(a.pc = "fork" /\ v \notin {0, NONE}) /\ a.pc # "wait"
  <2>1. PICK x \in {"init", "shell", "leaf"}, y \in {"fork", "exit", "vfs", "exec", "none"} :
          u = Resume(x, y, NONE) /\ (Forker(p) => y # "exec")
    <3>1. CASE a.pc = "vfs" BY <3>1, <1>4, AfterCall
    <3>2. CASE a.pc = "fork" /\ v = NONE BY <3>2, <1>4, AfterCall
    <3>3. CASE a.pc = "fork" /\ v = 0
      <4>1. u = Resume(a.prog, "exec", NONE) BY <1>0, <3>3, AfterCall
      <4>2. ~Forker(p) BY <1>0, <1>2, <1>5, <3>3 DEF RFork
      <4>. QED BY <4>1, <4>2, <1>4
    <3>4. CASE a.pc = "kill" BY <3>4, <1>4, AfterCall
    <3>5. CASE a.pc = "exec"
      <4>1. CASE v = 0 BY <3>5, <4>1, AfterCall
      <4>2. CASE v = NONE BY <1>0, <3>5, <4>2, <1>4, AfterCall
      <4>. QED BY <4>1, <4>2, <3>5, <1>5
    <3>6. CASE a.pc = "exit" BY <3>6, <1>4, AfterCall
    <3>. QED BY <3>1, <3>2, <3>3, <3>4, <3>5, <3>6, <1>4, <1>5, <1>8 DEF Calls
  <2>2. /\ u \in [prog : {"init", "shell", "leaf"}, pc : Calls \cup {"none"},
                  in : BOOLEAN, kid : Pid \cup {NONE}]
        /\ ~u.in /\ u.pc = y /\ u.kid = NONE
    BY <2>1 DEF Resume, Calls
  <2>. QED BY <2>1, <2>2, <1>1, <1>2, <1>3, Moves
<1>. QED BY <1>6, <1>7, <1>8

LEMMA RShellEnds ==
  ASSUME RInv, IInv', NEW p \in Pid, ShellEnds(p)
  PROVE  RInv'
<1>s. RThreads /\ RUsers /\ RForks /\ Typed BY RTypes DEF RInv
<1>1. /\ state[p] = "ready" /\ ~IsTask(p) /\ ~user[p].in /\ UNCHANGED <<vars, sys, vfs>>
      /\ user[p].prog = "shell" /\ user[p].pc = "fork"
      /\ user' = [user EXCEPT ![p].pc = "exit"]
  BY DEF ShellEnds, UserRuns, Running
<1>2. User(p) /\ RUser(p) BY <1>1, <1>s DEF User, RUsers
<1>3. PICK u : u = [user[p] EXCEPT !.pc = "exit"] OBVIOUS
<1>4. user' = [user EXCEPT ![p] = u] BY <1>1, <1>3
<1>5. /\ u \in [prog : {"init", "shell", "leaf"}, pc : Calls \cup {"none"},
                in : BOOLEAN, kid : Pid \cup {NONE}]
      /\ ~u.in /\ u.pc = "exit" /\ u.kid = NONE
  BY <1>1, <1>2, <1>3, <1>s DEF RThreads, RUser, Calls
<1>. QED BY <1>1, <1>2, <1>4, <1>5, Moves

\* A program that takes an exception was running, or has taken one before.
LEMMA RLeafFaults ==
  ASSUME RInv, IInv', NEW p \in Pid, LeafFaults(p)
  PROVE  RInv'
<1>s. Typed /\ IInv BY RTypes DEF RInv
<1>1. /\ cur = p /\ irq = "off" /\ ~IsTask(p) /\ ProcExit(p) /\ UNCHANGED threads
  BY DEF LeafFaults, Fault
<1>2. state[p] \in {"ready", "stopped"}
  <2>1. links.ready \in Is("ready") BY <1>s, IdleIsReady
  <2>. QED BY <2>1, <1>1, <1>s DEF IInv, OnCpu, Is
<1>3. User(p) BY <1>1, <1>2 DEF User
<1> DEFINE st == [state EXCEPT ![p] = "stopped"]
<1>4. st \in [Pid -> States] /\ st[p] = "stopped" /\ \A x \in Pid : x # p => st[x] = state[x]
  BY <1>s DEF Typed, States
<1>5. PICK L : ProcSig(L, st, ppid[p], "child") BY <1>1 DEF ProcExit
<1>6. ppid[p] \in Pid BY <1>s DEF Typed
<1>7. UNCHANGED <<uid, ops, msg, vfs, user>> /\ sys' = sys
  BY <1>1 DEF ProcExit, threads
<1> HIDE DEF st
<1>. QED BY <1>2, <1>3, <1>4, <1>5, <1>6, <1>7, Disturbs

LEMMA RAlarm ==
  ASSUME RInv, IInv', CtrlAltDel
  PROVE  RInv'
<1>s. Typed BY RTypes DEF RInv
<1>1. /\ ProcSig(links, state, SYSTEM, "alrm")
      /\ UNCHANGED <<uid, ops, msg, vfs, user>> /\ sys' = sys
  BY DEF CtrlAltDel, Alarm, threads
<1>. QED BY <1>1, <1>s, Who, Disturbs DEF Typed


-----------------------------------------------------------------------------
(* The system task.                                                        *)

\* No process runs a program before init does.
LEMMA Nobody ==
  ASSUME RInv, sys.pc \in {"boot", "init"}
  PROVE  /\ \A p : ~User(p)
         /\ \A p \in Pid : user[p] = Resume("init", "vfs", NONE)
BY DEF RInv, RTasks, RTask, User

LEMMA RBootServer ==
  ASSUME RInv, IInv', sys.pc = "boot", CreateTask(VFS), SysGo("init"),
         UNCHANGED <<vfs, user>>
  PROVE  RInv'
<1>s. /\ RThreads /\ RTasks /\ RVfs /\ Typed BY RTypes DEF RInv
<1>1. \A p : ~User(p) BY Nobody
<1>2. /\ vfs' = vfs /\ user' = user /\ sys' = [sys EXCEPT !.pc = "init"] /\ sys'.pc = "init"
      /\ \A p \in Pid : state'[p] = IF p = VFS THEN "ready" ELSE state[p]
      /\ \A p \in Pid : uid'[p] = IF p = VFS THEN KERNEL ELSE uid[p]
      /\ \A p \in Pid : ops'[p] = IF p = VFS THEN {} ELSE ops[p]
      /\ m_from'[VFS] = 0 /\ m_to'[VFS] = 0 /\ d0'[VFS] = 0 /\ state[SYSTEM] = "ready"
  BY <1>s, Who DEF CreateTask, Fresh, SysGo, Typed, RThreads, Running
<1>3. \A p \in Pid : IsTask(p) /\ IsTask(p)' BY <1>s, <1>2, Who DEF RTasks, RTask, IsTask
<1>4. \A p : ~User(p)' BY <1>3 DEF User
<1>5. RThreads' BY <1>s, <1>2 DEF RThreads
<1>6. RTasks' BY <1>s, <1>2, <1>3, Who DEF RTasks, RTask
<1>7. RVfs'
  <2>1. {d0'[VFS], m_from'[VFS], m_to'[VFS]} \cap {VFS, IDLE} = {} BY <1>2, Who
  <2>2. IsTask(VFS)' /\ state'[VFS] = "ready" BY <1>2, <1>3, Who
  <2>. QED BY <2>1, <2>2 DEF RVfs
<1>8. RSys' BY <1>2, Who DEF RSys, Held
<1>9. RUsers' /\ RForks' /\ RHolds'
  <2>1. /\ \A p : ~Forker(p)' /\ ~ForkHeld(p)'
        /\ \A c : ~SysHolds(c)'
    BY <1>2 DEF Forker, ForkHeld, Held, SysHolds
  <2>2. \A p, c : ~Holds(p, c)' BY <1>4 DEF Holds
  <2>. QED BY <2>1, <2>2, <1>4 DEF RUsers, RForks, RFork, RHolds
<1>. QED BY <1>5, <1>6, <1>7, <1>8, <1>9 DEF RInv

LEMMA RBootInit ==
  ASSUME RInv, IInv', sys.pc = "init", CreateInit,
         sys' = [sys EXCEPT !.pc = "start", !.child = links.free],
         UNCHANGED <<vfs, user>>
  PROVE  RInv'
<1>s. /\ RThreads /\ RTasks /\ RVfs /\ Typed /\ IInv BY RTypes DEF RInv
<1>0. PICK c : c = links.free OBVIOUS
<1>1. /\ c \in Pid /\ state[c] = "none"
  BY <1>0, <1>s, FreeHead DEF CreateInit, Is
<1>2. /\ \A p : ~User(p)
      /\ state[SYSTEM] = "ready" /\ state[VFS] # "none"
      /\ c \notin {SYSTEM, VFS, IDLE}
      /\ user[c] = Resume("init", "vfs", NONE)
  BY Nobody, <1>1, <1>s DEF RVfs, Typed, CreateInit, Running
<1>3. /\ vfs' = vfs /\ user' = user /\ sys'.pc = "start" /\ sys'.child = c
      /\ \A p \in Pid : state'[p] = IF p = c THEN "blocked" ELSE state[p]
      /\ \A p \in Pid : uid'[p] = IF p = c THEN ROOT ELSE uid[p]
      /\ \A p \in Pid : ops'[p] = IF p = c THEN {} ELSE ops[p]
      /\ \A p \in Pid : m_from'[p] = IF p = c THEN NONE ELSE m_from[p]
      /\ \A p \in Pid : m_to'[p] = IF p = c THEN NONE ELSE m_to[p]
      /\ \A p \in Pid : d0'[p] = IF p = c THEN 0 ELSE d0[p]
      /\ \A p \in Pid : msg'[p] = IF p = c THEN NoMsg ELSE msg[p]
  BY <1>0, <1>s DEF CreateInit, Fresh, Typed, RThreads
<1>4. /\ \A p \in Pid : IsTask(p) /\ (p # c => IsTask(p)') /\ ROOT # KERNEL
      /\ ~IsTask(c)'
  BY <1>s, <1>1, <1>3 DEF RTasks, RTask, IsTask, ROOT, KERNEL
<1>5. \A p : User(p)' <=> p = c BY <1>1, <1>3, <1>4 DEF User
<1>6. RThreads' BY <1>s, <1>0, <1>1 DEF RThreads
<1>7. RTasks' BY <1>s, <1>2, <1>3, <1>4 DEF RTasks, RTask
<1>8. RVfs' BY <1>s, <1>2, <1>3, <1>4, Who DEF RVfs
<1>9. RSys' BY <1>1, <1>2, <1>3, Who DEF RSys, Held
<1>10. /\ \A p : ~Forker(p)' /\ ~ForkHeld(p)'
       /\ \A k : ~SysHolds(k)'
  BY <1>3 DEF Forker, ForkHeld, Held, SysHolds
<1>11. /\ state'[c] = "blocked" /\ ~user'[c].in /\ user'[c].pc = "vfs" /\ user'[c].kid = NONE
       /\ m_from'[c] # SYSTEM /\ m_to'[c] # SYSTEM
  BY <1>1, <1>2, <1>3, Who DEF Resume
<1>12. RUsers' BY <1>5, <1>11 DEF RUsers, RUser, Answered
<1>13. \A p, k : ~Holds(p, k)' BY <1>5, <1>11 DEF Holds, Answered
<1>14. RForks' /\ RHolds' BY <1>10, <1>13 DEF RForks, RFork, RHolds
<1>. QED BY <1>6, <1>7, <1>8, <1>9, <1>12, <1>14 DEF RInv

LEMMA RBootStart ==
  ASSUME RInv, IInv', SysAt("start"), StartInit(sys.child), SysGo("recv"),
         UNCHANGED <<vfs, user>>
  PROVE  RInv'
<1>s. RSys /\ Typed BY RTypes DEF RInv
<1>1. /\ sys.child \in Pid /\ sys.pc = "start" /\ state[SYSTEM] = "ready"
  BY <1>s DEF RSys, SysAt, Running
<1>2. /\ ProcSig(links, state, sys.child, "alrm")
      /\ UNCHANGED <<uid, ops, msg, vfs, user>> /\ sys' = [sys EXCEPT !.pc = "recv"]
  BY DEF StartInit, SysGo
<1>. QED BY <1>1, <1>2, <1>s, Disturbs DEF Typed

LEMMA RSysBoot ==
  ASSUME RInv, IInv', SysBoot
  PROVE  RInv'
BY RBootServer, RBootInit, RBootStart DEF SysBoot, SysAt

\* The system task goes on by itself, with no request or with the one it has.
LEMMA SysMoves ==
  ASSUME RInv, IInv', UNCHANGED <<vars, vfs, user>>, RThreads', RSys',
         sys.pc = "got", sys'.pc # "got", sys'.pc \notin {"boot", "init"},
         \A p \in Pid : Forker(p)' => Forker(p),
         \A c : SysHolds(c)' => SysHolds(c)
  PROVE  RInv'
<1>s. /\ RThreads /\ RTasks /\ RVfs /\ RSys /\ RUsers /\ RForks /\ RHolds
  BY DEF RInv
<1>1. /\ state' = state /\ m_from' = m_from /\ m_to' = m_to /\ d0' = d0
      /\ msg' = msg /\ ops' = ops /\ uid' = uid /\ vfs' = vfs /\ user' = user
  BY DEF vars, ipc
<1>2. \A x : (User(x)' <=> User(x)) /\ IsTask(x)' = IsTask(x) BY <1>1 DEF User, IsTask
<1>3. RTasks' /\ RVfs' BY <1>1, <1>2, <1>s DEF RTasks, RTask, RVfs, IsTask
<1>4. \A x \in Pid : ~ForkHeld(x)' BY DEF ForkHeld, Held
<1>5. ASSUME NEW x \in Pid, User(x) PROVE Mild(x)
  BY <1>1, <1>4 DEF Mild
<1>6. RUsers' /\ RForks' /\ RHolds' BY <1>2, <1>4, <1>5, Milds
<1>. QED BY <1>3, <1>6 DEF RInv

LEMMA RSysReset ==
  ASSUME RInv, IInv', SysReset
  PROVE  RInv'
<1>s. RThreads /\ RSys BY DEF RInv
<1>1. /\ sys.pc = "got" /\ sys' = [sys EXCEPT !.pc = "reset"] /\ state' = state
      /\ state[SYSTEM] = "ready" /\ UNCHANGED <<vars, vfs, user>>
  BY DEF SysReset, SysAt, Running, SysGo, vars
<1>2. RThreads' /\ sys'.pc = "reset" BY <1>1, <1>s DEF RThreads
<1>3. /\ RSys' /\ \A p : ~Forker(p)' /\ \A c : ~SysHolds(c)'
  BY <1>1, <1>2 DEF RSys, Forker, ForkHeld, Held, SysHolds
<1>. QED BY <1>1, <1>2, <1>3, SysMoves

LEMMA RSysIllegal ==
  ASSUME RInv, IInv', SysIllegal
  PROVE  RInv'
<1>s. RThreads /\ RSys BY DEF RInv
<1>1. /\ sys.pc = "got" /\ sys' = [sys EXCEPT !.pc = "recv"] /\ state' = state
      /\ state[SYSTEM] = "ready" /\ UNCHANGED <<vars, vfs, user>>
  BY DEF SysIllegal, SysGot, SysAt, Running, SysGo, vars
<1>2. RThreads' /\ sys'.pc = "recv" BY <1>1, <1>s DEF RThreads
<1>3. /\ RSys' /\ \A p : ~Forker(p)' /\ \A c : ~SysHolds(c)'
  BY <1>1, <1>2 DEF RSys, Forker, ForkHeld, Held, SysHolds
<1>. QED BY <1>1, <1>2, <1>3, SysMoves

\* The system task has a request, and it is of this type.
LEMMA Has ==
  ASSUME RInv, NEW t \in Calls, SysGot(t)
  PROVE  /\ Held /\ sys.pc = "got" /\ state[SYSTEM] = "ready" /\ ops[SYSTEM] = {}
         /\ d0[SYSTEM] \in Pid /\ User(d0[SYSTEM]) /\ msg[SYSTEM].type = t
         /\ msg[SYSTEM] \in [type : Calls \ {"vfs"}, pid : Pid \cup {NONE}]
<1>s. RSys /\ Typed BY RTypes DEF RInv
<1>1. /\ sys.pc = "got" /\ state[SYSTEM] = "ready" /\ ops[SYSTEM] = {}
      /\ d0[SYSTEM] >= 0 /\ msg[SYSTEM].type = t
  BY DEF SysGot, SysAt, Running
<1>2. d0[SYSTEM] \in Pid
  <2>1. d0[SYSTEM] \in Pid \cup {ELOCK, EABORT} BY <1>s, Who DEF Typed
  <2>. QED BY <2>1, <1>1 DEF ELOCK, EABORT
<1>3. Held BY <1>1, <1>2 DEF Held
<1>. QED BY <1>1, <1>2, <1>3, <1>s DEF RSys

\* It takes the request of p on, whose child is of no concern, or known.
LEMMA RSysDecides ==
  ASSUME RInv, IInv', NEW t \in {"fork", "exec", "kill"}, SysGot(t),
         NEW l \in {"vfs", "answer"}, NEW k \in Pid \cup {NONE}, Serve(l, t, k),
         UNCHANGED <<vars, vfs, user>>,
         t = "fork" => l = "answer" /\ k = NONE,
         t = "kill" => l = "vfs" /\ k = msg[SYSTEM].pid
  PROVE  RInv'
<1>s. RThreads /\ RSys BY DEF RInv
<1>1. /\ Held /\ sys.pc = "got" /\ state[SYSTEM] = "ready"
      /\ d0[SYSTEM] \in Pid /\ User(d0[SYSTEM]) /\ msg[SYSTEM].type = t
  BY Has DEF Calls
<1>2. /\ sys' = [pc |-> l, from |-> d0[SYSTEM], req |-> t, child |-> k]
      /\ state' = state /\ uid' = uid
  BY DEF Serve, vars
<1>3. RThreads' /\ sys'.pc = l /\ sys'.from = d0[SYSTEM] /\ sys'.req = t /\ sys'.child = k
  <2>1. t \in Requests BY DEF Requests
  <2>. QED BY <2>1, <1>1, <1>2, <1>s DEF RThreads
<1>4. \A x : User(x)' <=> User(x) BY <1>2 DEF User, IsTask
<1>5. RSys'
  <2>1. t = "kill" => k # d0[SYSTEM] BY <1>1, <1>s DEF RSys
  <2>2. t = "fork" => k \notin {0, d0[SYSTEM]} BY <1>1, Who
  <2>. QED BY <2>1, <2>2, <1>1, <1>2, <1>3, <1>4 DEF RSys, Held
<1>6. \A p \in Pid : Forker(p)' => Forker(p)
  <2>1. ASSUME NEW p \in Pid, Forker(p)' PROVE Forker(p)
    <3>1. t = "fork" /\ p \in {d0[SYSTEM], NONE} BY <2>1, <1>3 DEF Forker, ForkHeld, Held
    <3>2. p = d0[SYSTEM] => ForkHeld(p) BY <3>1, <1>1 DEF ForkHeld
    <3>. QED BY <3>1, <3>2, Who DEF Forker
  <2>. QED BY <2>1
<1>7. \A c : SysHolds(c)' => SysHolds(c)
  BY <1>1, <1>3 DEF SysHolds, Held
<1>8. sys'.pc # "got" /\ sys'.pc \notin {"boot", "init"} BY <1>3
<1>. QED BY <1>1, <1>3, <1>5, <1>6, <1>7, <1>8, SysMoves

LEMMA RSysForkFails ==
  ASSUME RInv, IInv', SysForkFails
  PROVE  RInv'
<1>1. SysGot("fork") /\ Serve("answer", "fork", NONE) /\ UNCHANGED <<vars, vfs, user>>
  BY DEF SysForkFails
<1>. QED BY <1>1, RSysDecides

LEMMA RSysExec ==
  ASSUME RInv, IInv', SysExec
  PROVE  RInv'
<1>1. /\ SysGot("exec") /\ UNCHANGED <<vars, vfs, user>>
      /\ Serve("vfs", "exec", d0[SYSTEM]) \/ Serve("answer", "exec", NONE)
  BY DEF SysExec
<1>2. d0[SYSTEM] \in Pid BY <1>1, Has DEF Calls
<1>. QED BY <1>1, <1>2, RSysDecides

LEMMA RSysKill ==
  ASSUME RInv, IInv', SysKill
  PROVE  RInv'
<1>1. SysGot("kill") /\ Serve("vfs", "kill", msg[SYSTEM].pid) /\ UNCHANGED <<vars, vfs, user>>
  BY DEF SysKill
<1>2. msg[SYSTEM] \in [type : Calls \ {"vfs"}, pid : Pid \cup {NONE}] BY <1>1, Has DEF Calls
<1>. QED BY <1>1, <1>2, RSysDecides

LEMMA RSysExit ==
  ASSUME RInv, IInv', SysExit
  PROVE  RInv'
<1>s. Typed BY RTypes DEF RInv
<1>1. SysGot("exit") /\ Exit(d0[SYSTEM]) /\ SysGo("recv") /\ UNCHANGED <<vfs, user>>
  BY DEF SysExit
<1>2. PICK p : p = d0[SYSTEM] OBVIOUS
<1>3. p \in Pid /\ User(p) /\ state[SYSTEM] = "ready" /\ sys.pc = "got"
  BY <1>1, <1>2, Has DEF Calls
<1> DEFINE st == [state EXCEPT ![p] = "stopped"]
<1>4. st \in [Pid -> States] /\ st[p] = "stopped" /\ \A x \in Pid : x # p => st[x] = state[x]
  BY <1>3, <1>s DEF Typed, States
<1>5. PICK L : ProcSig(L, st, ppid[p], "child") BY <1>1, <1>2 DEF Exit, ProcExit
<1>6. ppid[p] \in Pid BY <1>3, <1>s DEF Typed
<1>7. UNCHANGED <<uid, ops, msg, vfs, user>> /\ sys' = [sys EXCEPT !.pc = "recv"]
  BY <1>1 DEF Exit, ProcExit, SysGo
<1>8. sys'.pc = "recv" BY <1>7 DEF RInv, RThreads
<1> HIDE DEF st
<1>. QED BY <1>3, <1>4, <1>5, <1>6, <1>7, <1>8, Disturbs

LEMMA RSysWait ==
  ASSUME RInv, IInv', SysWait
  PROVE  RInv'
<1>s. /\ RThreads /\ RTasks /\ RVfs /\ RSys /\ RUsers /\ RForks /\ RHolds /\ Typed
  BY RTypes DEF RInv
<1>1. SysGot("wait") /\ WaitChild(d0[SYSTEM]) /\ SysGo("recv") /\ UNCHANGED <<vfs, user>>
  BY DEF SysWait
<1>2. PICK p : p = d0[SYSTEM] OBVIOUS
<1>3. p \in Pid /\ User(p) /\ state[SYSTEM] = "ready" /\ sys.pc = "got"
  BY <1>1, <1>2, Has DEF Calls
<1>4. p # SYSTEM /\ p # VFS BY <1>3, <1>s, UserNoTask
<1>5. /\ state' = state /\ d0' = d0 /\ msg' = msg /\ ops' = ops /\ uid' = uid
      /\ vfs' = vfs /\ user' = user /\ sys' = [sys EXCEPT !.pc = "recv"] /\ sys'.pc = "recv"
      /\ m_from'[p] = NONE /\ m_to'[p] = NONE
      /\ \A x \in Pid : x # p => m_from'[x] = m_from[x] /\ m_to'[x] = m_to[x]
  BY <1>1, <1>2, <1>3, <1>s DEF WaitChild, SysGo, Typed, RThreads
<1>6. \A x : (User(x)' <=> User(x)) /\ IsTask(x)' = IsTask(x) BY <1>5 DEF User, IsTask
<1>7. RThreads' BY <1>5, <1>s DEF RThreads
<1>8. RTasks' /\ RVfs'
  BY <1>3, <1>4, <1>5, <1>6, <1>s, Who DEF RTasks, RTask, RVfs
<1>9. /\ RSys'
      /\ \A x : ~Forker(x)' /\ ~ForkHeld(x)'
      /\ \A c : ~SysHolds(c)'
  BY <1>3, <1>5 DEF RSys, Forker, ForkHeld, Held, SysHolds
<1>10. ASSUME NEW x \in Pid, User(x) PROVE Mild(x)
  BY <1>5, <1>9, Who DEF Mild
<1>11. RUsers' /\ RForks' /\ RHolds' BY <1>6, <1>9, <1>10, Milds
<1>. QED BY <1>7, <1>8, <1>9, <1>11 DEF RInv

\* The call to the server before the answer, whether it is served at once,
\* waited for or refused.
LEMMA RSysCallVfs ==
  ASSUME RInv, IInv', SysCallVfs
  PROVE  RInv'
<1>s. /\ RThreads /\ RTasks /\ RVfs /\ RSys /\ RUsers /\ RForks /\ RHolds /\ Typed
  BY RTypes DEF RInv
<1> DEFINE m == Request("vfs", sys.child)
           l == IF sys.req = "kill" THEN "kill" ELSE "answer"
<1>1. /\ sys.pc = "vfs" /\ Running(SYSTEM) /\ state[SYSTEM] = "ready"
      /\ Call(SYSTEM, VFS, m) /\ sys' = [sys EXCEPT !.pc = l] /\ vfs' = vfs /\ user' = user
  BY DEF SysCallVfs, SysAt, Running, SysGo
<1> HIDE DEF m
<1>2. /\ uid' = uid
      /\ \A x \in Pid : x \notin {SYSTEM, VFS} =>
           /\ state'[x] = state[x] /\ m_from'[x] = m_from[x] /\ m_to'[x] = m_to[x]
           /\ d0'[x] = d0[x] /\ msg'[x] = msg[x]
      /\ \A x \in Pid : x # SYSTEM => ops'[x] = ops[x]
      /\ state'[SYSTEM] = "ready" \/ (state'[SYSTEM] = "blocked" /\ m_from'[SYSTEM] = VFS)
      /\ \/ /\ state[VFS] = "blocked" /\ state'[VFS] = "ready" /\ m_from'[VFS] = SYSTEM
            /\ d0'[VFS] = SYSTEM /\ m_to'[VFS] = m_to[VFS]
         \/ /\ state'[VFS] = state[VFS] /\ m_from'[VFS] = m_from[VFS] /\ d0'[VFS] = d0[VFS]
            /\ m_to'[VFS] = m_to[VFS] /\ msg'[VFS] = msg[VFS]
  <2>1. CASE SendLocked(SYSTEM, VFS, m)
    BY <2>1, <1>1, <1>s, Who DEF SendLocked, Typed
  <2>2. CASE Wait(SYSTEM, VFS, {SEND, RECV}, m)
    <3>1. IsTask(SYSTEM) BY <1>s DEF Typed, IsTask
    <3>2. CASE Accepts(VFS, SYSTEM)
      BY <2>2, <3>1, <3>2, <1>1, <1>s, Who DEF Wait, Accepts, Typed, SEND, RECV
    <3>3. CASE ~Accepts(VFS, SYSTEM)
      BY <2>2, <3>1, <3>3, <1>1, <1>s, Who DEF Wait, Typed, SEND, RECV
    <3>. QED BY <3>2, <3>3
  <2>. QED BY <2>1, <2>2, <1>1 DEF Call
<1>3. /\ RThreads' /\ sys'.pc = l /\ sys'.from = sys.from /\ sys'.req = sys.req
      /\ sys'.child = sys.child /\ l \in {"kill", "answer"}
  BY <1>1, <1>s DEF RThreads
<1>4. \A x \in Pid : state'[x] = "none" <=> state[x] = "none"
  BY <1>1, <1>2
<1>5. \A x : (User(x)' <=> User(x)) /\ IsTask(x)' = IsTask(x)
  BY <1>2, <1>4 DEF User, IsTask
<1>6. RTasks'
  BY <1>2, <1>3, <1>4, <1>5, <1>1, <1>s DEF RTasks, RTask
<1>7. RVfs'
  <2>1. /\ IsTask(VFS) /\ (state[VFS] # "none")
        /\ \A x \in {d0[VFS], m_from[VFS], m_to[VFS]} : x # VFS /\ x # IDLE
        /\ state[VFS] = "blocked" /\ m_to[VFS] # NONE => msg[VFS] = Answer("vfs", 0)
    BY <1>1, <1>s DEF RVfs
  <2>2. {d0'[VFS], m_from'[VFS], m_to'[VFS]} \cap {VFS, IDLE} = {}
    BY <2>1, <1>2, Who
  <2>3. state'[VFS] # "none" /\ IsTask(VFS)' BY <2>1, <1>4, <1>5, Who
  <2>4. state'[VFS] = "blocked" /\ m_to'[VFS] # NONE => msg'[VFS] = Answer("vfs", 0)
    BY <2>1, <1>2
  <2>. QED BY <2>2, <2>3, <2>4 DEF RVfs
<1>8. RSys'
  BY <1>1, <1>2, <1>3, <1>5, <1>s DEF RSys, Held
<1>9. /\ \A x : (Forker(x)' => Forker(x)) /\ ~ForkHeld(x)'
      /\ \A c : SysHolds(c)' => SysHolds(c)
  BY <1>1, <1>3 DEF Forker, ForkHeld, Held, SysHolds
<1>10. ASSUME NEW x \in Pid, User(x) PROVE Mild(x)
  <2>1. x \notin {SYSTEM, VFS} BY <1>10, <1>s, UserNoTask
  <2>. QED BY <2>1, <1>1, <1>2, <1>9 DEF Mild
<1>11. RUsers' /\ RForks' /\ RHolds' BY <1>5, <1>9, <1>10, Milds
<1>. QED BY <1>3, <1>6, <1>7, <1>8, <1>11 DEF RInv

\* What the system task is about to free is a process.
LEMMA KillsChild ==
  ASSUME RInv, sys.pc = "kill"
  PROVE  User(sys.child) /\ sys.req = "kill" /\ \A p \in Pid : ~Holds(p, sys.child)
<1>s. RThreads /\ RSys /\ RHolds BY DEF RInv
<1>1. sys.child \in Pid \cup {NONE} /\ sys.req = "kill" BY <1>s DEF RThreads, RSys
<1>2. SysHolds(sys.child) BY <1>1 DEF SysHolds
<1>. QED BY <1>1, <1>2, <1>s DEF RHolds

\* The process that is killed is one, is not the one that asked, and nobody
\* has it killed again.
LEMMA RSysKillEnds ==
  ASSUME RInv, IInv', SysKillEnds
  PROVE  RInv'
<1>s. /\ RThreads /\ RTasks /\ RVfs /\ RSys /\ RUsers /\ RForks /\ RHolds /\ Typed
  BY RTypes DEF RInv
<1>1. /\ sys.pc = "kill" /\ sys.req = "kill" /\ state[SYSTEM] = "ready"
      /\ Kill(sys.child) /\ sys' = [sys EXCEPT !.pc = "answer"] /\ vfs' = vfs /\ user' = user
  BY <1>s DEF SysKillEnds, SysAt, Running, SysGo, RSys
<1>2. PICK k : k = sys.child OBVIOUS
<1>4. /\ k \in Pid /\ User(k) /\ k \notin {SYSTEM, VFS, IDLE} /\ User(sys.from) /\ sys.from # k
      /\ \A p \in Pid : ~Holds(p, k)
  <2>1. User(k) /\ \A p \in Pid : ~Holds(p, k) BY <1>1, <1>2, KillsChild
  <2>. QED BY <2>1, <1>1, <1>2, <1>s, UserNoTask DEF RSys
<1>5. /\ m_from' = m_from /\ m_to' = m_to /\ d0' = d0 /\ msg' = msg /\ ops' = ops /\ uid' = uid
      /\ state'[k] = "none" /\ \A x \in Pid : x # k => state'[x] = state[x]
  BY <1>1, <1>2, <1>4, <1>s DEF Kill, ipc, Typed
<1>6. /\ RThreads' /\ sys'.pc = "answer" /\ sys'.from = sys.from /\ sys'.req = "kill"
      /\ sys'.child = k
  BY <1>1, <1>2, <1>s DEF RThreads
<1>7. \A x : (User(x)' <=> User(x) /\ x # k) /\ IsTask(x)' = IsTask(x)
  BY <1>4, <1>5 DEF User, IsTask
<1>8. RTasks' /\ RVfs'
  <2>1. ~IsTask(k) BY <1>4 DEF User
  <2>2. RTasks' BY <2>1, <1>1, <1>4, <1>5, <1>6, <1>7, <1>s DEF RTasks, RTask
  <2>3. RVfs' BY <1>1, <1>4, <1>5, <1>7, <1>s, Who DEF RVfs
  <2>. QED BY <2>2, <2>3
<1>9. state'[SYSTEM] = "ready" BY <1>1, <1>4, <1>5, Who
<1>10. RSys'
  BY <1>2, <1>4, <1>6, <1>7, <1>9, <1>1, <1>s DEF RSys, Held
<1>11. /\ \A x : ~Forker(x)' /\ ~ForkHeld(x)'
       /\ \A c : ~SysHolds(c)'
  BY <1>6 DEF Forker, ForkHeld, Held, SysHolds
<1>12. \A x : User(x)' => (Answered(x)' <=> Answered(x)) /\ state'[x] = state[x]
  BY <1>1, <1>5, <1>7 DEF Answered, User
<1>13. RUsers'
  BY <1>1, <1>5, <1>7, <1>12, <1>s DEF RUsers, RUser
<1>14. \A x, c : Holds(x, c)' => Holds(x, c)
  BY <1>1, <1>5, <1>7, <1>12 DEF Holds
<1>15. RForks' BY <1>11 DEF RForks, RFork
<1>16. RHolds'
  <2>1. \A x \in Pid, c \in Pid \cup {NONE} : Holds(x, c)' => User(c)' /\ c # x /\ ~SysHolds(c)'
    BY <1>4, <1>7, <1>11, <1>14, <1>s DEF RHolds
  <2>2. \A c : ~SysHolds(c)' BY <1>11
  <2>3. \A p, q \in Pid, c \in Pid : Holds(p, c)' /\ Holds(q, c)' => p = q
    BY <1>14, <1>s DEF RHolds
  <2>. QED BY <2>1, <2>2, <2>3 DEF RHolds
<1>. QED BY <1>6, <1>8, <1>10, <1>13, <1>15, <1>16 DEF RInv


\* A process that waits to be heard by the system task is the server, that
\* answers, or a program in a call.
LEMMA RWhoSends ==
  ASSUME RInv, NEW s \in Pid, state[s] = "blocked", m_to[s] = SYSTEM, s # SYSTEM
  PROVE  \/ s = VFS /\ msg[s] = Answer("vfs", 0)
         \/ /\ User(s) /\ m_from[s] = SYSTEM /\ user[s].in /\ user[s].pc \in Calls \ {"vfs"}
            /\ msg[s] = Request(user[s].pc, user[s].kid)
<1>s. RTasks /\ RVfs /\ RUsers /\ Typed BY RTypes DEF RInv
<1>1. CASE User(s) BY <1>1, <1>s DEF RUsers, RUser
<1>2. CASE ~User(s)
  <2>1. s \in {SYSTEM, VFS, IDLE} BY <1>2, <1>s DEF RTasks, RTask, User
  <2>. QED BY <2>1, <1>s, Who DEF Typed, RVfs
<1>. QED BY <1>1, <1>2

\* The system task takes what the lowest sender has to say.
LEMMA RSysTakes ==
  ASSUME RInv, IInv', SysAt("recv"), RecvNow(SYSTEM), SysGo("got"), UNCHANGED <<vfs, user>>
  PROVE  RInv'
<1>s. /\ RThreads /\ RTasks /\ RVfs /\ RSys /\ RUsers /\ RForks /\ RHolds /\ Typed
  BY RTypes DEF RInv
<1>0. /\ sys.pc = "recv" /\ state[SYSTEM] = "ready" /\ ops[SYSTEM] = {}
      /\ sys' = [sys EXCEPT !.pc = "got"] /\ vfs' = vfs /\ user' = user
  BY DEF SysAt, Running, SysGo
<1>1. PICK s \in Senders(SYSTEM) :
        /\ state' = IF OnlySends(s) THEN [state EXCEPT ![s] = "ready"] ELSE state
        /\ m_from' = [m_from EXCEPT ![SYSTEM] = NONE]
        /\ m_to' = [m_to EXCEPT ![s] = NONE, ![SYSTEM] = NONE]
        /\ d0' = [d0 EXCEPT ![s] = SYSTEM, ![SYSTEM] = s]
        /\ msg' = [msg EXCEPT ![SYSTEM] = msg[s]]
        /\ ops' = ops /\ uid' = uid
  BY DEF RecvNow
<1>2. s \in Pid /\ state[s] = "blocked" /\ m_to[s] = SYSTEM /\ s # SYSTEM
  BY <1>0, <1>1 DEF Senders
<1>3. /\ \A x \in Pid : x \notin {SYSTEM, s} =>
           /\ state'[x] = state[x] /\ m_from'[x] = m_from[x] /\ m_to'[x] = m_to[x]
           /\ d0'[x] = d0[x] /\ msg'[x] = msg[x]
      /\ state'[s] = IF m_from[s] = NONE THEN "ready" ELSE "blocked"
      /\ m_from'[s] = m_from[s] /\ m_to'[s] = NONE /\ d0'[s] = SYSTEM /\ msg'[s] = msg[s]
      /\ state'[SYSTEM] = "ready" /\ d0'[SYSTEM] = s /\ msg'[SYSTEM] = msg[s]
      /\ ops' = ops /\ uid' = uid
  BY <1>0, <1>1, <1>2, <1>s, Who DEF Typed, OnlySends
<1>4. RThreads' /\ sys'.pc = "got" BY <1>0, <1>s DEF RThreads
<1>5. \A x \in Pid : state'[x] = "none" <=> state[x] = "none" BY <1>0, <1>2, <1>3
<1>6. \A x : (User(x)' <=> User(x)) /\ IsTask(x)' = IsTask(x) BY <1>3, <1>5 DEF User, IsTask
<1>7. RTasks' BY <1>0, <1>3, <1>4, <1>5, <1>6, <1>s DEF RTasks, RTask
<1>8. RVfs'
  <2>1. /\ IsTask(VFS) /\ (state[VFS] # "none")
        /\ \A x \in {d0[VFS], m_from[VFS], m_to[VFS]} : x # VFS /\ x # IDLE
        /\ state[VFS] = "blocked" /\ m_to[VFS] # NONE => msg[VFS] = Answer("vfs", 0)
    BY <1>0, <1>s DEF RVfs
  <2>2. /\ m_from'[VFS] = m_from[VFS] /\ d0'[VFS] \in {d0[VFS], SYSTEM}
        /\ m_to'[VFS] \in {m_to[VFS], NONE} /\ msg'[VFS] = msg[VFS]
        /\ state'[VFS] = "blocked" => state[VFS] = "blocked"
    BY <1>2, <1>3, Who
  <2>3. {d0'[VFS], m_from'[VFS], m_to'[VFS]} \cap {VFS, IDLE} = {}
    BY <2>1, <2>2, Who
  <2>4. state'[VFS] # "none" /\ IsTask(VFS)' BY <2>1, <1>5, <1>6, Who
  <2>5. state'[VFS] = "blocked" /\ m_to'[VFS] # NONE => msg'[VFS] = Answer("vfs", 0)
    BY <2>1, <2>2
  <2>. QED BY <2>3, <2>4, <2>5 DEF RVfs
<1>9. /\ \A x : ~Forker(x) /\ ~ForkHeld(x)
      /\ \A c : ~SysHolds(c)
  BY <1>0 DEF Forker, ForkHeld, Held, SysHolds
<1>10. CASE s = VFS /\ msg[s] = Answer("vfs", 0)
  <2>1. ~Held' BY <1>3, <1>10 DEF Held, Answer, Calls
  <2>2. /\ RSys'
        /\ \A x : ~Forker(x)' /\ ~ForkHeld(x)'
        /\ \A c : ~SysHolds(c)'
    BY <2>1, <1>0, <1>3, <1>4 DEF RSys, Forker, ForkHeld, SysHolds
  <2>3. ASSUME NEW x \in Pid, User(x) PROVE Mild(x)
    <3>1. x \notin {SYSTEM, s} BY <1>10, <2>3, <1>s, UserNoTask
    <3>. QED BY <3>1, <2>2, <1>0, <1>3 DEF Mild
  <2>4. RUsers' /\ RForks' /\ RHolds' BY <2>2, <2>3, <1>6, Milds
  <2>. QED BY <2>2, <2>4, <1>4, <1>7, <1>8 DEF RInv
<1>11. CASE /\ User(s) /\ m_from[s] = SYSTEM /\ user[s].in /\ user[s].pc \in Calls \ {"vfs"}
            /\ msg[s] = Request(user[s].pc, user[s].kid)
  <2> DEFINE m == Request(user[s].pc, user[s].kid)
  <2>0. state'[s] = "blocked" BY <1>3, <1>11, Who
  <2>1. m \in [type : Calls \ {"vfs"}, pid : Pid \cup {NONE}]
    <3>1. user[s].kid \in Pid \cup {NONE} BY <1>2, <1>s DEF RThreads
    <3>. QED BY <3>1, <1>11 DEF Request
  <2>2. m.type = "kill" => m.pid # s
    <3>1. user[s].pc = "kill" => Holds(s, user[s].kid) BY <1>2, <1>11 DEF Holds
    <3>. QED BY <3>1, <1>2, HeldChild DEF Request
  <2>3. m.type = user[s].pc /\ m.pid = user[s].kid /\ msg'[SYSTEM] = m
    BY <1>3, <1>11 DEF Request
  <2> HIDE DEF m
  <2>4. RSys'
    BY <2>1, <2>2, <2>3, <1>0, <1>2, <1>3, <1>4, <1>6, <1>11 DEF RSys
  <2>5. \A x : Forker(x)' => x = s /\ user[s].pc = "fork"
    BY <2>3, <1>3, <1>4 DEF Forker, ForkHeld
  <2>6. ~Answered(s)' BY <2>0 DEF Answered
  <2>7. RFork(s)' BY <2>0, <2>5, <2>6, <1>0 DEF RFork
  <2>8. RUser(s)'
    <3>1. RUser(s) BY <1>2, <1>11, <1>s DEF RUsers
    <3>. QED BY <3>1, <2>0, <2>6, <1>0, <1>2, <1>3, Who DEF RUser
  <2>9. \A c : Holds(s, c)' => user[s].pc = "wait" /\ Holds(s, c)
    BY <2>0, <2>6, <1>0, <1>2, <1>3, <1>11, Who DEF Holds
  <2>10. \A c : SysHolds(c)' => Holds(s, c) /\ user[s].pc = "kill"
    <3>1. \A c : SysHolds(c)' => user[s].pc = "kill" /\ user[s].kid = c
      BY <2>3, <1>4 DEF SysHolds
    <3>. QED BY <3>1, <1>2, <1>11 DEF Holds
  <2>11. ASSUME NEW x \in Pid, User(x), x # s PROVE Mild(x)
    <3>1. x \notin {SYSTEM, s} BY <2>11, <1>s, UserNoTask
    <3>2. ~ForkHeld(x)' BY <2>5, <2>11 DEF Forker
    <3>. QED BY <3>1, <3>2, <1>0, <1>3 DEF Mild
  <2>12. \A x \in Pid : x # s => ~Forker(x)' /\ ~ForkHeld(x)' BY <2>5 DEF Forker
  <2>13. RUsers' /\ RForks' /\ RHolds'
    BY <2>7, <2>8, <2>9, <2>10, <2>11, <2>12, <1>2, <1>6, <1>11, MildsBut
  <2>. QED BY <2>4, <2>13, <1>4, <1>7, <1>8 DEF RInv
<1>. QED BY <1>2, <1>10, <1>11, RWhoSends

\* It waits for somebody, or finds that a signal is pending.
LEMMA RSysListens ==
  ASSUME RInv, IInv', SysAt("recv"), Wait(SYSTEM, ANY, {RECV}, NoMsg), SysGo("got"),
         UNCHANGED <<vfs, user>>
  PROVE  RInv'
<1>s. /\ RThreads /\ RTasks /\ RVfs /\ RSys /\ RUsers /\ RForks /\ RHolds /\ Typed
  BY RTypes DEF RInv
<1>0. /\ sys.pc = "recv" /\ state[SYSTEM] = "ready" /\ IsTask(SYSTEM)
      /\ sys' = [sys EXCEPT !.pc = "got"] /\ vfs' = vfs /\ user' = user
  BY <1>s DEF SysAt, Running, SysGo, Typed, IsTask
<1>1. /\ \A x \in Pid : x # SYSTEM =>
           /\ state'[x] = state[x] /\ m_from'[x] = m_from[x] /\ m_to'[x] = m_to[x]
           /\ d0'[x] = d0[x] /\ msg'[x] = msg[x] /\ ops'[x] = ops[x]
      /\ ops'[SYSTEM] = {RECV} /\ m_to'[SYSTEM] = NONE /\ uid' = uid
      /\ \/ state'[SYSTEM] = "ready" /\ d0'[SYSTEM] = EABORT /\ m_from'[SYSTEM] = NONE
         \/ state'[SYSTEM] = "blocked" /\ m_from'[SYSTEM] = ANY
  BY <1>0, <1>s, Who DEF Wait, Typed, SEND, RECV
<1>2. RThreads' /\ sys'.pc = "got" BY <1>0, <1>s DEF RThreads
<1>3. \A x \in Pid : state'[x] = "none" <=> state[x] = "none" BY <1>0, <1>1
<1>4. \A x : (User(x)' <=> User(x)) /\ IsTask(x)' = IsTask(x) BY <1>1, <1>3 DEF User, IsTask
<1>5. RTasks' BY <1>0, <1>1, <1>2, <1>3, <1>4, <1>s DEF RTasks, RTask
<1>6. RVfs' BY <1>0, <1>1, <1>4, <1>s, Who DEF RVfs
<1>7. ~Held' BY <1>1, Who DEF Held
<1>8. /\ RSys'
      /\ \A x : ~Forker(x)' /\ ~ForkHeld(x)'
      /\ \A c : ~SysHolds(c)'
  BY <1>1, <1>2, <1>7 DEF RSys, Forker, ForkHeld, SysHolds
<1>9. ASSUME NEW x \in Pid, User(x) PROVE Mild(x)
  <2>1. x # SYSTEM BY <1>9, <1>s, UserNoTask
  <2>. QED BY <2>1, <1>0, <1>1, <1>8 DEF Mild
<1>10. RUsers' /\ RForks' /\ RHolds' BY <1>4, <1>8, <1>9, Milds
<1>. QED BY <1>2, <1>5, <1>6, <1>8, <1>10 DEF RInv

LEMMA RSysReceive ==
  ASSUME RInv, IInv', SysReceive
  PROVE  RInv'
BY RSysTakes, RSysListens DEF SysReceive, Receive


\* The child is in the call its parent is in, has nothing of its own yet, and
\* is in the hand of the system task.
LEMMA RSysFork ==
  ASSUME RInv, IInv', SysFork
  PROVE  RInv'
<1>s. /\ RThreads /\ RTasks /\ RVfs /\ RSys /\ RUsers /\ RForks /\ RHolds /\ Typed /\ IInv
  BY RTypes DEF RInv
<1>0. /\ SysGot("fork") /\ Fork(d0[SYSTEM]) /\ Serve("vfs", "fork", links.free)
      /\ user' = [user EXCEPT ![links.free] = user[d0[SYSTEM]]] /\ vfs' = vfs
  BY DEF SysFork
<1>1. PICK p : p = d0[SYSTEM] OBVIOUS
<1>2. PICK c : c = links.free OBVIOUS
<1>3. /\ Held /\ sys.pc = "got" /\ state[SYSTEM] = "ready"
      /\ p \in Pid /\ User(p) /\ ForkHeld(p)
  BY <1>0, <1>1, Has DEF Calls, ForkHeld
<1>4. /\ c \in Pid /\ state[c] = "none"
  BY <1>0, <1>2, <1>s, FreeHead DEF Fork, Is
<1>5. /\ c \notin {SYSTEM, VFS, IDLE} /\ c # p /\ p \notin {SYSTEM, VFS, IDLE}
      /\ ~User(c) /\ ops[c] = {}
  BY <1>3, <1>4, <1>s, UserNoTask DEF RVfs, Typed, User, RTasks, RTask
<1>6. /\ sys' = [pc |-> "vfs", from |-> p, req |-> "fork", child |-> c]
      /\ sys'.pc = "vfs" /\ sys'.from = p /\ sys'.req = "fork" /\ sys'.child = c
  BY <1>0, <1>1, <1>2 DEF Serve
<1>7. /\ ops' = ops
      /\ \A x \in Pid : state'[x] = IF x = c THEN "blocked" ELSE state[x]
      /\ \A x \in Pid : uid'[x] = IF x = c THEN uid[p] ELSE uid[x]
      /\ \A x \in Pid : m_from'[x] = IF x = c THEN m_from[p] ELSE m_from[x]
      /\ \A x \in Pid : m_to'[x] = IF x = c THEN m_to[p] ELSE m_to[x]
      /\ \A x \in Pid : d0'[x] = IF x = c THEN d0[p] ELSE d0[x]
      /\ \A x \in Pid : msg'[x] = IF x = c THEN msg[p] ELSE msg[x]
      /\ \A x \in Pid : user'[x] = IF x = c THEN user[p] ELSE user[x]
  BY <1>0, <1>1, <1>2, <1>s DEF Fork, Typed
<1>8. /\ \A x \in Pid : x # c => (IsTask(x)' <=> IsTask(x))
      /\ ~IsTask(p) /\ ~IsTask(c)'
  BY <1>3, <1>4, <1>7 DEF IsTask, User
<1>9. \A x : User(x)' <=> User(x) \/ x = c
  BY <1>4, <1>5, <1>7, <1>8 DEF User
<1>10. RThreads'
  <2>1. user' \in [Pid -> [prog : {"init", "shell", "leaf"}, pc : Calls \cup {"none"},
                           in : BOOLEAN, kid : Pid \cup {NONE}]]
    BY <1>0, <1>1, <1>2, <1>3, <1>4, <1>s DEF RThreads
  <2>. QED BY <2>1, <1>0, <1>3, <1>4, <1>6, <1>s DEF RThreads, Requests
<1>11. RTasks'
  BY <1>3, <1>5, <1>6, <1>7, <1>8, <1>s DEF RTasks, RTask
<1>12. RVfs'
  <2>1. IsTask(VFS)' BY <1>5, <1>8, <1>s, Who DEF RVfs
  <2>2. /\ state'[VFS] = state[VFS] /\ m_from'[VFS] = m_from[VFS] /\ m_to'[VFS] = m_to[VFS]
        /\ d0'[VFS] = d0[VFS] /\ msg'[VFS] = msg[VFS]
    BY <1>5, <1>7, Who
  <2>. QED BY <2>1, <2>2, <1>3, <1>s DEF RVfs
<1>13. RSys'
  <2>1. state'[SYSTEM] = "ready" BY <1>3, <1>5, <1>7, Who
  <2>. QED BY <2>1, <1>3, <1>5, <1>6, <1>9, Who DEF RSys, Held
<1>14. /\ \A x : Forker(x)' => x \in {p, c}
       /\ \A x : ~ForkHeld(x)'
       /\ \A k : SysHolds(k)' => k = c
  BY <1>6 DEF Forker, ForkHeld, Held, SysHolds
<1>15. /\ RUser(p) /\ RFork(p) /\ Forker(p)
  BY <1>3, <1>s DEF RUsers, RForks, Forker
<1>16. /\ user[p].pc \in {"fork", "vfs", "exit", "none"}
       /\ ~(Answered(p) /\ user[p].pc = "fork")
       /\ SYSTEM \in {m_from[p], m_to[p]} => state[p] = "blocked"
  BY <1>3, <1>15 DEF RFork
<1>17. \A x \in Pid : x # c => Answered(x)' = Answered(x)
  BY <1>7 DEF Answered
<1>18. ~Answered(c)' BY <1>4, <1>7 DEF Answered
<1>19. RUsers'
  <2>1. ASSUME NEW x \in Pid, User(x), x # c PROVE RUser(x)'
    <3>1. RUser(x) BY <2>1, <1>s DEF RUsers
    <3>. QED BY <3>1, <2>1, <1>7, <1>17 DEF RUser
  <2>2. RUser(c)'
    <3>1. /\ state'[c] = "blocked" /\ m_from'[c] = m_from[p] /\ m_to'[c] = m_to[p]
          /\ msg'[c] = msg[p] /\ user'[c] = user[p]
      BY <1>4, <1>7
    <3>. QED BY <3>1, <1>15, <1>16, <1>18 DEF RUser
  <2>. QED BY <2>1, <2>2, <1>9 DEF RUsers
<1>20. RForks'
  <2>1. RFork(p)' BY <1>3, <1>5, <1>7, <1>14, <1>16, <1>17 DEF RFork
  <2>2. RFork(c)' BY <1>4, <1>7, <1>14, <1>16, <1>18 DEF RFork
  <2>3. ASSUME NEW x \in Pid, x \notin {p, c} PROVE RFork(x)'
    BY <2>3, <1>14 DEF RFork
  <2>. QED BY <2>1, <2>2, <2>3 DEF RForks
<1>21. ASSUME NEW x \in Pid, NEW k, Holds(x, k)' PROVE x # c /\ Holds(x, k)
  <2>1. x # c
    <3>1. user'[c].pc \notin {"wait", "kill"} BY <1>4, <1>7, <1>16
    <3>. QED BY <3>1, <1>18, <1>21 DEF Holds
  <2>2. User(x) BY <2>1, <1>9, <1>21 DEF Holds
  <2>. QED BY <2>1, <2>2, <1>7, <1>17, <1>21 DEF Holds
<1>22. RHolds'
  <2>1. \A x \in Pid, k \in Pid \cup {NONE} : Holds(x, k)' => User(k)' /\ k # x /\ ~SysHolds(k)'
    BY <1>5, <1>9, <1>14, <1>21, <1>s DEF RHolds
  <2>2. \A k \in Pid \cup {NONE} : SysHolds(k)' => User(k)' BY <1>9, <1>14
  <2>3. \A x, y \in Pid, k \in Pid : Holds(x, k)' /\ Holds(y, k)' => x = y
    BY <1>21, <1>s DEF RHolds
  <2>. QED BY <2>1, <2>2, <2>3 DEF RHolds
<1>. QED BY <1>10, <1>11, <1>12, <1>13, <1>19, <1>20, <1>22 DEF RInv

\* The system task answers p, who takes the answer or does not.
LEMMA RReplies ==
  ASSUME RInv, IInv', Running(SYSTEM), NEW p \in Pid, User(p),
         NEW r, NEW v \in Pid \cup {NONE}, Send(SYSTEM, p, Answer(r, v)),
         NEW l \in {"child", "recv"}, SysGo(l), UNCHANGED <<vfs, user>>,
         sys.pc \notin {"boot", "init", "got"},
         l = "child" => User(sys.child) /\ Forker(sys.child) /\ sys.child # p,
         user[p].pc = "exec" => v \in {0, NONE},
         v \notin {0, NONE} => SysHolds(v) /\ v # p
  PROVE  RInv'
<1>s. /\ RThreads /\ RTasks /\ RVfs /\ RSys /\ RUsers /\ RForks /\ RHolds /\ Typed
  BY RTypes DEF RInv
<1> DEFINE m == Answer(r, v)
<1> HIDE DEF m
<1>0. p \notin {SYSTEM, VFS, IDLE} BY <1>s, UserNoTask
<1>1. /\ state[SYSTEM] = "ready" /\ IsTask(SYSTEM)
      /\ sys' = [sys EXCEPT !.pc = l] /\ vfs' = vfs /\ user' = user
  BY <1>s DEF Running, SysGo, Typed, IsTask
<1>2. RThreads' /\ sys'.pc = l /\ sys'.child = sys.child BY <1>1, <1>s DEF RThreads
<1>3. /\ uid' = uid
      /\ \A x \in Pid : x \notin {SYSTEM, p} =>
           /\ state'[x] = state[x] /\ m_from'[x] = m_from[x] /\ m_to'[x] = m_to[x]
           /\ d0'[x] = d0[x] /\ msg'[x] = msg[x]
      /\ \A x \in Pid : x # SYSTEM => ops'[x] = ops[x]
      /\ state'[SYSTEM] = "ready" \/ (state'[SYSTEM] = "blocked" /\ m_from'[SYSTEM] = NONE)
      /\ \/ /\ state[p] = "blocked" /\ m_from[p] \in {SYSTEM, ANY}
            /\ state'[p] = "ready" /\ m_from'[p] = SYSTEM
            /\ d0'[p] = SYSTEM /\ msg'[p] = m
         \/ /\ state'[p] = state[p] /\ m_from'[p] = m_from[p] /\ d0'[p] = d0[p]
            /\ m_to'[p] = m_to[p] /\ msg'[p] = msg[p]
  <2>0. Send(SYSTEM, p, m) BY DEF m
  <2>1. CASE SendNow(SYSTEM, p, m)
    BY <2>1, <1>0, <1>1, <1>s, Who DEF SendNow, Accepts, Typed
  <2>2. CASE SendLocked(SYSTEM, p, m)
    BY <2>2, <1>0, <1>1, <1>s, Who DEF SendLocked, Typed
  <2>3. CASE Wait(SYSTEM, p, {SEND}, m)
    <3>1. ~(SEND \in {SEND} /\ Accepts(p, SYSTEM)) BY <2>3 DEF Wait
    <3>. QED BY <2>3, <3>1, <1>0, <1>1, <1>s, Who DEF Wait, Typed, SEND, RECV
  <2>. QED BY <2>0, <2>1, <2>2, <2>3 DEF Send
<1>4. \A x \in Pid : state'[x] = "none" <=> state[x] = "none" BY <1>1, <1>3
<1>5. \A x : (User(x)' <=> User(x)) /\ IsTask(x)' = IsTask(x) BY <1>3, <1>4 DEF User, IsTask
<1>6. RTasks' BY <1>1, <1>2, <1>3, <1>4, <1>5, <1>s DEF RTasks, RTask
<1>7. RVfs'
  <2>1. /\ state'[VFS] = state[VFS] /\ m_from'[VFS] = m_from[VFS] /\ m_to'[VFS] = m_to[VFS]
        /\ d0'[VFS] = d0[VFS] /\ msg'[VFS] = msg[VFS]
    BY <1>0, <1>3, Who
  <2>. QED BY <2>1, <1>2, <1>5, <1>s DEF RVfs
<1>8. RSys' BY <1>2, <1>3, <1>5 DEF RSys, Held
<1>9. /\ \A x : Forker(x)' => Forker(x) /\ x # p
      /\ \A x : ~ForkHeld(x)'
      /\ \A c : ~SysHolds(c)'
  BY <1>2 DEF Forker, ForkHeld, Held, SysHolds
<1>10. ASSUME NEW x \in Pid, User(x), x # p PROVE Mild(x)
  <2>1. x \notin {SYSTEM, p} BY <1>10, <1>s, UserNoTask
  <2>. QED BY <2>1, <1>1, <1>3, <1>9 DEF Mild
<1>11. RUser(p) BY <1>s DEF RUsers
<1>12. RFork(p)' BY <1>9 DEF RFork
<1>13. CASE /\ state[p] = "blocked" /\ m_from[p] \in {SYSTEM, ANY}
            /\ state'[p] = "ready" /\ m_from'[p] = SYSTEM /\ d0'[p] = SYSTEM /\ msg'[p] = m
  <2>1. m.val = v BY DEF m, Answer
  <2>2. RUser(p)' BY <2>1, <1>1, <1>11, <1>13 DEF RUser
  <2>3. \A c : Holds(p, c)' => Holds(p, c) \/ (SysHolds(c) /\ c # p)
    BY <2>1, <1>1, <1>13 DEF Holds, Answered
  <2>. QED BY <2>2, <2>3, <1>2, <1>5, <1>6, <1>7, <1>8, <1>9, <1>10, <1>12, MildsBut DEF RInv
<1>14. CASE /\ state'[p] = state[p] /\ m_from'[p] = m_from[p] /\ d0'[p] = d0[p]
            /\ m_to'[p] = m_to[p] /\ msg'[p] = msg[p]
  <2>1. Mild(p) BY <1>1, <1>9, <1>14 DEF Mild
  <2>2. RUsers' /\ RForks' /\ RHolds' BY <2>1, <1>5, <1>9, <1>10, Milds
  <2>. QED BY <2>2, <1>2, <1>6, <1>7, <1>8 DEF RInv
<1>. QED BY <1>3, <1>13, <1>14

LEMMA RSysAnswer ==
  ASSUME RInv, IInv', SysAnswer
  PROVE  RInv'
<1>s. /\ RThreads /\ RSys /\ RForks /\ RHolds BY DEF RInv
<1>1. /\ sys.pc = "answer" /\ Running(SYSTEM) /\ UNCHANGED <<vfs, user>>
      /\ User(sys.from) /\ sys.from \in Pid /\ sys.child \in Pid \cup {NONE}
      /\ sys.req \in {"fork", "exec", "kill"}
  BY <1>s DEF SysAnswer, SysAt, RSys, RThreads, User
<1>2. PICK v : /\ Send(SYSTEM, sys.from, Answer(sys.req, v))
               /\ sys.req = "fork" => v = sys.child
               /\ sys.req # "fork" => v \in {0, NONE}
  <2>1. CASE sys.req = "fork" BY <2>1, Zenon DEF SysAnswer
  <2>2. CASE sys.req = "exec" BY <2>2, Zenon DEF SysAnswer
  <2>3. CASE sys.req = "kill" BY <2>3, Zenon DEF SysAnswer
  <2>. QED BY <2>1, <2>2, <2>3, <1>1
<1>3. v \in Pid \cup {NONE} BY <1>1, <1>2, Who
<1>4. PICK l \in {"child", "recv"} :
        SysGo(l) /\ (l = "child" => sys.req = "fork" /\ sys.child # NONE)
  BY DEF SysAnswer
<1>5. sys.req = "fork" /\ sys.child # NONE =>
        SysHolds(sys.child) /\ User(sys.child) /\ sys.child # sys.from /\ Forker(sys.child)
  <2>1. sys.req = "fork" /\ sys.child # NONE => SysHolds(sys.child) BY <1>1 DEF SysHolds
  <2>. QED BY <2>1, <1>1, <1>s DEF RHolds, RSys, Forker
<1>6. user[sys.from].pc = "exec" => v \in {0, NONE}
  <2>1. sys.req = "fork" => Forker(sys.from) BY <1>1 DEF Forker
  <2>2. sys.req = "fork" => user[sys.from].pc # "exec" BY <2>1, <1>1, <1>s DEF RForks, RFork
  <2>. QED BY <2>2, <1>1, <1>2
<1>7. v \notin {0, NONE} => SysHolds(v) /\ v # sys.from BY <1>1, <1>2, <1>5
<1>. QED BY <1>1, <1>2, <1>3, <1>4, <1>5, <1>6, <1>7, RReplies

LEMMA RSysAnswerChild ==
  ASSUME RInv, IInv', SysAnswerChild
  PROVE  RInv'
<1>s. RSys BY DEF RInv
<1>1. /\ sys.pc = "child" /\ Running(SYSTEM) /\ UNCHANGED <<vfs, user>>
      /\ User(sys.child) /\ sys.child \in Pid
      /\ Send(SYSTEM, sys.child, Answer("fork", 0)) /\ SysGo("recv")
  BY <1>s DEF SysAnswerChild, SysAt, RSys, User
<1>. QED BY <1>1, Who, RReplies

LEMMA RSystemTask ==
  ASSUME RInv, IInv', SystemTask
  PROVE  RInv'
BY RSysBoot, RSysReceive, RSysReset, RSysIllegal, RSysExit, RSysWait, RSysFork,
   RSysForkFails, RSysExec, RSysKill, RSysCallVfs, RSysKillEnds, RSysAnswer,
   RSysAnswerChild DEF SystemTask


LEMMA RVfsTask ==
  ASSUME RInv, IInv', VfsTask
  PROVE  RInv'
<1>s. RVfs /\ Typed BY RTypes DEF RInv
<1>1. Running(VFS) /\ UNCHANGED <<sys, user>> BY DEF VfsTask
<1>2. CASE Receive(VFS) /\ vfs' = "got" BY <1>1, <1>2, RVfsReceives
<1>3. CASE d0[VFS] >= 0 /\ vfs' = "recv" /\ Send(VFS, d0[VFS], Answer("vfs", 0))
  <2>1. d0[VFS] \in Pid \cup {ELOCK, EABORT} BY <1>s, Who DEF Typed
  <2>2. d0[VFS] \in Pid BY <1>3, <2>1 DEF ELOCK, EABORT
  <2>. QED BY <1>1, <1>3, <2>2, RVfsSends
<1>. QED BY <1>2, <1>3 DEF VfsTask

-----------------------------------------------------------------------------
(* Every step is a step of the kernel.                                     *)

LEMMA KernelStep ==
  /\ \A p \in Pid : \A m \in Msg : UserCall(p, m) \/ TaskCall(p, m) => Next
  /\ \A p \in Pid : TaskReturn(p) \/ Lifecycle(p) \/ Alarm(p) \/ Fault(p) => Next
  /\ SysIrq \/ SysIrqEnd \/ CreateInit \/ CreateTask(VFS) => Next
<1>1. ASSUME NEW p \in Pid, NEW m \in Msg, UserCall(p, m) \/ TaskCall(p, m) PROVE Next
  BY <1>1, Zenon DEF Next
<1>2. ASSUME NEW p \in Pid, TaskReturn(p) \/ Lifecycle(p) \/ Alarm(p) \/ Fault(p) PROVE Next
  <2>1. CASE TaskReturn(p) BY <2>1, Zenon DEF Next
  <2>2. CASE Lifecycle(p) BY <2>2, Zenon DEF Next
  <2>3. CASE Alarm(p) BY <2>3, Zenon DEF Next
  <2>4. CASE Fault(p) BY <2>4, Zenon DEF Next
  <2>. QED BY <1>2, <2>1, <2>2, <2>3, <2>4
<1>3. ASSUME SysIrq \/ SysIrqEnd \/ CreateInit \/ CreateTask(VFS) PROVE Next
  BY <1>3, Who, Zenon DEF Next
<1>. QED BY <1>1, <1>2, <1>3

LEMMA ServerCalls ==
  ASSUME Typed, NEW t \in {SYSTEM, VFS}, NEW m \in Msg, NEW q \in Pid,
         \/ Receive(t)
         \/ Send(t, q, m) /\ q # t /\ q # IDLE
         \/ Call(t, q, m) /\ q = VFS /\ t = SYSTEM
  PROVE  Next
<1>1. IsTask(t) /\ t # IDLE /\ t \in Pid BY Who DEF IsTask, Typed
<1>2. TaskCall(t, m) BY <1>1, Who DEF TaskCall
<1>. QED BY <1>1, <1>2, KernelStep

\* Each message of the protocol is one.
LEMMA Messages ==
  /\ NoMsg \in Msg
  /\ \A t \in Requests : \A p \in Pid \cup {NONE} : Request(t, p) \in Msg /\ Answer(t, p) \in Msg
BY MessageAssumption DEF Message, Request, Answer, Requests

LEMMA SystemTaskSteps ==
  ASSUME RInv, SystemTask
  PROVE  [Next]_vars
<1>s. /\ RThreads /\ RSys /\ RHolds /\ Typed
  BY RTypes DEF RInv
<1>1. CASE SysBoot
  <2>1. CASE SysAt("start") /\ StartInit(sys.child)
    <3>1. sys.child \in Pid BY <2>1, <1>s DEF SysAt, RSys
    <3>. QED BY <2>1, <3>1, KernelStep DEF Lifecycle
  <2>2. CASE CreateTask(VFS) \/ CreateInit BY <2>2, KernelStep
  <2>. QED BY <1>1, <2>1, <2>2 DEF SysBoot
<1>2. CASE SysReceive
  BY <1>2, <1>s, ServerCalls, Messages, Who DEF SysReceive
<1>3. CASE SysReset \/ SysIllegal \/ SysForkFails \/ SysExec \/ SysKill
  BY <1>3 DEF SysReset, SysIllegal, SysForkFails, SysExec, SysKill
<1>4. CASE SysExit \/ SysWait \/ SysFork
  <2>1. PICK t \in Calls : SysGot(t) BY <1>4 DEF SysExit, SysWait, SysFork, Calls
  <2>2. d0[SYSTEM] \in Pid BY <2>1, Has
  <2>3. Lifecycle(d0[SYSTEM]) BY <1>4 DEF SysExit, SysWait, SysFork, Lifecycle
  <2>. QED BY <2>2, <2>3, KernelStep
<1>5. CASE SysCallVfs
  <2>1. Request("vfs", sys.child) \in Msg
    BY <1>s, Messages DEF RThreads, Requests
  <2>2. Call(SYSTEM, VFS, Request("vfs", sys.child)) BY <1>5 DEF SysCallVfs
  <2>. QED BY <2>1, <2>2, <1>s, ServerCalls, Who
<1>6. CASE SysKillEnds
  <2>1. sys.child \in Pid BY <1>6, KillsChild DEF SysKillEnds, SysAt, User
  <2>2. Lifecycle(sys.child) BY <1>6 DEF SysKillEnds, Lifecycle
  <2>. QED BY <2>1, <2>2, KernelStep
<1>7. CASE SysAnswer
  <2>1. sys.pc = "answer" BY <1>7 DEF SysAnswer, SysAt
  <2>2. /\ User(sys.from) /\ sys.req \in {"fork", "exec", "kill"}
        /\ sys.child \in Pid \cup {NONE}
    BY <2>1, <1>s DEF RSys, RThreads
  <2>3. sys.from \in Pid /\ sys.from # SYSTEM /\ sys.from # IDLE
    BY <2>2, <1>s, UserNoTask
  <2>4. PICK v : /\ Send(SYSTEM, sys.from, Answer(sys.req, v))
                 /\ v \in {sys.child, 0, NONE}
    <3>1. CASE sys.req = "fork" BY <1>7, <3>1, Zenon DEF SysAnswer
    <3>2. CASE sys.req = "exec" BY <1>7, <3>2, Zenon DEF SysAnswer
    <3>3. CASE sys.req = "kill" BY <1>7, <3>3, Zenon DEF SysAnswer
    <3>. QED BY <2>2, <3>1, <3>2, <3>3
  <2>5. Answer(sys.req, v) \in Msg BY <2>2, <2>4, Messages, Who DEF Requests
  <2>. QED BY <2>3, <2>4, <2>5, <1>s, ServerCalls
<1>8. CASE SysAnswerChild
  <2>1. sys.pc = "child" BY <1>8 DEF SysAnswerChild, SysAt
  <2>2. User(sys.child) BY <2>1, <1>s DEF RSys
  <2>3. sys.child \in Pid /\ sys.child # SYSTEM /\ sys.child # IDLE
    BY <2>2, <1>s, UserNoTask
  <2>4. Answer("fork", 0) \in Msg BY Who, Messages DEF Requests
  <2>5. Send(SYSTEM, sys.child, Answer("fork", 0)) BY <1>8 DEF SysAnswerChild
  <2>. QED BY <2>3, <2>4, <2>5, <1>s, ServerCalls
<1>. QED BY <1>1, <1>2, <1>3, <1>4, <1>5, <1>6, <1>7, <1>8 DEF SystemTask

\* Every step of the kernel and its processes is a step of the kernel alone.
LEMMA SystemSteps ==
  ASSUME RInv, [SystemNext]_svars
  PROVE  [Next]_vars
<1>s. /\ RThreads /\ RVfs /\ Typed
  BY RTypes DEF RInv
<1>1. CASE UNCHANGED svars BY <1>1 DEF svars
<1>2. CASE Interrupt BY <1>2, KernelStep DEF Interrupt
<1>3. CASE SystemTask BY <1>3, SystemTaskSteps
<1>4. CASE VfsTask
  <2>1. CASE Receive(VFS) BY <2>1, <1>s, ServerCalls, Messages, Who
  <2>2. CASE d0[VFS] >= 0 /\ Send(VFS, d0[VFS], Answer("vfs", 0))
    <3>1. Answer("vfs", 0) \in Msg BY Who, Messages DEF Requests
    <3>2. d0[VFS] \in Pid \cup {ELOCK, EABORT} BY <1>s, Who DEF Typed
    <3>3. d0[VFS] \in Pid BY <2>2, <3>2 DEF ELOCK, EABORT
    <3>4. d0[VFS] # VFS /\ d0[VFS] # IDLE BY <1>s DEF RVfs
    <3>. QED BY <2>2, <3>1, <3>3, <3>4, <1>s, ServerCalls
  <2>. QED BY <1>4, <2>1, <2>2 DEF VfsTask
<1>5. CASE CtrlAltDel BY <1>5, KernelStep, Who DEF CtrlAltDel
<1>6. ASSUME NEW p \in Pid, TaskBack(p) PROVE Next BY <1>6, KernelStep DEF TaskBack
<1>7. ASSUME NEW p \in Pid, UserProgram(p) PROVE [Next]_vars
  <2>1. CASE UserReturns(p) \/ ShellEnds(p) BY <2>1 DEF UserReturns, ShellEnds
  <2>2. CASE UserCalls(p)
    <3>1. Request(user[p].pc, user[p].kid) \in Msg
      BY <1>s, Messages DEF RThreads, Requests, Calls
    <3>2. Callee(user[p].pc) \in TaskPids \cup {SYSTEM} BY Who DEF Callee
    <3>. QED BY <2>2, <3>1, <3>2, KernelStep DEF UserCalls, UserCall
  <2>. QED BY <1>7, <2>1, <2>2 DEF UserProgram
<1>8. ASSUME NEW p \in Pid, LeafFaults(p) PROVE Next BY <1>8, KernelStep DEF LeafFaults
<1>. QED BY <1>1, <1>2, <1>3, <1>4, <1>5, <1>6, <1>7, <1>8 DEF SystemNext

LEMMA InitRInv == SystemInit => RInv
<1> SUFFICES ASSUME SystemInit PROVE RInv
  OBVIOUS
<1>1. IInv BY InitIInv DEF SystemInit
<1>2. /\ sys = [pc |-> "boot", from |-> NONE, req |-> "none", child |-> NONE]
      /\ vfs = "recv"
      /\ user = [p \in Pid |-> Resume("init", "vfs", NONE)]
      /\ \A p \in Pid : /\ state[p] = IF p \in {SYSTEM, IDLE} THEN "ready" ELSE "none"
                        /\ uid[p] = KERNEL /\ ops[p] = {}
                        /\ d0[p] = 0 /\ m_from[p] = 0 /\ m_to[p] = 0
  BY DEF SystemInit, Init
<1>3. \A p : ~User(p) BY <1>2 DEF User, IsTask
<1>4. RThreads BY <1>2 DEF RThreads, Resume, Requests, Calls
<1>5. RTasks BY <1>2, Who DEF RTasks, RTask, IsTask
<1>6. RVfs
  <2>1. {d0[VFS], m_from[VFS], m_to[VFS]} \cap {VFS, IDLE} = {} BY <1>2, Who
  <2>2. state[VFS] = "none" /\ IsTask(VFS) BY <1>2, Who DEF IsTask
  <2>. QED BY <1>2, <2>1, <2>2 DEF RVfs
<1>7. RSys BY <1>2, Who DEF RSys, Held
<1>8. /\ \A p : ~Forker(p) /\ ~ForkHeld(p)
      /\ \A c : ~SysHolds(c)
  BY <1>2 DEF Forker, ForkHeld, Held, SysHolds
<1>9. RUsers /\ RForks /\ RHolds
  BY <1>3, <1>8 DEF RUsers, RForks, RFork, RHolds, Holds
<1>. QED BY <1>1, <1>4, <1>5, <1>6, <1>7, <1>9 DEF RInv

LEMMA NextRInv ==
  ASSUME RInv, [SystemNext]_svars
  PROVE  RInv'
<1>1. IInv' BY SystemSteps, NextIInv DEF RInv
<1>2. CASE UNCHANGED svars
  BY <1>1, <1>2, RIdles DEF svars, vars, ipc, proto
<1>3. CASE Interrupt
  BY <1>1, <1>3, RIdles DEF Interrupt, SysIrq, SysIrqEnd, ipc, proto
<1>4. CASE SystemTask BY <1>1, <1>4, RSystemTask
<1>5. CASE VfsTask BY <1>1, <1>5, RVfsTask
<1>6. CASE CtrlAltDel BY <1>1, <1>6, RAlarm
<1>7. ASSUME NEW p \in Pid, TaskBack(p) PROVE RInv'
  BY <1>1, <1>7, RTaskBack DEF TaskBack
<1>8. ASSUME NEW p \in Pid, UserProgram(p) PROVE RInv'
  BY <1>1, <1>8, RUserCalls, RUserReturns, RShellEnds DEF UserProgram
<1>9. ASSUME NEW p \in Pid, LeafFaults(p) PROVE RInv' BY <1>1, <1>9, RLeafFaults
<1>. QED BY <1>2, <1>3, <1>4, <1>5, <1>6, <1>7, <1>8, <1>9 DEF SystemNext

\* The inductive invariant of the system, whatever signals arrive, whatever
\* programs take an exception and whenever a child ends.
THEOREM DisturbedInvariance == SystemSpec => []RInv
<1>1. RInv /\ [SystemNext]_svars => RInv' BY NextRInv
<1>. QED BY <1>1, InitRInv, PTL DEF SystemSpec

\* The programs make no step that the kernel does not have: the system with
\* its processes implements the kernel that serves arbitrary ones, so all
\* that is proved of Proc holds of it.
THEOREM SystemImplementsProc == SystemSpec => Spec
<1>1. SystemInit => Init BY DEF SystemInit
<1>2. RInv /\ [SystemNext]_svars => [Next]_vars BY SystemSteps
<1>. QED BY <1>1, <1>2, DisturbedInvariance, PTL DEF SystemSpec, Spec

\* The system task never frees a slot that is free already, even when signals
\* cut calls short and answers go astray.
THEOREM KillsOnceTheorem == SystemSpec => []KillsOnce
<1>1. ASSUME RInv PROVE KillsOnce
  <2>1. ASSUME SysAt("kill") PROVE sys.child # NONE /\ state[sys.child] # "none"
    BY <1>1, <2>1, KillsChild, Who DEF SysAt, User
  <2>. QED BY <2>1 DEF KillsOnce
<1>. QED BY <1>1, DisturbedInvariance, PTL

-----------------------------------------------------------------------------
(* Who can be disturbed.  A process is signalled by a child that stops,    *)
(* and only the child it is about to wait for, or waits for, can do that:  *)
(* all the others have stopped, or are blocked for good.                   *)

\* A pending signal makes every call give up: such a process never blocks.
Masked(p) == sig_mask[p] # {}
Off(p)    == Masked(p) /\ state[p] = "ready"

\* The server is blocked answering a program, which never listens.
VfsStuck == state[VFS] = "blocked" /\ m_to[VFS] \notin {NONE, SYSTEM}

\* c has stopped, and is not on the CPU to fault again, or is blocked and
\* nobody but a child of its own could release it.
Inert(c) ==
  \/ state[c] = "stopped" /\ cur # c
  \/ /\ state[c] = "blocked" /\ m_from[c] = NONE
     /\ m_to[c] = NONE \/ (m_to[c] = VFS /\ VfsStuck)
     /\ user[c].pc \notin {"wait", "kill"}

\* p is inside this call and waits for the answer of the system task.
Pend(p, call) ==
  /\ User(p) /\ state[p] = "blocked" /\ user[p].in /\ user[p].pc = call
  /\ m_from[p] = SYSTEM /\ m_to[p] = NONE /\ ~Masked(p)

\* A copy of p would be inert.
GaveUp(p) == m_from[p] = NONE /\ (m_to[p] = VFS => VfsStuck)

FUser(p) ==
  /\ {m_from[p], m_to[p]} \subseteq {NONE, SYSTEM, VFS}
  /\ state[p] = "blocked" /\ m_to[p] = VFS => m_from[p] \in {NONE, VFS}
  /\ state[p] = "blocked" /\ VFS \in {m_from[p], m_to[p]} => user[p].pc \notin {"wait", "kill"}
  /\ sig_mask[p] \subseteq {"child"}
  /\ user[p].prog = "leaf" => user[p].pc \in {"vfs", "exit", "none"}
  /\ Masked(p) =>
       /\ user[p].prog # "leaf" /\ user[p].pc # "exec"
       /\ ~(Answered(p) /\ user[p].pc = "fork" /\ msg[p].val = 0)
       /\ state[p] = "blocked" => Inert(p)
  /\ SYSTEM \in Senders(p) => Off(p) \/ Inert(p)

\* No process has the server for a parent, so that no signal releases it.
FVfs ==
  /\ \A p \in Pid : ppid[p] # VFS
  /\ state[VFS] = "blocked" => IF vfs = "got" THEN m_from[VFS] = ANY /\ m_to[VFS] = NONE
                                              ELSE m_from[VFS] = NONE /\ m_to[VFS] \in Pid

\* Whose request the system task is at waits for it, or has given up at once.
FSys ==
  /\ Held /\ msg[SYSTEM].type # "wait" =>
       \/ Pend(d0[SYSTEM], msg[SYSTEM].type)
       \/ /\ Off(d0[SYSTEM])
          /\ msg[SYSTEM].type = "fork" => GaveUp(d0[SYSTEM])
  /\ sys.pc \in {"vfs", "kill", "answer"} => Pend(sys.from, sys.req) \/ Off(sys.from)
  /\ sys.pc \in {"vfs", "answer"} /\ sys.req = "fork" /\ sys.child # NONE =>
       ppid[sys.child] = sys.from /\ (Pend(sys.child, "fork") \/ Inert(sys.child))
  /\ sys.pc = "child" => Pend(sys.child, "fork") \/ Inert(sys.child)
  /\ sys.pc = "start" => User(sys.child) /\ Inert(sys.child) /\ user[sys.child].pc = "vfs"
  /\ Held /\ msg[SYSTEM].type = "kill" /\ msg[SYSTEM].pid # NONE => Inert(msg[SYSTEM].pid)
  /\ sys.pc \in {"vfs", "kill"} /\ sys.req = "kill" => Inert(sys.child)

\* p knows c from fork, and waits for it or goes on to.
Parent(p, c) ==
  /\ User(p)
  /\ \/ user[p].pc = "wait" /\ user[p].kid = c
     \/ Answered(p) /\ user[p].pc = "fork" /\ msg[p].val = c

Awaits(p, c) ==
  /\ Parent(p, c) /\ ~Masked(p)
  /\ state[p] = "blocked" \/ (state[p] = "ready" /\ (user[p].pc = "wait" => ~user[p].in))

Forking(p, c) ==
  sys.pc \in {"vfs", "answer"} /\ sys.req = "fork" /\ sys.from = p /\ sys.child = c

\* The child that is not inert is being forked, is known to the parent, which
\* is not masked and in wait or before it, or has just signalled it.
FChild(c) ==
  ppid[c] # SYSTEM /\ ~Inert(c) =>
    \/ Forking(ppid[c], c) /\ Pend(ppid[c], "fork")
    \/ Awaits(ppid[c], c)
    \/ /\ Parent(ppid[c], c) /\ state[ppid[c]] = "ready"
       /\ state[c] = "stopped" /\ cur = c

FHolds ==
  \A p \in Pid, c \in Pid : Holds(p, c) =>
    ppid[c] = p /\ (user[p].pc = "kill" => Inert(c))

FUsers  == \A p \in Pid : User(p) => FUser(p)
FFamily == \A p \in Pid : User(p) => FChild(p)

FInv == RInv /\ FVfs /\ FSys /\ FUsers /\ FFamily /\ FHolds

-----------------------------------------------------------------------------
(* What most steps do to most user processes.                              *)

Still(x) ==
  /\ state'[x] = state[x] /\ m_from'[x] = m_from[x] /\ m_to'[x] = m_to[x]
  /\ d0'[x] = d0[x] /\ msg'[x] = msg[x]

\* The file system server has taken the request of x or answered it, or the
\* system task has taken its request.
Served(x) ==
  /\ state[x] = "blocked" /\ ~Inert(x) /\ ~(m_from[x] = SYSTEM /\ m_to[x] = NONE)
  /\ \/ state'[x] = "blocked" /\ m_from'[x] = m_from[x] /\ m_to'[x] = NONE
     \/ /\ state'[x] = "ready" /\ d0'[x] # SYSTEM /\ user[x].pc # "wait"
        /\ m_from'[x] \in {m_from[x], VFS} /\ m_to'[x] \in {m_to[x], NONE}

\* x waits for its child.
Cut(x) ==
  /\ state'[x] = state[x] /\ d0'[x] = d0[x] /\ msg'[x] = msg[x]
  /\ m_from'[x] = NONE /\ m_to'[x] = NONE

Calm(x) ==
  /\ user'[x] = user[x] /\ sig_mask'[x] = sig_mask[x] /\ uid'[x] = uid[x]
  /\ ppid'[x] = ppid[x]
  /\ Still(x) \/ Served(x) \/ Cut(x)

\* The server stays stuck, and who is dispatched is ready.
Steady ==
  /\ VfsStuck => VfsStuck'
  /\ cur' = cur \/ state'[cur'] = "ready"

LEMMA CalmKeeps ==
  ASSUME NEW x \in Pid, User(x), FUser(x), Calm(x), Steady,
         SYSTEM \in Senders(x)' => SYSTEM \in Senders(x) \/ Off(x) \/ Inert(x)
  PROVE  /\ User(x)' /\ FUser(x)'
         /\ Inert(x) => Inert(x)'
         /\ Off(x) => Off(x)'
         /\ \A c : Holds(x, c)' => Holds(x, c)
         /\ \A c : Parent(x, c) => Parent(x, c)'
         /\ \A c : Awaits(x, c) => Awaits(x, c)'
<1>c. /\ user'[x] = user[x] /\ sig_mask'[x] = sig_mask[x] /\ uid'[x] = uid[x]
      /\ Still(x) \/ Served(x) \/ Cut(x)
  BY DEF Calm
<1>1. User(x)' BY <1>c DEF User, IsTask, Still, Served, Cut
<1>2. Inert(x) => Inert(x)'
  <2>1. CASE state[x] = "stopped" /\ cur # x
    <3>1. state'[x] = "stopped" BY <2>1, <1>c DEF Still, Served, Cut
    <3>2. cur' # x BY <3>1, <2>1 DEF Steady
    <3>. QED BY <3>1, <3>2 DEF Inert
  <2>2. CASE state[x] = "blocked" /\ Inert(x)
    <3>1. state'[x] = "blocked" /\ m_from'[x] = NONE /\ m_to'[x] \in {NONE, m_to[x]}
      BY <2>2, <1>c DEF Still, Served, Cut, Inert
    <3>. QED BY <2>2, <3>1, <1>c DEF Inert, Steady
  <2>. QED BY <2>1, <2>2 DEF Inert
<1>3. Off(x) => Off(x)' BY <1>c DEF Off, Masked, Still, Served, Cut
<1>4. Answered(x)' => Answered(x) /\ msg'[x] = msg[x] BY <1>c DEF Answered, Still, Served, Cut
<1>5. state[x] = "ready" => state'[x] = "ready" /\ d0'[x] = d0[x] /\ msg'[x] = msg[x]
  BY <1>c DEF Still, Served, Cut
<1>6. ASSUME NEW c, Holds(x, c)' PROVE Holds(x, c)
  <2>1. state'[x] # "stopped" /\ state[x] # "stopped" BY <1>6, <1>c DEF Holds, Still, Served, Cut
  <2>2. state'[x] = "blocked" /\ m_to'[x] = SYSTEM => state[x] = "blocked" /\ m_to[x] = SYSTEM
    BY <1>c, Who DEF Still, Served, Cut
  <2>. QED BY <1>4, <1>6, <1>c, <2>1, <2>2 DEF Holds
<1>7. \A c : Parent(x, c) => Parent(x, c)' BY <1>1, <1>c, <1>5 DEF Parent, Answered
<1>8. ASSUME NEW c, Awaits(x, c) PROVE Awaits(x, c)'
  <2>1. Parent(x, c)' /\ ~Masked(x)' BY <1>7, <1>8, <1>c DEF Awaits, Masked
  <2>2. CASE state[x] = "ready" BY <2>1, <2>2, <1>5, <1>8, <1>c DEF Awaits
  <2>3. CASE state[x] = "blocked"
    <3>1. user[x].pc = "wait" BY <1>8, <2>3 DEF Awaits, Parent, Answered
    <3>2. state'[x] = "blocked" BY <2>3, <3>1, <1>c DEF Still, Served, Cut
    <3>. QED BY <2>1, <3>2 DEF Awaits
  <2>. QED BY <2>2, <2>3, <1>8 DEF Awaits
<1>9. SYSTEM \in Senders(x)' => Off(x)' \/ Inert(x)' BY <1>2, <1>3 DEF FUser
<1>10. FUser(x)'
  <2>1. Masked(x)' <=> Masked(x) BY <1>c DEF Masked
  <2>2. Masked(x)' /\ state'[x] = "blocked" => Inert(x)'
    <3>1. state'[x] = "blocked" => state[x] = "blocked" BY <1>c DEF Still, Served, Cut
    <3>. QED BY <2>1, <3>1, <1>2 DEF FUser
  <2>3. {m_from'[x], m_to'[x]} \subseteq {NONE, SYSTEM, VFS}
    BY <1>c DEF Still, Served, Cut, FUser
  <2>4. state'[x] = "blocked" /\ m_to'[x] = VFS => m_from'[x] \in {NONE, VFS}
    BY <1>c, Who DEF Still, Served, Cut, FUser
  <2>5. state'[x] = "blocked" /\ VFS \in {m_from'[x], m_to'[x]} =>
          user'[x].pc \notin {"wait", "kill"}
    BY <1>c, Who DEF Still, Served, Cut, FUser
  <2>6. Masked(x)' => user'[x].prog # "leaf" /\ user'[x].pc # "exec"
    BY <2>1, <1>c DEF FUser
  <2>7. Masked(x)' => ~(Answered(x)' /\ user'[x].pc = "fork" /\ msg'[x].val = 0)
    BY <2>1, <1>c, <1>4 DEF FUser
  <2>8. user'[x].prog = "leaf" => user'[x].pc \in {"vfs", "exit", "none"} BY <1>c DEF FUser
  <2>9. sig_mask'[x] \subseteq {"child"} BY <1>c DEF FUser
  <2>. QED BY <2>2, <2>3, <2>4, <2>5, <2>6, <2>7, <2>8, <2>9, <1>9 DEF FUser
<1>. QED BY <1>1, <1>2, <1>3, <1>6, <1>7, <1>8, <1>10

\* A step that leaves all but a few processes alone.
LEMMA FFrame ==
  ASSUME FInv, RInv', Steady, FVfs', FSys', NEW E,
         \A x \in Pid : User(x)' /\ x \notin E => User(x),
         \A x \in Pid : User(x) /\ x \notin E =>
           /\ Calm(x)
           /\ SYSTEM \in Senders(x)' => SYSTEM \in Senders(x) \/ Off(x) \/ Inert(x),
         \A p, c \in Pid : p \notin E /\ c \notin E /\ Forking(p, c) /\ Pend(p, "fork") =>
           Forking(p, c)' /\ Pend(p, "fork")',
         \A e \in Pid : e \in E /\ User(e)' => FUser(e)' /\ FChild(e)',
         \A x \in Pid : User(x)' /\ x \notin E /\ ppid[x] \in E => FChild(x)',
         \A p, c \in Pid : (p \in E \/ c \in E) /\ Holds(p, c)' =>
           ppid'[c] = p /\ (user'[p].pc = "kill" => Inert(c)')
  PROVE  FInv'
<1>s. RInv /\ FUsers /\ FFamily /\ FHolds /\ Typed BY RTypes DEF FInv
<1>1. ASSUME NEW x \in Pid, User(x), x \notin E
      PROVE  /\ User(x)' /\ FUser(x)' /\ ppid'[x] = ppid[x]
             /\ Inert(x) => Inert(x)'
             /\ \A c : Holds(x, c)' => Holds(x, c)
             /\ \A c : Parent(x, c) => Parent(x, c)'
             /\ \A c : Awaits(x, c) => Awaits(x, c)'
             /\ state[x] \in {"ready", "stopped"} => state'[x] = state[x]
  <2>1. FUser(x) /\ Calm(x) BY <1>1, <1>s DEF FUsers
  <2>2. /\ ppid'[x] = ppid[x]
        /\ state[x] \in {"ready", "stopped"} => state'[x] = state[x]
    BY <2>1 DEF Calm, Still, Served, Cut
  <2>3. SYSTEM \in Senders(x)' => SYSTEM \in Senders(x) \/ Off(x) \/ Inert(x) BY <1>1
  <2>. QED BY <1>1, <2>1, <2>2, <2>3, CalmKeeps
<1>2. FUsers' BY <1>1 DEF FUsers
<1>3. ASSUME NEW x \in Pid, User(x)', x \notin E, ppid[x] \notin E PROVE FChild(x)'
  <2>1. /\ User(x) /\ FChild(x) /\ ppid'[x] = ppid[x] BY <1>1, <1>3, <1>s DEF FFamily
  <2>0. PICK p \in Pid : p = ppid[x] BY <1>s DEF Typed
  <2>2. CASE ppid[x] = SYSTEM \/ Inert(x) BY <2>1, <2>2, <1>1, <1>3 DEF FChild
  <2>3. CASE Forking(p, x) /\ Pend(p, "fork")
    <3>1. Forking(p, x)' /\ Pend(p, "fork")' BY <2>0, <2>3, <1>3
    <3>. QED BY <3>1, <2>0, <2>1 DEF FChild
  <2>4. CASE Awaits(p, x)
    <3>1. Awaits(p, x)' BY <2>0, <2>4, <1>1, <1>3 DEF Awaits, Parent
    <3>. QED BY <3>1, <2>0, <2>1 DEF FChild
  <2>5. CASE Parent(p, x) /\ state[p] = "ready" /\ state[x] = "stopped" /\ cur = x
    <3>1. Parent(p, x)' /\ state'[p] = "ready" /\ state'[x] = "stopped"
      BY <2>0, <2>1, <2>5, <1>1, <1>3 DEF Parent
    <3>2. cur' # x => Inert(x)' BY <3>1 DEF Inert
    <3>. QED BY <3>1, <3>2, <2>0, <2>1 DEF FChild
  <2>. QED BY <2>0, <2>1, <2>2, <2>3, <2>4, <2>5 DEF FChild
<1>4. FFamily' BY <1>3 DEF FFamily
<1>5. ASSUME NEW p \in Pid, NEW c \in Pid, p \notin E, c \notin E, Holds(p, c)'
      PROVE  ppid'[c] = p /\ (user'[p].pc = "kill" => Inert(c)')
  <2>1. User(p) BY <1>5 DEF Holds
  <2>2. Holds(p, c) /\ user'[p] = user[p] BY <2>1, <1>1, <1>5 DEF Calm
  <2>3. User(c) BY <2>2, HeldChild, <1>s
  <2>. QED BY <2>2, <2>3, <1>1, <1>5, <1>s DEF FHolds
<1>6. FHolds' BY <1>5 DEF FHolds
<1>. QED BY <1>2, <1>4, <1>6 DEF FInv

\* The system task keeps what it has, of processes that stay what they are.
LEMMA FSysKept ==
  ASSUME FInv, RInv', sys' = sys,
         Held' => Held /\ d0'[SYSTEM] = d0[SYSTEM] /\ msg'[SYSTEM] = msg[SYSTEM],
         \A x \in Pid : User(x) =>
           /\ \A call \in Calls \ {"wait"} : Pend(x, call) => Pend(x, call)'
           /\ Off(x) => Off(x)'
           /\ Off(x) /\ GaveUp(x) => GaveUp(x)'
           /\ Inert(x) => Inert(x)' /\ User(x)' /\ user'[x] = user[x]
           /\ ppid'[x] = ppid[x]
  PROVE  FSys'
<1>s. RInv /\ RThreads /\ RSys /\ RHolds /\ FSys BY DEF FInv, RInv
<1>1. Held' /\ msg'[SYSTEM].type # "wait" =>
        \/ Pend(d0[SYSTEM], msg[SYSTEM].type)'
        \/ /\ Off(d0[SYSTEM])'
           /\ msg'[SYSTEM].type = "fork" => GaveUp(d0[SYSTEM])'
  <2> SUFFICES ASSUME Held', msg'[SYSTEM].type # "wait"
               PROVE  \/ Pend(d0[SYSTEM], msg[SYSTEM].type)'
                      \/ /\ Off(d0[SYSTEM])'
                         /\ msg'[SYSTEM].type = "fork" => GaveUp(d0[SYSTEM])'
    OBVIOUS
  <2>1. PICK p : p = d0[SYSTEM] OBVIOUS
  <2>2. PICK t : t = msg[SYSTEM].type OBVIOUS
  <2>3. Held /\ d0'[SYSTEM] = p /\ msg'[SYSTEM] = msg[SYSTEM] BY <2>1
  <2>4. p \in Pid /\ User(p) /\ t \in Calls \ {"wait"} BY <2>1, <2>2, <2>3, <1>s DEF Held, RSys
  <2>5. Pend(p, t) \/ (Off(p) /\ (t = "fork" => GaveUp(p))) BY <2>1, <2>2, <2>3, <2>4, <1>s DEF FSys
  <2>6. Pend(p, t)' \/ (Off(p)' /\ (t = "fork" => GaveUp(p)')) BY <2>4, <2>5
  <2>. QED BY <2>1, <2>2, <2>3, <2>6
<1>2. sys.pc \in {"vfs", "kill", "answer"} => Pend(sys.from, sys.req)' \/ Off(sys.from)'
  <2>1. sys.pc \in {"vfs", "kill", "answer"} =>
          User(sys.from) /\ sys.from \in Pid /\ sys.req \in Calls \ {"wait"}
    BY <1>s DEF RSys, Calls, User
  <2>. QED BY <2>1, <1>s DEF FSys
<1>3. sys.pc \in {"vfs", "answer"} /\ sys.req = "fork" /\ sys.child # NONE =>
        ppid'[sys.child] = sys.from /\ (Pend(sys.child, "fork")' \/ Inert(sys.child)')
  <2> SUFFICES ASSUME sys.pc \in {"vfs", "answer"}, sys.req = "fork", sys.child # NONE
               PROVE  ppid'[sys.child] = sys.from /\ (Pend(sys.child, "fork")' \/ Inert(sys.child)')
    OBVIOUS
  <2>1. SysHolds(sys.child) BY DEF SysHolds
  <2>2. User(sys.child) /\ sys.child \in Pid BY <2>1, <1>s DEF RHolds, RThreads, User
  <2>3. "fork" \in Calls \ {"wait"} BY DEF Calls
  <2>. QED BY <2>2, <2>3, <1>s DEF FSys
<1>4. sys.pc = "child" => Pend(sys.child, "fork")' \/ Inert(sys.child)'
  <2>1. sys.pc = "child" => User(sys.child) /\ sys.child \in Pid BY <1>s DEF RSys, User
  <2>3. "fork" \in Calls \ {"wait"} BY DEF Calls
  <2>. QED BY <2>1, <2>3, <1>s DEF FSys
<1>5. sys.pc = "start" => User(sys.child)' /\ Inert(sys.child)' /\ user'[sys.child].pc = "vfs"
  <2>1. sys.pc = "start" => Inert(sys.child) /\ user[sys.child].pc = "vfs" /\ User(sys.child)
    BY <1>s DEF FSys
  <2>. QED BY <2>1 DEF User
<1>6. Held' /\ msg'[SYSTEM].type = "kill" /\ msg'[SYSTEM].pid # NONE => Inert(msg[SYSTEM].pid)'
  <2> SUFFICES ASSUME Held', msg'[SYSTEM].type = "kill", msg'[SYSTEM].pid # NONE
               PROVE  Inert(msg[SYSTEM].pid)'
    OBVIOUS
  <2>1. PICK c : c = msg[SYSTEM].pid OBVIOUS
  <2>2. Held /\ msg[SYSTEM].type = "kill" /\ c # NONE /\ msg'[SYSTEM].pid = c BY <2>1
  <2>3. SysHolds(c) /\ c \in Pid \cup {NONE} BY <2>1, <2>2, <1>s DEF SysHolds, RSys
  <2>4. User(c) /\ c \in Pid BY <2>2, <2>3, <1>s DEF RHolds
  <2>5. Inert(c) BY <2>1, <2>2, <1>s DEF FSys
  <2>6. Inert(c)' BY <2>4, <2>5
  <2>. QED BY <2>2, <2>6
<1>7. sys.pc \in {"vfs", "kill"} /\ sys.req = "kill" => Inert(sys.child)'
  <2> SUFFICES ASSUME sys.pc \in {"vfs", "kill"}, sys.req = "kill" PROVE Inert(sys.child)'
    OBVIOUS
  <2>1. SysHolds(sys.child) /\ sys.child \in Pid \cup {NONE} BY <1>s DEF SysHolds, RThreads
  <2>2. User(sys.child) BY <2>1, <1>s DEF RHolds
  <2>. QED BY <2>2, <1>s DEF FSys, User
<1>. QED BY <1>1, <1>2, <1>3, <1>4, <1>5, <1>6, <1>7 DEF FSys

LEMMA CalmPends ==
  ASSUME NEW x, NEW call, Pend(x, call), User(x)', Calm(x), Still(x) \/ Served(x)
  PROVE  Pend(x, call)'
BY DEF Pend, Calm, Still, Served, Masked

\* A step that leaves all user processes alone, and what the system task has.
LEMMA FCalm ==
  ASSUME FInv, RInv', Steady, FVfs', sys' = sys,
         Held' => Held /\ d0'[SYSTEM] = d0[SYSTEM] /\ msg'[SYSTEM] = msg[SYSTEM],
         \A x \in Pid : User(x)' => User(x),
         \A x \in Pid : User(x) =>
           /\ Calm(x) /\ (Still(x) \/ Served(x))
           /\ SYSTEM \in Senders(x)' => SYSTEM \in Senders(x) \/ Off(x) \/ Inert(x)
  PROVE  FInv'
<1>s. FUsers BY DEF FInv
<1>1. ASSUME NEW x \in Pid, User(x)
      PROVE  /\ User(x)' /\ ppid'[x] = ppid[x] /\ user'[x] = user[x]
             /\ \A call : Pend(x, call) => Pend(x, call)'
             /\ Off(x) => Off(x)'
             /\ Off(x) /\ GaveUp(x) => GaveUp(x)'
             /\ Inert(x) => Inert(x)'
  <2>1. FUser(x) /\ Calm(x) /\ (Still(x) \/ Served(x)) BY <1>1, <1>s DEF FUsers
  <2>2. SYSTEM \in Senders(x)' => SYSTEM \in Senders(x) \/ Off(x) \/ Inert(x) BY <1>1
  <2>3. /\ User(x)' /\ (Off(x) => Off(x)') /\ (Inert(x) => Inert(x)')
    BY <1>1, <2>1, <2>2, CalmKeeps
  <2>4. \A call : Pend(x, call) => Pend(x, call)' BY <2>1, <2>3, CalmPends
  <2>5. Off(x) /\ GaveUp(x) => GaveUp(x)' BY <2>1 DEF Off, GaveUp, Still, Served, Steady
  <2>. QED BY <2>1, <2>3, <2>4, <2>5 DEF Calm
<1>2. FSys' BY <1>1, FSysKept
<1>3. \A p, c \in Pid : Forking(p, c) /\ Pend(p, "fork") => Forking(p, c)' /\ Pend(p, "fork")'
  BY <1>1 DEF Forking, Pend
<1>4. PICK E : E = {} OBVIOUS
<1>. QED BY <1>2, <1>3, <1>4, FFrame

LEMMA FVfsKept ==
  ASSUME FInv, vfs' = vfs, \A p \in Pid : ppid'[p] = ppid[p] \/ ppid'[p] = SYSTEM,
         state'[VFS] = "blocked" =>
           state[VFS] = "blocked" /\ m_from'[VFS] = m_from[VFS] /\ m_to'[VFS] = m_to[VFS]
  PROVE  FVfs'
BY Who DEF FInv, FVfs
LEMMA HeadReady == ASSUME IInv' PROVE state'[links'.ready] = "ready"
<1>1. Lists(links', Is("ready")', Is("none")') /\ state'[IDLE] = "ready"
  BY DEF IInv, IdleReady
<1>2. IDLE \in Is("ready")' BY <1>1, Slots DEF Is
<1>3. links'.ready \in Is("ready")' BY <1>1, <1>2, Successor
<1>. QED BY <1>3 DEF Is

\* Nothing happens to any process, but that a task looks at a result.
LEMMA FIdles ==
  ASSUME FInv, RInv', UNCHANGED <<state, m_from, m_to, msg, sig_mask, uid, ppid, threads>>,
         cur' = cur \/ state'[cur'] = "ready",
         \A x \in Pid : User(x) => d0'[x] = d0[x],
         Held' => Held /\ d0'[SYSTEM] = d0[SYSTEM]
  PROVE  FInv'
<1>1. /\ state' = state /\ m_from' = m_from /\ m_to' = m_to
      /\ msg' = msg /\ sig_mask' = sig_mask /\ uid' = uid
      /\ ppid' = ppid /\ sys' = sys /\ vfs' = vfs /\ user' = user
  BY DEF threads
<1>2. \A x : User(x)' <=> User(x) BY <1>1 DEF User, IsTask
<1>3. \A x \in Pid : User(x) => Still(x) /\ Calm(x) BY <1>1 DEF Still, Calm
<1>4. \A x : SYSTEM \in Senders(x)' => SYSTEM \in Senders(x) BY <1>1 DEF Senders
<1>5. Steady BY <1>1 DEF Steady, VfsStuck
<1>6. FVfs' BY <1>1 DEF FInv, FVfs
<1>. QED BY <1>1, <1>2, <1>3, <1>4, <1>5, <1>6, FCalm

LEMMA FInterrupt ==
  ASSUME FInv, RInv', Interrupt \/ UNCHANGED svars
  PROVE  FInv'
<1>s. IInv BY DEF FInv, RInv
<1>1. /\ UNCHANGED <<state, m_from, m_to, msg, sig_mask, uid, ppid, threads>> /\ d0' = d0
  BY DEF Interrupt, SysIrq, SysIrqEnd, ipc, svars, vars
<1>2. cur' = cur \/ (cur' = pick /\ irq \in {"pick", "pick2"})
  BY DEF Interrupt, SysIrq, SysIrqEnd, svars, vars
<1>3. cur' = cur \/ state'[cur'] = "ready"
  BY <1>1, <1>2, <1>s DEF IInv, OnCpu, Is
<1>4. Held' => Held BY <1>1 DEF Held, threads
<1>. QED BY <1>1, <1>3, <1>4, FIdles

LEMMA FTaskBack ==
  ASSUME FInv, RInv', NEW t \in Pid, TaskBack(t)
  PROVE  FInv'
<1>s. RInv /\ RTasks /\ RSys /\ Typed /\ IInv BY RTypes DEF FInv, RInv
<1>1. /\ UNCHANGED <<state, m_from, m_to, msg, sig_mask, uid, ppid, threads>>
      /\ cur' = cur /\ cur = t /\ irq = "off"
      /\ \A x \in Pid : x # t => d0'[x] = d0[x]
      /\ ops[t] = {RECV} => d0'[t] = IF m_from[t] # NONE THEN m_from[t] ELSE EABORT
      /\ ops[t] # {}
  <2>1. d0' = [d0 EXCEPT ![t] = d0'[t]] BY <1>s DEF TaskBack, TaskReturn, Typed
  <2>2. ops[t] = {RECV} => d0' = [d0 EXCEPT ![t] = IF m_from[t] # NONE THEN m_from[t] ELSE EABORT]
    BY DEF TaskBack, TaskReturn
  <2>. QED BY <2>1, <2>2, <1>s DEF TaskBack, TaskReturn, Typed
<1>2. t \in {SYSTEM, VFS} BY <1>1, <1>s DEF RTasks, RTask
<1>3. \A x \in Pid : User(x) => d0'[x] = d0[x] BY <1>1, <1>2, <1>s, UserNoTask
<1>4. Held' => Held /\ d0'[SYSTEM] = d0[SYSTEM]
  <2>1. CASE t # SYSTEM BY <2>1, <1>1, Who DEF Held, threads
  <2>2. CASE t = SYSTEM
    <3>1. ASSUME Held' PROVE d0'[SYSTEM] = d0[SYSTEM]
      <4>1. sys.pc = "got" /\ state[SYSTEM] = "ready" /\ d0'[SYSTEM] \in Pid
        BY <3>1, <1>1 DEF Held, threads
      <4>2. /\ ops[SYSTEM] = {RECV}
            /\ m_from[SYSTEM] = d0[SYSTEM] \/ m_from[SYSTEM] = NONE
        BY <4>1, <2>2, <1>1, <1>s DEF RSys
      <4>. QED BY <4>1, <4>2, <2>2, <1>1, Who
    <3>. QED BY <3>1, <1>1 DEF Held, threads
  <2>. QED BY <2>1, <2>2
<1>. QED BY <1>1, <1>3, <1>4, FIdles

LEMMA FAlarm ==
  ASSUME FInv, RInv', CtrlAltDel
  PROVE  FInv'
<1>s. RInv /\ Typed BY RTypes DEF FInv, RInv
<1>1. /\ ProcSig(links, state, SYSTEM, "alrm")
      /\ UNCHANGED <<cur, uid, ppid, msg, sys, vfs, user>>
  BY DEF CtrlAltDel, Alarm, threads
<1>2. /\ \A x \in Pid : x # SYSTEM => Still(x) /\ sig_mask'[x] = sig_mask[x]
      /\ IF state[SYSTEM] = "blocked" THEN d0'[SYSTEM] = EABORT ELSE Still(SYSTEM)
      /\ state'[SYSTEM] = "ready"
  BY <1>1, <1>s, Who DEF ProcSig, Typed, Still
<1>3. \A x \in Pid : x # SYSTEM => (User(x)' <=> User(x)) BY <1>1, <1>2 DEF User, IsTask, Still
<1>4. ~User(SYSTEM) /\ ~User(SYSTEM)' BY <1>1, <1>s DEF User, IsTask, Typed
<1>5. \A x : SYSTEM \notin Senders(x)' BY <1>2 DEF Senders
<1>6. Steady BY <1>1, <1>2, Who DEF Steady, VfsStuck, Still
<1>7. FVfs' BY <1>1, <1>2, Who, FVfsKept DEF Still
<1>8. Held' => Held /\ d0'[SYSTEM] = d0[SYSTEM] /\ msg'[SYSTEM] = msg[SYSTEM]
  BY <1>1, <1>2, <1>s, Who DEF Held, Still, Typed
<1>9. \A x \in Pid : User(x) => Still(x) /\ Calm(x) BY <1>1, <1>2, <1>4 DEF Calm
<1>. QED BY <1>1, <1>3, <1>4, <1>5, <1>6, <1>7, <1>8, <1>9, FCalm

LEMMA FVfsReceives ==
  ASSUME FInv, RInv', Running(VFS), Receive(VFS), vfs' = "got", UNCHANGED <<sys, user>>
  PROVE  FInv'
<1>s. /\ RInv /\ RThreads /\ RTasks /\ RVfs /\ RSys /\ Typed /\ FUsers /\ FVfs
  BY RTypes DEF FInv, RInv
<1>0. state[VFS] = "ready" /\ IsTask(VFS) /\ ~VfsStuck BY <1>s DEF Running, RVfs, VfsStuck
<1>1. CASE RecvNow(VFS)
  <2>1. PICK s \in Senders(VFS) :
          /\ state' = IF OnlySends(s) THEN [state EXCEPT ![s] = "ready"] ELSE state
          /\ m_from' = [m_from EXCEPT ![VFS] = NONE]
          /\ m_to' = [m_to EXCEPT ![s] = NONE, ![VFS] = NONE]
          /\ d0' = [d0 EXCEPT ![s] = VFS, ![VFS] = s]
          /\ msg' = [msg EXCEPT ![VFS] = msg[s]]
          /\ UNCHANGED <<cur, sig_mask, ppid, uid>>
    BY <1>1 DEF RecvNow
  <2>2. /\ s \in Pid /\ state[s] = "blocked" /\ m_to[s] = VFS /\ s # VFS
    BY <1>0, <1>s DEF Senders, Typed
  <2>3. /\ \A x \in Pid : x \notin {VFS, s} => Still(x)
        /\ state'[s] = IF m_from[s] = NONE THEN "ready" ELSE "blocked"
        /\ m_from'[s] = m_from[s] /\ m_to'[s] = NONE /\ d0'[s] = VFS
        /\ state'[VFS] = "ready"
    BY <2>1, <2>2, <1>0, <1>s, Who DEF Typed, OnlySends, Still
  <2>4. User(s) => Served(s)
    <3>1. User(s) => FUser(s) BY <2>2, <1>s DEF FUsers
    <3>2. User(s) => user[s].pc # "wait" BY <2>2, <3>1 DEF FUser
    <3>3. ~Inert(s) BY <2>2, <1>0, Who DEF Inert
    <3>. QED BY <2>2, <2>3, <3>2, <3>3, Who DEF Served
  <2>5. \A x \in Pid : User(x) => Calm(x) /\ (Still(x) \/ Served(x))
    <3>1. \A x \in Pid : User(x) => x # VFS BY <1>s, UserNoTask
    <3>2. user' = user /\ sig_mask' = sig_mask /\ uid' = uid /\ ppid' = ppid BY <2>1
    <3>. QED BY <2>3, <2>4, <3>1, <3>2 DEF Calm
  <2>6. \A x \in Pid : User(x)' => User(x)
    BY <1>0, <2>1, <2>2, <2>3 DEF User, IsTask, Still
  <2>7. \A x \in Pid : SYSTEM \in Senders(x)' => SYSTEM \in Senders(x)
    <3>1. state'[SYSTEM] = "blocked" => state[SYSTEM] = "blocked"
      BY <2>2, <2>3, Who DEF Still
    <3>2. m_to'[SYSTEM] \in {m_to[SYSTEM], NONE} BY <2>2, <2>3, Who DEF Still
    <3>. QED BY <3>1, <3>2, Who DEF Senders
  <2>8. Held' => Held /\ d0'[SYSTEM] = d0[SYSTEM] /\ msg'[SYSTEM] = msg[SYSTEM]
    <3>1. CASE s = SYSTEM
      <4>1. sys.pc # "got" BY <2>2, <3>1, <1>s, Who DEF RSys
      <4>. QED BY <4>1 DEF Held
    <3>2. CASE s # SYSTEM BY <2>3, <3>2, Who DEF Held, Still
    <3>. QED BY <3>1, <3>2
  <2>9. FVfs' BY <2>1, <2>3, <1>s DEF FVfs
  <2>10. Steady BY <1>0, <2>1 DEF Steady
  <2>. QED BY <2>5, <2>6, <2>7, <2>8, <2>9, <2>10, FCalm
<1>2. CASE Wait(VFS, ANY, {RECV}, NoMsg)
  <2>1. /\ \A x \in Pid : x # VFS => Still(x) /\ sig_mask'[x] = sig_mask[x]
        /\ state'[VFS] = "blocked" => m_from'[VFS] = ANY /\ m_to'[VFS] = NONE
        /\ state'[VFS] \in {"ready", "blocked"}
        /\ uid' = uid /\ ppid' = ppid /\ cur' = cur
    BY <1>0, <1>2, <1>s, Who DEF Wait, Typed, SEND, RECV, Still
  <2>2. \A x \in Pid : User(x) => Calm(x) /\ Still(x)
    <3>1. \A x \in Pid : User(x) => x # VFS BY <1>s, UserNoTask
    <3>. QED BY <2>1, <3>1 DEF Calm
  <2>3. \A x \in Pid : User(x)' => User(x) BY <1>0, <2>1 DEF User, IsTask, Still
  <2>4. \A x \in Pid : SYSTEM \in Senders(x)' => SYSTEM \in Senders(x)
    BY <2>1, Who DEF Senders, Still
  <2>5. Held' => Held /\ d0'[SYSTEM] = d0[SYSTEM] /\ msg'[SYSTEM] = msg[SYSTEM]
    BY <2>1, Who DEF Held, Still
  <2>6. FVfs' BY <2>1, <1>s DEF FVfs
  <2>7. Steady BY <1>0, <2>1 DEF Steady
  <2>. QED BY <2>2, <2>3, <2>4, <2>5, <2>6, <2>7, FCalm
<1>. QED BY <1>1, <1>2 DEF Receive

LEMMA FVfsSends ==
  ASSUME FInv, RInv', Running(VFS), NEW q \in Pid, q = d0[VFS],
         Send(VFS, q, Answer("vfs", 0)), vfs' = "recv", UNCHANGED <<sys, user>>
  PROVE  FInv'
<1>s. /\ RInv /\ RThreads /\ RTasks /\ RVfs /\ RSys /\ Typed /\ FUsers /\ FVfs
  BY RTypes DEF FInv, RInv
<1>0. /\ state[VFS] = "ready" /\ IsTask(VFS) /\ q # VFS /\ ~VfsStuck
  BY <1>s DEF Running, RVfs, VfsStuck
<1> DEFINE m == Answer("vfs", 0)
<1>m. m.type \notin Calls BY DEF Answer, Calls
<1> HIDE DEF m
<1>1. CASE SendNow(VFS, q, m)
  <2>1. state[q] = "blocked" /\ m_from[q] \in {VFS, ANY} BY <1>1 DEF SendNow, Accepts
  <2>2. /\ \A x \in Pid : x \notin {VFS, q} => Still(x)
        /\ state'[q] = "ready" /\ m_from'[q] = VFS /\ m_to'[q] = m_to[q] /\ d0'[q] = VFS
        /\ msg'[q] = m
        /\ state'[VFS] = "ready" /\ uid' = uid /\ ppid' = ppid /\ cur' = cur
        /\ sig_mask' = sig_mask
    BY <1>0, <1>1, <1>s, Who DEF SendNow, Typed, Still
  <2>3. User(q) => Served(q)
    <3>1. User(q) => FUser(q) BY <1>s DEF FUsers
    <3>2. User(q) => m_from[q] = VFS BY <2>1, <3>1, <1>s, Who DEF FUser
    <3>3. User(q) => user[q].pc # "wait" BY <2>1, <3>1, <3>2 DEF FUser
    <3>4. User(q) => ~Inert(q) BY <2>1, <3>2, Who DEF Inert
    <3>. QED BY <2>1, <2>2, <3>2, <3>3, <3>4, Who DEF Served
  <2>4. \A x \in Pid : User(x) => Calm(x) /\ (Still(x) \/ Served(x))
    <3>1. \A x \in Pid : User(x) => x # VFS BY <1>s, UserNoTask
    <3>2. user' = user /\ sig_mask' = sig_mask /\ uid' = uid /\ ppid' = ppid BY <2>2
    <3>. QED BY <2>2, <2>3, <3>1, <3>2 DEF Calm
  <2>5. \A x \in Pid : User(x)' => User(x)
    BY <1>0, <2>1, <2>2 DEF User, IsTask, Still
  <2>6. \A x \in Pid : SYSTEM \in Senders(x)' => SYSTEM \in Senders(x)
    BY <2>2, Who DEF Senders, Still
  <2>7. Held' => Held /\ d0'[SYSTEM] = d0[SYSTEM] /\ msg'[SYSTEM] = msg[SYSTEM]
    <3>1. CASE q = SYSTEM BY <2>2, <3>1, <1>m DEF Held
    <3>2. CASE q # SYSTEM BY <2>2, <3>2, Who DEF Held, Still
    <3>. QED BY <3>1, <3>2
  <2>8. FVfs' BY <2>2, <1>s DEF FVfs
  <2>9. Steady BY <1>0, <2>2 DEF Steady
  <2>. QED BY <2>4, <2>5, <2>6, <2>7, <2>8, <2>9, FCalm
<1>2. CASE SendLocked(VFS, q, m) \/ Wait(VFS, q, {SEND}, m)
  <2>1. /\ \A x \in Pid : x # VFS => Still(x) /\ sig_mask'[x] = sig_mask[x]
        /\ state'[VFS] = "blocked" => m_from'[VFS] = NONE /\ m_to'[VFS] = q
        /\ state'[VFS] \in {"ready", "blocked"}
        /\ uid' = uid /\ ppid' = ppid /\ cur' = cur
    <3>1. CASE SendLocked(VFS, q, m)
      BY <1>0, <3>1, <1>s, Who DEF SendLocked, Typed, Still
    <3>2. CASE Wait(VFS, q, {SEND}, m)
      <4>1. ~(SEND \in {SEND} /\ Accepts(q, VFS)) BY <3>2 DEF Wait
      <4>. QED BY <1>0, <3>2, <4>1, <1>s, Who DEF Wait, Typed, SEND, RECV, Still
    <3>. QED BY <1>2, <3>1, <3>2
  <2>2. \A x \in Pid : User(x) => Calm(x) /\ Still(x)
    <3>1. \A x \in Pid : User(x) => x # VFS BY <1>s, UserNoTask
    <3>. QED BY <2>1, <3>1 DEF Calm
  <2>3. \A x \in Pid : User(x)' => User(x) BY <1>0, <2>1 DEF User, IsTask, Still
  <2>4. \A x \in Pid : SYSTEM \in Senders(x)' => SYSTEM \in Senders(x)
    BY <2>1, Who DEF Senders, Still
  <2>5. Held' => Held /\ d0'[SYSTEM] = d0[SYSTEM] /\ msg'[SYSTEM] = msg[SYSTEM]
    BY <2>1, Who DEF Held, Still
  <2>6. FVfs' BY <2>1, <1>s DEF FVfs
  <2>7. Steady BY <1>0, <2>1 DEF Steady
  <2>. QED BY <2>2, <2>3, <2>4, <2>5, <2>6, <2>7, FCalm
<1>. QED BY <1>1, <1>2 DEF Send, m

\* A step of the system task that leaves all user processes alone.
LEMMA FServes ==
  ASSUME FInv, RInv', Steady, FVfs', FSys',
         \A x \in Pid : User(x)' => User(x),
         \A x \in Pid : User(x) =>
           /\ Calm(x)
           /\ SYSTEM \in Senders(x)' => SYSTEM \in Senders(x) \/ Off(x) \/ Inert(x),
         \A p, c \in Pid : Forking(p, c) /\ Pend(p, "fork") => Forking(p, c)' /\ Pend(p, "fork")'
  PROVE  FInv'
<1>1. PICK E : E = {} OBVIOUS
<1>. QED BY <1>1, FFrame

LEMMA FSysTakes ==
  ASSUME FInv, RInv', SysAt("recv"), RecvNow(SYSTEM), SysGo("got"), UNCHANGED <<vfs, user>>
  PROVE  FInv'
<1>s. /\ RInv /\ RThreads /\ RTasks /\ RVfs /\ RSys /\ Typed /\ FUsers /\ FVfs /\ FHolds /\ FFamily
  BY RTypes DEF FInv, RInv
<1>0. /\ sys.pc = "recv" /\ state[SYSTEM] = "ready"
      /\ sys' = [sys EXCEPT !.pc = "got"] /\ vfs' = vfs /\ user' = user
  BY DEF SysAt, Running, SysGo
<1>1. PICK s \in Senders(SYSTEM) :
        /\ state' = IF OnlySends(s) THEN [state EXCEPT ![s] = "ready"] ELSE state
        /\ m_from' = [m_from EXCEPT ![SYSTEM] = NONE]
        /\ m_to' = [m_to EXCEPT ![s] = NONE, ![SYSTEM] = NONE]
        /\ d0' = [d0 EXCEPT ![s] = SYSTEM, ![SYSTEM] = s]
        /\ msg' = [msg EXCEPT ![SYSTEM] = msg[s]]
        /\ UNCHANGED <<cur, sig_mask, ppid, uid>>
  BY DEF RecvNow
<1>2. s \in Pid /\ state[s] = "blocked" /\ m_to[s] = SYSTEM /\ s # SYSTEM
  BY <1>0, <1>1 DEF Senders
<1>3. /\ \A x \in Pid : x \notin {SYSTEM, s} => Still(x)
      /\ state'[s] = IF m_from[s] = NONE THEN "ready" ELSE "blocked"
      /\ m_from'[s] = m_from[s] /\ m_to'[s] = NONE /\ msg'[s] = msg[s]
      /\ state'[SYSTEM] = "ready" /\ d0'[SYSTEM] = s /\ msg'[SYSTEM] = msg[s]
      /\ sig_mask' = sig_mask /\ ppid' = ppid /\ uid' = uid /\ cur' = cur
  BY <1>0, <1>1, <1>2, <1>s, Who DEF Typed, OnlySends, Still
<1>4. sys'.pc = "got" BY <1>0, <1>s DEF RThreads
<1>5. \/ s = VFS /\ msg[s] = Answer("vfs", 0) /\ m_from[s] = NONE
      \/ /\ User(s) /\ m_from[s] = SYSTEM /\ user[s].in /\ user[s].pc \in Calls \ {"vfs"}
         /\ msg[s] = Request(user[s].pc, user[s].kid)
  BY <1>2, <1>s, RWhoSends, Who DEF FVfs
<1>6. User(s) => FUser(s) /\ s # VFS /\ m_from[s] = SYSTEM
  BY <1>2, <1>5, <1>s, UserNoTask DEF FUsers
<1>7. User(s) => Served(s)
  <2>1. m_from[s] = SYSTEM => ~Inert(s) BY <1>2, Who DEF Inert
  <2>. QED BY <2>1, <1>2, <1>3, <1>6, Who DEF Served
<1>8. \A x \in Pid : User(x) => Calm(x) /\ (Still(x) \/ Served(x))
  <2>1. \A x \in Pid : User(x) => x # SYSTEM BY <1>s, UserNoTask
  <2>. QED BY <2>1, <1>0, <1>3, <1>7 DEF Calm
<1>9. \A x \in Pid : User(x)' => User(x)
  BY <1>0, <1>2, <1>3 DEF User, IsTask, Still
<1>10. \A x : SYSTEM \notin Senders(x)' BY <1>3 DEF Senders
<1>11. FVfs'
  <2>1. s = VFS => state'[VFS] = "ready" BY <1>3, <1>5, <1>s, UserNoTask
  <2>2. s # VFS => Still(VFS) BY <1>3, Who
  <2>. QED BY <2>1, <2>2, <1>0, <1>3, FVfsKept DEF Still
<1>12. Steady
  <2>1. VfsStuck => s # VFS BY <1>2 DEF VfsStuck
  <2>2. s # VFS => Still(VFS) BY <1>3, Who
  <2>. QED BY <2>1, <2>2, <1>3 DEF Steady, VfsStuck, Still
<1>13. \A p, c \in Pid : ~Forking(p, c) BY <1>0 DEF Forking
<1>14. FSys'
  <2>1. CASE s = VFS
    <3>1. ~Held' BY <2>1, <1>3, <1>5, <1>s, UserNoTask DEF Held, Answer, Calls
    <3>. QED BY <3>1, <1>4 DEF FSys
  <2>2. CASE User(s)
    <3>1. /\ user[s].in /\ user[s].pc \in Calls \ {"vfs"} /\ FUser(s) /\ m_from[s] = SYSTEM
          /\ msg[s] = Request(user[s].pc, user[s].kid)
      BY <2>2, <1>5, <1>6
    <3>2. msg'[SYSTEM].type = user[s].pc /\ msg'[SYSTEM].pid = user[s].kid
      BY <3>1, <1>3 DEF Request
    <3>3. ~Inert(s) BY <3>1, <1>2, Who DEF Inert
    <3>4. ~Masked(s) BY <3>1, <3>3, <1>2 DEF FUser
    <3>5. User(s)' /\ state'[s] = "blocked"
      BY <2>2, <3>1, <1>2, <1>3, Who DEF User, IsTask
    <3>6. Pend(s, user[s].pc)'
      BY <3>1, <3>4, <3>5, <1>0, <1>3 DEF Pend, Masked
    <3>7. ASSUME user[s].pc = "kill", user[s].kid # NONE PROVE Inert(user[s].kid)'
      <4>1. PICK c : c = user[s].kid OBVIOUS
      <4>2. Holds(s, c) BY <4>1, <3>7, <2>2, <1>2, <3>1 DEF Holds
      <4>3. User(c) /\ c # s /\ c \in Pid BY <4>2, <1>2, <1>s, HeldChild
      <4>4. Inert(c) /\ Calm(c) /\ FUser(c) BY <4>2, <4>3, <3>7, <1>2, <1>8, <1>s DEF FHolds, FUsers
      <4>5. Inert(c)' BY <4>3, <4>4, <1>10, <1>12, CalmKeeps
      <4>. QED BY <4>1, <4>5, <1>0
    <3>8. d0'[SYSTEM] = s BY <1>3
    <3>9. PICK t : t = user[s].pc OBVIOUS
    <3>10. PICK c : c = user[s].kid OBVIOUS
    <3>11. Pend(d0[SYSTEM], msg[SYSTEM].type)' BY <3>2, <3>6, <3>8, <1>0
    <3>12. msg'[SYSTEM].type = "kill" /\ msg'[SYSTEM].pid # NONE => Inert(msg[SYSTEM].pid)'
      BY <3>2, <3>7, <1>0
    <3>. QED BY <3>11, <3>12, <1>4 DEF FSys
  <2>. QED BY <2>1, <2>2, <1>5
<1>. QED BY <1>8, <1>9, <1>10, <1>11, <1>12, <1>13, <1>14, FServes

LEMMA FSysListens ==
  ASSUME FInv, RInv', SysAt("recv"), Wait(SYSTEM, ANY, {RECV}, NoMsg), SysGo("got"),
         UNCHANGED <<vfs, user>>
  PROVE  FInv'
<1>s. /\ RInv /\ RThreads /\ Typed BY RTypes DEF FInv, RInv
<1>0. /\ sys.pc = "recv" /\ state[SYSTEM] = "ready" /\ IsTask(SYSTEM)
      /\ sys' = [sys EXCEPT !.pc = "got"] /\ vfs' = vfs /\ user' = user
  BY <1>s DEF SysAt, Running, SysGo, Typed, IsTask
<1>1. /\ \A x \in Pid : x # SYSTEM => Still(x) /\ sig_mask'[x] = sig_mask[x]
      /\ m_to'[SYSTEM] = NONE /\ uid' = uid /\ ppid' = ppid /\ cur' = cur
      /\ \/ state'[SYSTEM] = "ready" /\ d0'[SYSTEM] = EABORT
         \/ state'[SYSTEM] = "blocked"
  BY <1>0, <1>s, Who DEF Wait, Typed, SEND, RECV, Still
<1>2. sys'.pc = "got" BY <1>0, <1>s DEF RThreads
<1>3. ~Held' BY <1>1, Who DEF Held
<1>4. FSys' BY <1>2, <1>3 DEF FSys
<1>5. \A x \in Pid : User(x) => Calm(x)
  <2>1. \A x \in Pid : User(x) => x # SYSTEM BY <1>s, UserNoTask
  <2>. QED BY <2>1, <1>0, <1>1 DEF Calm
<1>6. \A x \in Pid : User(x)' => User(x)
  BY <1>0, <1>1 DEF User, IsTask, Still
<1>7. \A x \in Pid : SYSTEM \notin Senders(x)' BY <1>1, Who DEF Senders
<1>8. FVfs' BY <1>0, <1>1, Who, FVfsKept DEF Still
<1>9. Steady BY <1>1, Who DEF Steady, VfsStuck, Still
<1>10. \A p, c \in Pid : ~Forking(p, c) BY <1>0 DEF Forking
<1>. QED BY <1>4, <1>5, <1>6, <1>7, <1>8, <1>9, <1>10, FServes

LEMMA FSysReceive ==
  ASSUME FInv, RInv', SysReceive
  PROVE  FInv'
BY FSysTakes, FSysListens DEF SysReceive, Receive

\* The system task goes on by itself.
LEMMA FSysMoves ==
  ASSUME FInv, RInv', UNCHANGED <<vars, vfs, user>>, sys.pc = "got", FSys'
  PROVE  FInv'
<1>1. /\ state' = state /\ m_from' = m_from /\ m_to' = m_to /\ d0' = d0
      /\ msg' = msg /\ sig_mask' = sig_mask /\ uid' = uid /\ ppid' = ppid
      /\ cur' = cur /\ vfs' = vfs /\ user' = user
  BY DEF vars, ipc
<1>2. \A x : User(x)' <=> User(x) BY <1>1 DEF User, IsTask
<1>3. \A x \in Pid : Calm(x) BY <1>1 DEF Still, Calm
<1>4. \A x : SYSTEM \in Senders(x)' => SYSTEM \in Senders(x) BY <1>1 DEF Senders
<1>5. Steady BY <1>1 DEF Steady, VfsStuck
<1>6. FVfs' BY <1>1 DEF FInv, FVfs
<1>7. \A p, c \in Pid : ~Forking(p, c) BY DEF Forking
<1>. QED BY <1>2, <1>3, <1>4, <1>5, <1>6, <1>7, FServes

LEMMA FSysDecides ==
  ASSUME FInv, RInv', NEW t \in {"fork", "exec", "kill"}, SysGot(t),
         NEW l \in {"vfs", "answer"}, NEW k \in Pid \cup {NONE}, Serve(l, t, k),
         UNCHANGED <<vars, vfs, user>>,
         t = "fork" => l = "answer" /\ k = NONE,
         t = "kill" => l = "vfs" /\ k = msg[SYSTEM].pid
  PROVE  FInv'
<1>s. RInv /\ RHolds /\ FSys BY DEF FInv, RInv
<1>1. Held /\ sys.pc = "got" /\ User(d0[SYSTEM]) /\ msg[SYSTEM].type = t
  BY <1>s, Has DEF Calls
<1>2. /\ sys'.pc = l /\ sys'.from = d0[SYSTEM] /\ sys'.req = t /\ sys'.child = k
  BY DEF Serve
<1>3. /\ state' = state /\ m_from' = m_from /\ m_to' = m_to
      /\ sig_mask' = sig_mask /\ uid' = uid /\ cur' = cur /\ user' = user
  BY DEF vars, ipc
<1>4. /\ \A x, call : Pend(x, call) => Pend(x, call)'
      /\ \A x : Off(x) => Off(x)'
      /\ \A x : Inert(x) => Inert(x)'
  BY <1>3 DEF Pend, Off, Inert, Masked, User, IsTask, VfsStuck
<1>5. PICK p : p = d0[SYSTEM] OBVIOUS
<1>6. Pend(p, t)' \/ Off(p)'
  BY <1>1, <1>4, <1>5, <1>s DEF FSys
<1>7. t = "kill" => Inert(k)'
  <2>1. t = "kill" => SysHolds(k) BY <1>1 DEF SysHolds
  <2>2. t = "kill" => k # NONE BY <2>1, <1>s, Who DEF RHolds, User
  <2>. QED BY <2>2, <1>1, <1>4, <1>s DEF FSys
<1>8. FSys'
  <2>1. Pend(sys.from, sys.req)' \/ Off(sys.from)' BY <1>2, <1>5, <1>6
  <2>2. sys'.req = "kill" => Inert(sys.child)' BY <1>2, <1>7
  <2>3. ~Held' BY <1>2 DEF Held
  <2>. QED BY <2>1, <2>2, <2>3, <1>2 DEF FSys
<1>. QED BY <1>1, <1>8, FSysMoves

LEMMA FSysGoesOn ==
  ASSUME FInv, RInv', SysReset \/ SysIllegal \/ SysForkFails \/ SysExec \/ SysKill
  PROVE  FInv'
<1>s. RInv /\ RThreads BY DEF FInv, RInv
<1>1. CASE SysReset \/ SysIllegal
  <2>1. sys.pc = "got" /\ UNCHANGED <<vars, vfs, user>>
    BY <1>1 DEF SysReset, SysIllegal, SysGot, SysAt
  <2>2. sys'.pc \in {"reset", "recv"} BY <1>1, <1>s DEF SysReset, SysIllegal, SysGo, RThreads
  <2>3. FSys' BY <2>2 DEF FSys, Held
  <2>. QED BY <2>1, <2>3, FSysMoves
<1>2. CASE SysForkFails
  <2>1. SysGot("fork") /\ Serve("answer", "fork", NONE) /\ UNCHANGED <<vars, vfs, user>>
    BY <1>2 DEF SysForkFails
  <2>. QED BY <2>1, FSysDecides
<1>3. CASE SysExec
  <2>1. /\ SysGot("exec") /\ UNCHANGED <<vars, vfs, user>>
        /\ Serve("vfs", "exec", d0[SYSTEM]) \/ Serve("answer", "exec", NONE)
    BY <1>3 DEF SysExec
  <2>2. d0[SYSTEM] \in Pid BY <2>1, <1>s, Has DEF Calls
  <2>. QED BY <2>1, <2>2, FSysDecides
<1>4. CASE SysKill
  <2>1. SysGot("kill") /\ Serve("vfs", "kill", msg[SYSTEM].pid) /\ UNCHANGED <<vars, vfs, user>>
    BY <1>4 DEF SysKill
  <2>2. msg[SYSTEM] \in [type : Calls \ {"vfs"}, pid : Pid \cup {NONE}]
    BY <2>1, <1>s, Has DEF Calls
  <2>. QED BY <2>1, <2>2, FSysDecides
<1>. QED BY <1>1, <1>2, <1>3, <1>4

LEMMA FSysWait ==
  ASSUME FInv, RInv', SysWait
  PROVE  FInv'
<1>s. RInv /\ RThreads /\ Typed BY RTypes DEF FInv, RInv
<1>1. SysGot("wait") /\ WaitChild(d0[SYSTEM]) /\ SysGo("recv") /\ UNCHANGED <<vfs, user>>
  BY DEF SysWait
<1>2. PICK p : p = d0[SYSTEM] OBVIOUS
<1>3. p \in Pid /\ User(p) /\ state[SYSTEM] = "ready" /\ sys.pc = "got"
  BY <1>1, <1>2, <1>s, Has DEF Calls
<1>4. p # SYSTEM /\ p # VFS BY <1>3, <1>s, UserNoTask
<1>5. /\ state' = state /\ d0' = d0 /\ msg' = msg /\ uid' = uid /\ sig_mask' = sig_mask
      /\ cur' = cur /\ ppid' = ppid
      /\ vfs' = vfs /\ user' = user /\ sys'.pc = "recv"
      /\ m_from'[p] = NONE /\ m_to'[p] = NONE
      /\ \A x \in Pid : x # p => m_from'[x] = m_from[x] /\ m_to'[x] = m_to[x]
  BY <1>1, <1>2, <1>3, <1>s DEF WaitChild, SysGo, Typed, RThreads
<1>6. \A x : (User(x)' <=> User(x)) BY <1>5 DEF User, IsTask
<1>7. \A x \in Pid : User(x) => Calm(x) BY <1>5 DEF Calm, Still, Cut
<1>8. FSys' BY <1>5 DEF FSys, Held
<1>9. \A x : SYSTEM \notin Senders(x)' BY <1>3, <1>5 DEF Senders
<1>10. FVfs' BY <1>4, <1>5, Who, FVfsKept
<1>11. Steady BY <1>4, <1>5, Who DEF Steady, VfsStuck
<1>12. \A q, c \in Pid : ~Forking(q, c) BY <1>3 DEF Forking
<1>. QED BY <1>6, <1>7, <1>8, <1>9, <1>10, <1>11, <1>12, FServes

LEMMA FSysCallVfs ==
  ASSUME FInv, RInv', SysCallVfs
  PROVE  FInv'
<1>s. /\ RInv /\ RThreads /\ RVfs /\ RSys /\ RHolds /\ FSys /\ FVfs /\ Typed
  BY RTypes DEF FInv, RInv
<1> DEFINE m == Request("vfs", sys.child)
           l == IF sys.req = "kill" THEN "kill" ELSE "answer"
<1>1. /\ sys.pc = "vfs" /\ Running(SYSTEM) /\ state[SYSTEM] = "ready"
      /\ Call(SYSTEM, VFS, m) /\ sys' = [sys EXCEPT !.pc = l] /\ vfs' = vfs /\ user' = user
  BY DEF SysCallVfs, SysAt, Running, SysGo
<1> HIDE DEF m
<1>2. /\ uid' = uid /\ ppid' = ppid /\ cur' = cur
      /\ \A x \in Pid : x # SYSTEM => sig_mask'[x] = sig_mask[x]
      /\ \A x \in Pid : x \notin {SYSTEM, VFS} => Still(x)
      /\ state'[SYSTEM] \in {"ready", "blocked"} /\ m_to'[SYSTEM] \in {NONE, VFS}
      /\ \/ /\ state[VFS] = "blocked" /\ state'[VFS] = "ready" /\ m_from[VFS] \in {SYSTEM, ANY}
         \/ /\ state'[VFS] = state[VFS] /\ m_from'[VFS] = m_from[VFS]
            /\ m_to'[VFS] = m_to[VFS]
  <2>1. CASE SendLocked(SYSTEM, VFS, m)
    BY <2>1, <1>1, <1>s, Who DEF SendLocked, Typed, Still
  <2>2. CASE Wait(SYSTEM, VFS, {SEND, RECV}, m)
    <3>1. IsTask(SYSTEM) BY <1>s DEF Typed, IsTask
    <3>2. CASE Accepts(VFS, SYSTEM)
      BY <2>2, <3>1, <3>2, <1>1, <1>s, Who DEF Wait, Accepts, Typed, SEND, RECV, Still
    <3>3. CASE ~Accepts(VFS, SYSTEM)
      BY <2>2, <3>1, <3>3, <1>1, <1>s, Who DEF Wait, Typed, SEND, RECV, Still
    <3>. QED BY <3>2, <3>3
  <2>. QED BY <2>1, <2>2, <1>1 DEF Call
<1>3. /\ sys'.pc = l /\ sys'.from = sys.from /\ sys'.req = sys.req
      /\ sys'.child = sys.child /\ l \in {"kill", "answer"}
  BY <1>1, <1>s DEF RThreads
<1>4. \A x \in Pid : state'[x] = "none" <=> state[x] = "none"
  BY <1>1, <1>2 DEF Still
<1>5. \A x : User(x)' <=> User(x)
  BY <1>2, <1>4 DEF User, IsTask
<1>6. ASSUME NEW x \in Pid, User(x) PROVE Still(x) /\ Calm(x)
  <2>1. x \notin {SYSTEM, VFS} BY <1>6, <1>s, UserNoTask
  <2>. QED BY <2>1, <1>1, <1>2 DEF Calm
<1>7. ASSUME NEW x \in Pid, User(x) PROVE SYSTEM \notin Senders(x)'
  <2>1. x # VFS BY <1>7, <1>s, UserNoTask
  <2>. QED BY <2>1, <1>2, <1>7, Who DEF Senders
<1>8. FVfs' BY <1>1, <1>2, <1>s, Who, FVfsKept
<1>9. Steady BY <1>2, <1>s, Who DEF Steady, VfsStuck, FVfs
<1>10. /\ \A x, call : User(x) /\ Pend(x, call) => Pend(x, call)'
       /\ \A x : User(x) /\ Off(x) => Off(x)'
       /\ \A x : User(x) /\ Inert(x) => Inert(x)'
  <2>1. \A x : User(x) => x \in Pid BY DEF User
  <2>2. VfsStuck => VfsStuck' BY <1>9 DEF Steady
  <2>. QED BY <2>1, <2>2, <1>2, <1>5, <1>6 DEF Calm, Still, Pend, Off, Inert, Masked
<1>11. FSys'
  <2>1. User(sys.from) BY <1>1, <1>s DEF RSys
  <2>2. Pend(sys.from, sys.req)' \/ Off(sys.from)'
    <3>1. Pend(sys.from, sys.req) \/ Off(sys.from) BY <1>1, <1>s DEF FSys
    <3>2. PICK x, r : x = sys.from /\ r = sys.req OBVIOUS
    <3>3. Pend(x, r)' \/ Off(x)' BY <2>1, <3>1, <3>2, <1>10
    <3>. QED BY <3>2, <3>3, <1>3
  <2>3. sys.req = "fork" /\ sys.child # NONE =>
          ppid'[sys.child] = sys.from /\ (Pend(sys.child, "fork")' \/ Inert(sys.child)')
    <3> SUFFICES ASSUME sys.req = "fork", sys.child # NONE
                 PROVE  /\ ppid'[sys.child] = sys.from
                        /\ Pend(sys.child, "fork")' \/ Inert(sys.child)'
      OBVIOUS
    <3>2. PICK c : c = sys.child OBVIOUS
    <3>1. User(c) BY <3>2, <1>1, <1>s, Concerned DEF Forker, RHolds, SysHolds, RThreads
    <3>3. ppid[c] = sys.from /\ (Pend(c, "fork") \/ Inert(c)) BY <3>2, <1>1, <1>s DEF FSys
    <3>4. Pend(c, "fork")' \/ Inert(c)' BY <3>1, <3>3, <1>10
    <3>. QED BY <3>2, <3>3, <3>4, <1>2, <1>3
  <2>4. sys.req = "kill" => Inert(sys.child)'
    <3> SUFFICES ASSUME sys.req = "kill" PROVE Inert(sys.child)'
      OBVIOUS
    <3>2. PICK c : c = sys.child OBVIOUS
    <3>1. User(c) /\ Inert(c) BY <3>2, <1>1, <1>s DEF RHolds, SysHolds, RThreads, FSys
    <3>4. Inert(c)' BY <3>1, <1>10
    <3>. QED BY <3>2, <3>4, <1>3
  <2>. QED BY <2>2, <2>3, <2>4, <1>3 DEF FSys, Held
<1>12. \A p, c \in Pid : Forking(p, c) /\ Pend(p, "fork") => Forking(p, c)' /\ Pend(p, "fork")'
  <2>1. \A p, c \in Pid : Pend(p, "fork") => Pend(p, "fork")' BY <1>10 DEF Pend
  <2>. QED BY <2>1, <1>1, <1>3 DEF Forking
<1>. QED BY <1>5, <1>6, <1>7, <1>8, <1>9, <1>11, <1>12, FServes

\* Who is inert has only inert children, but for the one being forked.
LEMMA InertParents ==
  ASSUME FInv, NEW q \in Pid, NEW x \in Pid, User(x), ppid[x] = q, q # SYSTEM,
         Inert(q) \/ ~User(q), ~Forking(q, x)
  PROVE  Inert(x)
<1>1. FChild(x) BY DEF FInv, FFamily
<1>2. ~Awaits(q, x) BY DEF Inert, Awaits, Parent, Answered
<1>3. ~(Parent(q, x) /\ state[q] = "ready") BY DEF Inert, Parent
<1>4. ppid[x] # SYSTEM /\ ~Inert(x) =>
        \/ Forking(q, x) /\ Pend(q, "fork")
        \/ Awaits(q, x)
        \/ Parent(q, x) /\ state[q] = "ready" /\ state[x] = "stopped" /\ cur = x
  BY <1>1 DEF FChild
<1>. QED BY <1>2, <1>3, <1>4

LEMMA FSysKillEnds ==
  ASSUME FInv, RInv', SysKillEnds
  PROVE  FInv'
<1>s. /\ RInv /\ RThreads /\ RSys /\ RHolds /\ RHolds' /\ FSys /\ FVfs /\ Typed
  BY RTypes DEF FInv, RInv
<1>1. /\ sys.pc = "kill" /\ sys.req = "kill" /\ state[SYSTEM] = "ready"
      /\ Kill(sys.child) /\ sys' = [sys EXCEPT !.pc = "answer"] /\ vfs' = vfs /\ user' = user
  BY <1>s DEF SysKillEnds, SysAt, Running, SysGo, RSys
<1>2. PICK k : k = sys.child OBVIOUS
<1>3. PICK p : p = sys.from OBVIOUS
<1>4. /\ k \in Pid /\ User(k) /\ k \notin {SYSTEM, VFS, IDLE} /\ User(p) /\ p # k
      /\ Inert(k) /\ (Pend(p, "kill") \/ Off(p))
  <2>1. User(k) BY <1>1, <1>2, <1>s, KillsChild
  <2>. QED BY <2>1, <1>1, <1>2, <1>3, <1>s, UserNoTask DEF RSys, FSys
<1>5. /\ m_from' = m_from /\ m_to' = m_to /\ d0' = d0 /\ msg' = msg /\ uid' = uid
      /\ sig_mask' = sig_mask /\ ppid' = ppid /\ cur' = cur
      /\ state'[k] = "none" /\ \A x \in Pid : x # k => state'[x] = state[x]
  BY <1>1, <1>2, <1>4, <1>s DEF Kill, ipc, Typed
<1>6. /\ sys'.pc = "answer" /\ sys'.from = p /\ sys'.req = "kill"
  BY <1>1, <1>2, <1>3, <1>s DEF RThreads
<1>7. \A x : User(x)' <=> User(x) /\ x # k
  BY <1>4, <1>5 DEF User, IsTask
<1>8. \A x \in Pid : x # k => Still(x) /\ Calm(x) BY <1>1, <1>5 DEF Calm, Still
<1>9. \A x : SYSTEM \notin Senders(x)' BY <1>1, <1>4, <1>5, Who DEF Senders
<1>10. Steady BY <1>4, <1>5, Who DEF Steady, VfsStuck
<1>11. FVfs' BY <1>1, <1>4, <1>5, Who, FVfsKept
<1>12. FSys'
  <2>1. Pend(p, "kill")' \/ Off(p)'
    BY <1>1, <1>4, <1>5, <1>7 DEF Pend, Off, Masked, User
  <2>. QED BY <2>1, <1>6 DEF FSys, Held
<1>13. \A q, c \in Pid : ~Forking(q, c) BY <1>1 DEF Forking
<1>14. ASSUME NEW x \in Pid, User(x), x # k, ppid[x] = k PROVE FChild(x)'
  <2>1. Inert(x) BY <1>4, <1>13, <1>14, InertParents
  <2>2. Inert(x)' BY <2>1, <1>1, <1>5, <1>10, <1>14 DEF Inert, Steady
  <2>. QED BY <2>2 DEF FChild
<1>15. \A q, c \in Pid : (q = k \/ c = k) => ~Holds(q, c)'
  <2>1. ~User(k)' BY <1>7
  <2>2. \A c : ~Holds(k, c)' BY <2>1 DEF Holds
  <2>3. \A q \in Pid : ~Holds(q, k)' BY <2>1, <1>4, <1>s DEF RHolds
  <2>. QED BY <2>2, <2>3
<1>16. PICK E : E = {k} OBVIOUS
<1>. QED BY <1>7, <1>8, <1>9, <1>10, <1>11, <1>12, <1>13, <1>14, <1>15, <1>16, FFrame

LEMMA FSysFork ==
  ASSUME FInv, RInv', SysFork
  PROVE  FInv'
<1>s. /\ RInv /\ RThreads /\ RTasks /\ RVfs /\ RSys /\ RUsers /\ RForks /\ RHolds /\ IInv
      /\ FSys /\ FVfs /\ FUsers /\ FFamily /\ Typed /\ RHolds'
  BY RTypes DEF FInv, RInv
<1>0. /\ SysGot("fork") /\ Fork(d0[SYSTEM]) /\ Serve("vfs", "fork", links.free)
      /\ user' = [user EXCEPT ![links.free] = user[d0[SYSTEM]]] /\ vfs' = vfs
  BY DEF SysFork
<1>1. PICK p : p = d0[SYSTEM] OBVIOUS
<1>2. PICK e : e = links.free OBVIOUS
<1>3. /\ Held /\ sys.pc = "got" /\ state[SYSTEM] = "ready" /\ msg[SYSTEM].type = "fork"
      /\ p \in Pid /\ User(p) /\ ForkHeld(p)
  BY <1>0, <1>1, <1>s, Has DEF Calls, ForkHeld
<1>4. /\ e \in Pid /\ state[e] = "none"
  BY <1>0, <1>2, <1>s, FreeHead DEF Fork, Is
<1>5. /\ e \notin {SYSTEM, VFS, IDLE} /\ e # p /\ p \notin {SYSTEM, VFS, IDLE}
      /\ ~User(e)
  BY <1>3, <1>4, <1>s, UserNoTask DEF RVfs, Typed, User
<1>6. sys'.pc = "vfs" /\ sys'.from = p /\ sys'.req = "fork" /\ sys'.child = e
  BY <1>0, <1>1, <1>2 DEF Serve
<1>7. /\ \A x \in Pid : state'[x] = IF x = e THEN "blocked" ELSE state[x]
      /\ \A x \in Pid : uid'[x] = IF x = e THEN uid[p] ELSE uid[x]
      /\ \A x \in Pid : m_from'[x] = IF x = e THEN m_from[p] ELSE m_from[x]
      /\ \A x \in Pid : m_to'[x] = IF x = e THEN m_to[p] ELSE m_to[x]
      /\ \A x \in Pid : d0'[x] = IF x = e THEN d0[p] ELSE d0[x]
      /\ \A x \in Pid : msg'[x] = IF x = e THEN msg[p] ELSE msg[x]
      /\ \A x \in Pid : user'[x] = IF x = e THEN user[p] ELSE user[x]
      /\ \A x \in Pid : sig_mask'[x] = IF x = e THEN sig_mask[p] ELSE sig_mask[x]
      /\ \A x \in Pid : ppid'[x] = IF x = e THEN p ELSE ppid[x]
      /\ cur' = cur
  BY <1>0, <1>1, <1>2, <1>s DEF Fork, Typed
<1>8. \A x : User(x)' <=> User(x) \/ x = e
  <2>1. ~IsTask(e)' /\ ~IsTask(p) BY <1>3, <1>4, <1>7 DEF User, IsTask
  <2>. QED BY <2>1, <1>4, <1>5, <1>7 DEF User, IsTask
<1>9. \A x \in Pid : x # e => Still(x) /\ Calm(x) BY <1>7 DEF Still, Calm
<1>10. Steady BY <1>5, <1>7, Who DEF Steady, VfsStuck
<1>11. \A x : SYSTEM \notin Senders(x)' BY <1>3, <1>5, <1>7, Who DEF Senders
<1>12. FVfs'
  <2>1. \A x \in Pid : ppid'[x] # VFS BY <1>5, <1>7, <1>s DEF FVfs
  <2>2. state'[VFS] = state[VFS] /\ m_from'[VFS] = m_from[VFS] /\ m_to'[VFS] = m_to[VFS]
    BY <1>5, <1>7, Who
  <2>. QED BY <2>1, <2>2, <1>0, <1>s DEF FVfs
<1>13. /\ user[p].pc \in {"fork", "vfs", "exit", "none"}
       /\ SYSTEM \in {m_from[p], m_to[p]} => state[p] = "blocked"
       /\ FUser(p)
  <2>1. RFork(p) /\ Forker(p) BY <1>3, <1>s DEF RForks, Forker
  <2>. QED BY <2>1, <1>3, <1>s DEF RFork, FUsers
<1>14. Pend(p, "fork") \/ (Off(p) /\ GaveUp(p)) BY <1>1, <1>3, <1>s DEF FSys
<1>15. /\ Pend(p, "fork") => Pend(p, "fork")' /\ Pend(e, "fork")'
       /\ Off(p) => Off(p)' /\ Inert(e)'
  <2>1. Pend(p, "fork") => Pend(p, "fork")' /\ Pend(e, "fork")'
    BY <1>3, <1>4, <1>5, <1>7, <1>8 DEF Pend, Masked
  <2>2. ASSUME Off(p) PROVE Off(p)' /\ Inert(e)'
    <3>1. Off(p)' BY <2>2, <1>3, <1>5, <1>7 DEF Off, Masked
    <3>2. state[p] = "ready" /\ ~Pend(p, "fork") BY <2>2 DEF Off, Pend
    <3>3. m_from[p] = NONE /\ (m_to[p] = VFS => VfsStuck) BY <3>2, <1>14 DEF GaveUp
    <3>4. m_to[p] \in {NONE, VFS} BY <3>2, <1>13 DEF FUser
    <3>5. VfsStuck => VfsStuck' BY <1>10 DEF Steady
    <3>. QED BY <3>1, <3>3, <3>4, <3>5, <1>4, <1>7, <1>13 DEF Inert
  <2>. QED BY <2>1, <2>2
<1>16. FSys'
  <2>1. Pend(p, "fork")' \/ Off(p)' BY <1>14, <1>15
  <2>2. ppid'[e] = p /\ (Pend(e, "fork")' \/ Inert(e)') BY <1>4, <1>7, <1>14, <1>15
  <2>. QED BY <2>1, <2>2, <1>6 DEF FSys, Held
<1>17. FUser(e)'
  <2>1. /\ state'[e] = "blocked" /\ m_from'[e] = m_from[p] /\ m_to'[e] = m_to[p]
        /\ user'[e] = user[p] /\ sig_mask'[e] = sig_mask[p]
    BY <1>4, <1>7
  <2>2. Masked(e)' => Off(p)
    <3>1. Masked(e)' => Masked(p) BY <2>1 DEF Masked
    <3>2. Pend(p, "fork") => ~Masked(p) BY DEF Pend
    <3>. QED BY <3>1, <3>2, <1>14
  <2>3. ~Answered(e)' BY <2>1 DEF Answered
  <2>4. m_to[p] = VFS => m_from[p] = NONE
    BY <1>14, Who DEF Pend, GaveUp
  <2>5. SYSTEM \notin Senders(e)' BY <1>11
  <2>6. Masked(p) => user[p].prog # "leaf" /\ user[p].pc # "exec" BY <1>13 DEF FUser
  <2>7. Masked(e)' => Inert(e)' BY <2>2, <1>15
  <2>8. {m_from[p], m_to[p]} \subseteq {NONE, SYSTEM, VFS} /\ sig_mask[p] \subseteq {"child"}
        /\ (user[p].prog = "leaf" => user[p].pc \in {"vfs", "exit", "none"})
    BY <1>13 DEF FUser
  <2>9. user'[e].pc \notin {"wait", "kill", "exec"} BY <2>1, <1>13
  <2>10. Masked(e)' => user'[e].prog # "leaf" BY <2>1, <2>6 DEF Masked
  <2>. QED BY <2>1, <2>3, <2>4, <2>5, <2>7, <2>8, <2>9, <2>10 DEF FUser
<1>18. FChild(e)'
  <2>1. ppid'[e] = p BY <1>4, <1>7
  <2>2. Forking(p, e)' BY <1>6 DEF Forking
  <2>3. Inert(e)' \/ Pend(p, "fork")' BY <1>14, <1>15
  <2>. QED BY <2>1, <2>2, <2>3 DEF FChild
<1>19. \A q, c \in Pid : ~Forking(q, c) BY <1>3 DEF Forking
<1>20. ASSUME NEW x \in Pid, User(x), x # e, ppid[x] = e PROVE FChild(x)'
  <2>1. Inert(x) BY <1>4, <1>5, <1>19, <1>20, InertParents
  <2>2. Inert(x)' BY <2>1, <1>7, <1>10, <1>20 DEF Inert, Steady
  <2>. QED BY <2>2 DEF FChild
<1>21. \A q, c \in Pid : (q = e \/ c = e) => ~Holds(q, c)'
  <2>1. user'[e].pc \notin {"wait", "kill"} /\ ~Answered(e)' BY <1>4, <1>7, <1>13 DEF Answered
  <2>2. \A c : ~Holds(e, c)' BY <2>1 DEF Holds
  <2>3. SysHolds(e)' BY <1>4, <1>6, Who DEF SysHolds
  <2>4. \A q \in Pid : ~Holds(q, e)' BY <2>3, <1>4, <1>s DEF RHolds
  <2>. QED BY <2>2, <2>4
<1>22. PICK E : E = {e} OBVIOUS
<1>. QED BY <1>8, <1>9, <1>10, <1>11, <1>12, <1>16, <1>17, <1>18, <1>19, <1>20, <1>21,
            <1>22, FFrame

\* The system task answers p, who waits for it, or has given up and makes it
\* wait for good or until p is called back.
LEMMA FReplies ==
  ASSUME FInv, RInv', Running(SYSTEM), NEW p \in Pid, User(p),
         NEW r \in {"fork", "exec", "kill"}, NEW v, Send(SYSTEM, p, Answer(r, v)),
         NEW l \in {"child", "recv"}, SysGo(l), UNCHANGED <<vfs, user>>,
         Pend(p, r) \/ Off(p) \/ Inert(p),
         l = "child" => /\ User(sys.child) /\ sys.child # p
                        /\ Pend(sys.child, "fork") \/ Inert(sys.child),
         \A q, c \in Pid : Forking(q, c) =>
           q = p /\ v = c /\ r = "fork" /\ ppid[c] = p /\ c # p,
         v \notin {0, NONE} => v \in Pid /\ Forking(p, v)
  PROVE  FInv'
<1>s. /\ RInv /\ RThreads /\ FVfs /\ FUsers /\ FFamily /\ FHolds /\ Typed BY RTypes DEF FInv, RInv
<1> DEFINE m == Answer(r, v)
<1> HIDE DEF m
<1>0. p \notin {SYSTEM, VFS, IDLE} BY <1>s, UserNoTask
<1>1. /\ state[SYSTEM] = "ready" /\ IsTask(SYSTEM)
      /\ sys' = [sys EXCEPT !.pc = l] /\ vfs' = vfs /\ user' = user
  BY <1>s DEF Running, SysGo, Typed, IsTask
<1>2. sys'.pc = l /\ sys'.child = sys.child BY <1>1, <1>s DEF RThreads
<1>3. /\ uid' = uid /\ ppid' = ppid /\ cur' = cur
      /\ \A x \in Pid : x # SYSTEM => sig_mask'[x] = sig_mask[x]
      /\ \A x \in Pid : x \notin {SYSTEM, p} => Still(x)
      /\ \/ /\ Accepts(p, SYSTEM) /\ state'[SYSTEM] = "ready"
            /\ state'[p] = "ready" /\ m_from'[p] = SYSTEM /\ m_to'[p] = m_to[p]
            /\ d0'[p] = SYSTEM /\ msg'[p] = m
         \/ /\ ~Accepts(p, SYSTEM) /\ Still(p)
            /\ state'[SYSTEM] \in {"ready", "blocked"}
            /\ state'[SYSTEM] = "blocked" => m_to'[SYSTEM] = p
  <2>0. Send(SYSTEM, p, m) BY DEF m
  <2>1. CASE SendNow(SYSTEM, p, m)
    BY <2>1, <1>0, <1>1, <1>s, Who DEF SendNow, Accepts, Typed, Still
  <2>2. CASE SendLocked(SYSTEM, p, m)
    BY <2>2, <1>0, <1>1, <1>s, Who DEF SendLocked, Typed, Still
  <2>3. CASE Wait(SYSTEM, p, {SEND}, m)
    <3>1. ~Accepts(p, SYSTEM) BY <2>3 DEF Wait
    <3>. QED BY <2>3, <3>1, <1>0, <1>1, <1>s, Who DEF Wait, Typed, SEND, RECV, Still
  <2>. QED BY <2>0, <2>1, <2>2, <2>3 DEF Send
<1>4. \A x \in Pid : state'[x] = "none" <=> state[x] = "none" BY <1>1, <1>3 DEF Still, Accepts
<1>5. \A x : User(x)' <=> User(x) BY <1>3, <1>4 DEF User, IsTask
<1>6. \A x \in Pid : User(x) /\ x # p => Still(x) /\ Calm(x)
  <2>1. \A x \in Pid : User(x) => x # SYSTEM BY <1>s, UserNoTask
  <2>. QED BY <2>1, <1>1, <1>3 DEF Calm
<1>7. Still(VFS) BY <1>0, <1>3, Who
<1>8. FVfs' BY <1>1, <1>3, <1>7, FVfsKept DEF Still
<1>9. Steady BY <1>3, <1>7 DEF Steady, VfsStuck, Still
<1>10. \A x : User(x) /\ Still(x) /\ Calm(x) =>
         /\ \A call : Pend(x, call) => Pend(x, call)'
         /\ Inert(x) => Inert(x)'
  <2>2. VfsStuck => VfsStuck' BY <1>9 DEF Steady
  <2>. QED BY <2>2, <1>3, <1>5 DEF Calm, Still, Pend, Inert, Masked
<1>11. FSys'
  <2>1. l = "child" => Pend(sys.child, "fork")' \/ Inert(sys.child)'
    <3>1. PICK c : c = sys.child OBVIOUS
    <3>2. l = "child" => User(c) /\ c \in Pid /\ c # p /\ (Pend(c, "fork") \/ Inert(c))
      BY <3>1 DEF User
    <3>3. l = "child" => Pend(c, "fork")' \/ Inert(c)' BY <3>2, <1>6, <1>10
    <3>. QED BY <3>1, <3>3, <1>2
  <2>. QED BY <2>1, <1>2 DEF FSys, Held
<1>12. FUser(p) BY <1>s DEF FUsers
<1>13. CASE ~Accepts(p, SYSTEM)
  <2>1. ~Pend(p, r) BY <1>13 DEF Pend, Accepts
  <2>2. Still(p) /\ Calm(p) BY <1>0, <1>1, <1>3, <1>13 DEF Calm
  <2>3. \A x \in Pid : User(x) => Calm(x) BY <2>2, <1>6
  <2>4. \A x \in Pid : User(x) /\ SYSTEM \in Senders(x)' => Off(x) \/ Inert(x)
    BY <2>1, <1>3, <1>13 DEF Senders
  <2>5. \A q, c \in Pid : ~(Forking(q, c) /\ Pend(q, "fork")) BY <2>1
  <2>. QED BY <2>3, <2>4, <2>5, <1>5, <1>8, <1>9, <1>11, FServes
<1>14. CASE Accepts(p, SYSTEM)
  <2>1. /\ Pend(p, r) /\ ~Inert(p) /\ ~Masked(p) /\ user[p].in /\ user[p].pc = r
        /\ state[p] = "blocked" /\ m_to[p] = NONE
    BY <1>12, <1>14, Who DEF Accepts, Off, Inert, FUser, Pend
  <2>2. /\ state'[p] = "ready" /\ d0'[p] = SYSTEM /\ msg'[p] = m /\ state'[SYSTEM] = "ready"
        /\ m_from'[p] = SYSTEM /\ m_to'[p] = NONE /\ user'[p] = user[p] /\ ~Masked(p)'
    BY <2>1, <1>0, <1>1, <1>3, <1>14 DEF Masked
  <2>3. \A x : SYSTEM \notin Senders(x)' BY <2>2 DEF Senders
  <2>4. FUser(p)' BY <2>2, <2>3, <1>0, <1>3, <1>12 DEF FUser
  <2>5. \A c : ~Awaits(p, c) /\ ~(state[p] = "ready") BY <2>1 DEF Awaits, Parent, Answered
  <2>6. m.val = v BY DEF m, Answer
  <2>7. FChild(p)'
    <3>0. PICK q \in Pid : q = ppid[p] /\ ppid'[p] = q BY <1>3, <1>s DEF Typed
    <3>1. FChild(p) BY <1>s DEF FFamily
    <3>2. q = SYSTEM \/ Awaits(q, p) BY <2>1, <3>0, <3>1 DEF FChild
    <3>3. CASE Awaits(q, p)
      <4>1. q # p BY <3>3, <2>5
      <4>2. User(q) /\ FUser(q) BY <3>3, <1>s DEF Awaits, Parent, FUsers
      <4>3. Calm(q) BY <4>1, <4>2, <1>6
      <4>4. Awaits(q, p)' BY <4>2, <4>3, <3>3, <1>9, <2>3, CalmKeeps
      <4>. QED BY <4>4, <3>0 DEF FChild
    <3>. QED BY <3>0, <3>2, <3>3 DEF FChild
  <2>8. ASSUME NEW x \in Pid, User(x), x # p, ppid[x] = p PROVE FChild(x)'
    <3>1. FChild(x) /\ ppid'[x] = p BY <2>8, <1>3, <1>s DEF FFamily
    <3>2. Inert(x) \/ Forking(p, x) BY <2>5, <2>8, <3>1, <1>0, Who DEF FChild
    <3>3. CASE Inert(x)
      <4>1. Inert(x)' BY <3>3, <2>8, <1>6, <1>10
      <4>. QED BY <4>1 DEF FChild
    <3>4. CASE Forking(p, x)
      <4>1. v = x /\ r = "fork" BY <3>4
      <4>2. Awaits(p, x)' BY <4>1, <2>1, <2>2, <2>6, <1>5 DEF Awaits, Parent, Answered
      <4>. QED BY <4>2, <3>1 DEF FChild
    <3>. QED BY <3>2, <3>3, <3>4
  <2>9. ASSUME NEW q \in Pid, NEW c \in Pid, q = p \/ c = p, Holds(q, c)'
        PROVE  ppid'[c] = q /\ (user'[q].pc = "kill" => Inert(c)')
    <3>1. CASE q = p
      <4>1. user'[p].pc = "fork" /\ c = v /\ c \notin {0, NONE}
        BY <3>1, <2>1, <2>2, <2>6, <2>9 DEF Holds
      <4>2. ppid[c] = p BY <4>1
      <4>. QED BY <4>1, <4>2, <3>1, <1>3
    <3>2. CASE q # p
      <4>1. User(q) /\ FUser(q) BY <3>2, <2>9, <1>5, <1>s DEF Holds, FUsers
      <4>2. Calm(q) BY <4>1, <3>2, <1>6
      <4>3. Holds(q, c) BY <4>1, <4>2, <2>9, <2>3, <1>9, CalmKeeps
      <4>4. ppid[c] = q /\ user[q].pc # "kill" BY <3>2, <4>3, <2>1, <2>9, <1>s DEF FHolds
      <4>. QED BY <4>4, <1>1, <1>3
    <3>. QED BY <3>1, <3>2
  <2>10. PICK E : E = {p} OBVIOUS
  <2>. QED BY <2>3, <2>4, <2>7, <2>8, <2>9, <2>10, <1>5, <1>6, <1>8, <1>9, <1>11, FFrame
<1>. QED BY <1>13, <1>14

LEMMA FSysAnswer ==
  ASSUME FInv, RInv', SysAnswer
  PROVE  FInv'
<1>s. /\ RInv /\ RThreads /\ RSys /\ RForks /\ RHolds /\ FSys BY DEF FInv, RInv
<1>1. /\ sys.pc = "answer" /\ Running(SYSTEM) /\ UNCHANGED <<vfs, user>>
      /\ User(sys.from) /\ sys.from \in Pid /\ sys.child \in Pid \cup {NONE}
      /\ sys.req \in {"fork", "exec", "kill"}
  BY <1>s DEF SysAnswer, SysAt, RSys, RThreads, User
<1>2. PICK v : /\ Send(SYSTEM, sys.from, Answer(sys.req, v))
               /\ sys.req = "fork" => v = sys.child
               /\ sys.req # "fork" => v \in {0, NONE}
  <2>1. CASE sys.req = "fork" BY <2>1, Zenon DEF SysAnswer
  <2>2. CASE sys.req = "exec" BY <2>2, Zenon DEF SysAnswer
  <2>3. CASE sys.req = "kill" BY <2>3, Zenon DEF SysAnswer
  <2>. QED BY <2>1, <2>2, <2>3, <1>1
<1>3. PICK l \in {"child", "recv"} :
        SysGo(l) /\ (l = "child" => sys.req = "fork" /\ sys.child # NONE)
  BY DEF SysAnswer
<1>4. sys.req = "fork" /\ sys.child # NONE =>
        /\ User(sys.child) /\ sys.child # sys.from /\ ppid[sys.child] = sys.from
        /\ Pend(sys.child, "fork") \/ Inert(sys.child)
  <2>1. sys.req = "fork" /\ sys.child # NONE => SysHolds(sys.child) BY <1>1 DEF SysHolds
  <2>. QED BY <2>1, <1>1, <1>s DEF RHolds, RSys, FSys
<1>5. \A q, c \in Pid : Forking(q, c) =>
        q = sys.from /\ v = c /\ sys.req = "fork" /\ ppid[c] = sys.from /\ c # sys.from
  BY <1>2, <1>4, Who DEF Forking
<1>6. v \notin {0, NONE} => v \in Pid /\ Forking(sys.from, v) BY <1>1, <1>2 DEF Forking
<1>7. Pend(sys.from, sys.req) \/ Off(sys.from) BY <1>1, <1>s DEF FSys
<1>. QED BY <1>1, <1>2, <1>3, <1>4, <1>5, <1>6, <1>7, FReplies

LEMMA FSysAnswerChild ==
  ASSUME FInv, RInv', SysAnswerChild
  PROVE  FInv'
<1>s. RInv /\ RSys /\ FSys BY DEF FInv, RInv
<1>1. /\ sys.pc = "child" /\ Running(SYSTEM) /\ UNCHANGED <<vfs, user>>
      /\ User(sys.child) /\ sys.child \in Pid
      /\ Send(SYSTEM, sys.child, Answer("fork", 0)) /\ SysGo("recv")
  BY <1>s DEF SysAnswerChild, SysAt, RSys, User
<1>2. Pend(sys.child, "fork") \/ Inert(sys.child) BY <1>1, <1>s DEF FSys
<1>3. \A q, c : ~Forking(q, c) BY <1>1 DEF Forking
<1>. QED BY <1>1, <1>2, <1>3, FReplies

\* What a call does to the caller and to the one that is called.
LEMMA CallEffect ==
  ASSUME FInv, RInv', NEW p \in Pid, UserCalls(p), NEW q, q = Callee(user[p].pc)
  PROVE  /\ cur = p /\ uid' = uid /\ ppid' = ppid
         /\ \A x \in Pid : x \notin {p, q} => Still(x)
         /\ \A x \in Pid : sig_mask'[x] = sig_mask[x]
         /\ \/ /\ state'[p] = "ready" /\ d0'[p] = EABORT /\ Masked(p)
               /\ m_from'[p] = NONE /\ m_to'[p] = NONE
            \/ /\ state'[p] = "ready" /\ d0'[p] = ELOCK /\ q \in Senders(p) /\ ~Accepts(q, p)
               /\ m_from'[p] = m_from[p] /\ m_to'[p] = q
            \/ /\ state'[p] = "blocked" /\ ~Masked(p)
               /\ m_from'[p] = q /\ m_to'[p] \in {NONE, q}
         /\ \/ /\ Accepts(q, p) /\ state'[q] = "ready" /\ d0'[q] = p
               /\ msg'[q] = Request(user[p].pc, user[p].kid) /\ m_to'[p] = NONE
            \/ ~Accepts(q, p) /\ Still(q)
         /\ Steady
<1>s. /\ RInv /\ RThreads /\ RTasks /\ FUsers /\ Typed /\ IInv' /\ FVfs
  BY RTypes DEF FInv, RInv
<1> DEFINE m == Request(user[p].pc, user[p].kid)
<1> HIDE DEF m
<1>1. /\ User(p) /\ state[p] = "ready" /\ p \notin {SYSTEM, VFS, IDLE} /\ q \in {SYSTEM, VFS}
      /\ SendLocked(p, q, m) \/ Wait(p, q, {SEND, RECV}, m)
  BY <1>s, Calling DEF Call, m
<1>2. q \in Pid /\ p # q /\ ~IsTask(p) /\ cur = p
  BY <1>1, Who DEF User, UserCalls, UserRuns, Running
<1>3. sig_mask[p] \subseteq {"child"} BY <1>1, <1>s DEF FUsers, FUser
<1>4. ASSUME VfsStuck, q = VFS, Accepts(q, p) PROVE FALSE
  BY <1>4, <1>1, <1>s, Who DEF VfsStuck, Accepts, FVfs
<1>5. CASE SendLocked(p, q, m)
  <2>1. /\ state' = state /\ m_from' = m_from /\ uid' = uid /\ ppid' = ppid
        /\ sig_mask' = sig_mask /\ cur' = cur
        /\ \A x \in Pid : x # p => m_to'[x] = m_to[x] /\ d0'[x] = d0[x] /\ msg'[x] = msg[x]
        /\ m_to'[p] = q /\ d0'[p] = ELOCK /\ q \in Senders(p) /\ ~Accepts(q, p)
    BY <1>5, <1>s DEF SendLocked, Typed
  <2>2. Steady BY <2>1, <1>1, Who DEF Steady, VfsStuck
  <2>. QED BY <2>1, <2>2, <1>1, <1>2 DEF Still
<1>6. CASE Wait(p, q, {SEND, RECV}, m)
  <2>1. /\ uid' = uid /\ ppid' = ppid
        /\ \A x \in Pid : x \notin {p, q} => Still(x)
        /\ \A x \in Pid : x # p => sig_mask'[x] = sig_mask[x]
        /\ sig_mask'[p] = sig_mask[p] \ {"alrm"}
        /\ \/ /\ state'[p] = "ready" /\ d0'[p] = EABORT /\ sig_mask[p] # {}
              /\ m_from'[p] = NONE /\ m_to'[p] = NONE
           \/ /\ state'[p] = "blocked" /\ sig_mask[p] = {}
              /\ m_from'[p] = q /\ m_to'[p] \in {NONE, q}
        /\ \/ /\ Accepts(q, p) /\ state'[q] = "ready" /\ d0'[q] = p
              /\ msg'[q] = m /\ m_to'[p] = NONE
           \/ ~Accepts(q, p) /\ Still(q)
    <3>1. CASE Accepts(q, p)
      BY <1>6, <3>1, <1>1, <1>2, <1>s DEF Wait, Typed, SEND, RECV, Still
    <3>2. CASE ~Accepts(q, p)
      BY <1>6, <3>2, <1>1, <1>2, <1>s DEF Wait, Typed, SEND, RECV, Still
    <3>. QED BY <3>1, <3>2
  <2>2. sig_mask'[p] = sig_mask[p]
    <3>1. "alrm" \notin sig_mask[p] BY <1>3
    <3>. QED BY <2>1, <3>1
  <2>3. cur' = links'.ready
    <3>1. PICK K : links' = [K EXCEPT !.ready = cur'] BY <1>6, <1>2 DEF Wait
    <3>2. links' \in LinksType BY <1>s DEF IInv, TypeOK
    <3>3. "ready" \in DOMAIN links' BY <3>2 DEF LinksType
    <3>4. DOMAIN links' = DOMAIN K BY <3>1
    <3>. QED BY <3>1, <3>3, <3>4
  <2>4. state'[cur'] = "ready" BY <2>3, <1>s, HeadReady
  <2>5. Steady
    <3>1. VfsStuck => VfsStuck'
      <4>1. VfsStuck => Still(VFS) BY <2>1, <1>1, <1>4, Who
      <4>. QED BY <4>1 DEF VfsStuck, Still
    <3>. QED BY <3>1, <2>4 DEF Steady
  <2>. QED BY <2>1, <2>2, <2>5, <1>2 DEF m, Masked
<1>. QED BY <1>1, <1>5, <1>6

\* Who is ready and calls is no child being forked.
LEMMA ChildReady ==
  ASSUME FInv, NEW p \in Pid, User(p), state[p] = "ready"
  PROVE  \A g : ~Forking(g, p)
<1>1. ~Pend(p, "fork") /\ ~Inert(p) BY DEF Pend, Inert
<1>2. p # NONE BY Who
<1>. QED BY <1>1, <1>2 DEF FInv, FSys, Forking

LEMMA FUserCalls ==
  ASSUME FInv, RInv', NEW p \in Pid, UserCalls(p)
  PROVE  FInv'
<1>s. /\ RInv /\ RThreads /\ RVfs /\ RSys /\ RUsers /\ RHolds /\ FUsers /\ FFamily /\ FHolds
      /\ FSys /\ FVfs /\ Typed
  BY RTypes DEF FInv, RInv
<1>0. PICK q : q = Callee(user[p].pc) OBVIOUS
<1> DEFINE m == Request(user[p].pc, user[p].kid)
<1>m. m.type = user[p].pc /\ m.pid = user[p].kid BY DEF Request
<1>1. /\ User(p) /\ state[p] = "ready" /\ ~user[p].in /\ user[p].pc \in Calls
      /\ q \in {SYSTEM, VFS} /\ p \notin {SYSTEM, VFS, IDLE}
      /\ \A x \in Pid : x # p => user'[x] = user[x]
      /\ user'[p].in /\ user'[p].pc = user[p].pc /\ user'[p].kid = user[p].kid
      /\ user'[p].prog = user[p].prog
      /\ sys' = sys /\ vfs' = vfs
  <2>1. user'[p].prog = user[p].prog BY <1>s DEF UserCalls, RThreads
  <2>. QED BY <2>1, <1>0, <1>s, Calling
<1> HIDE DEF m
<1>2. /\ cur = p /\ uid' = uid /\ ppid' = ppid
      /\ \A x \in Pid : x \notin {p, q} => Still(x)
      /\ \A x \in Pid : sig_mask'[x] = sig_mask[x]
      /\ \/ /\ state'[p] = "ready" /\ d0'[p] = EABORT /\ Masked(p)
            /\ m_from'[p] = NONE /\ m_to'[p] = NONE
         \/ /\ state'[p] = "ready" /\ d0'[p] = ELOCK /\ q \in Senders(p) /\ ~Accepts(q, p)
            /\ m_from'[p] = m_from[p] /\ m_to'[p] = q
         \/ /\ state'[p] = "blocked" /\ ~Masked(p)
            /\ m_from'[p] = q /\ m_to'[p] \in {NONE, q}
      /\ \/ /\ Accepts(q, p) /\ state'[q] = "ready" /\ d0'[q] = p /\ msg'[q] = m
            /\ m_to'[p] = NONE
         \/ ~Accepts(q, p) /\ Still(q)
      /\ Steady
  BY <1>0, CallEffect DEF m
<1>3. p # q /\ q \in Pid /\ FUser(p) /\ RUser(p) BY <1>1, <1>s, Who DEF FUsers, RUsers
<1>4. \A x : User(x)' <=> User(x)
  <2>1. \A x \in Pid : state'[x] = "none" <=> state[x] = "none"
    BY <1>1, <1>2, <1>3 DEF Accepts, Still
  <2>. QED BY <2>1, <1>2 DEF User, IsTask
<1>5. \A x \in Pid : User(x) /\ x # p => Still(x) /\ Calm(x)
  BY <1>1, <1>2, <1>s, UserNoTask DEF Calm
<1>6. \A t \in {SYSTEM, VFS} : \A x : t \in Senders(x)' => t \in Senders(x)
  BY <1>1, <1>2, Who DEF Senders, Still
<1>7. ~Answered(p)' /\ (Masked(p)' <=> Masked(p)) BY <1>1, <1>2, Who DEF Answered, Masked
<1>8. SYSTEM \in Senders(p) => Off(p) /\ Masked(p) BY <1>1, <1>3 DEF FUser, Inert, Off
<1>9. FUser(p)'
  <2>1. state'[p] = "blocked" /\ q = VFS => user[p].pc = "vfs" BY <1>0, Who DEF Callee
  <2>2. SYSTEM \in Senders(p)' => Off(p)' BY <1>2, <1>6, <1>7, <1>8 DEF Off
  <2>3. {m_from'[p], m_to'[p]} \subseteq {NONE, SYSTEM, VFS} BY <1>1, <1>2, <1>3 DEF FUser
  <2>4. state'[p] = "blocked" /\ m_to'[p] = VFS => m_from'[p] = VFS BY <1>1, <1>2, Who
  <2>5. state'[p] = "blocked" /\ VFS \in {m_from'[p], m_to'[p]} => q = VFS BY <1>1, <1>2, Who
  <2>. QED BY <2>1, <2>2, <2>3, <2>4, <2>5, <1>1, <1>2, <1>3, <1>7 DEF FUser
<1>10. \A c : Holds(p, c)' => Holds(p, c) BY <1>1, <1>4, <1>7 DEF Holds
<1>11. \A x : User(x) /\ Inert(x) => x # p /\ Inert(x)'
  <2>1. \A x : User(x) /\ Inert(x) => x # p /\ x \in Pid BY <1>1 DEF Inert, User
  <2>. QED BY <2>1, <1>2, <1>5 DEF Inert, Steady, Still, Calm
<1>12. FVfs' BY <1>1, <1>2, <1>3, Who, FVfsKept DEF Still
<1>13. FChild(p)'
  <2>0. PICK g \in Pid : g = ppid[p] /\ ppid'[p] = g BY <1>2, <1>s DEF Typed
  <2>1. FChild(p) /\ ~Inert(p) BY <1>1, <1>s DEF FFamily, Inert
  <2>2. g = SYSTEM \/ Awaits(g, p) BY <2>0, <2>1, <1>1, <1>s, ChildReady DEF FChild
  <2>3. CASE Awaits(g, p)
    <3>1. g # p
      <4>1. ~Parent(p, p)
        <5>1. Parent(p, p) => Holds(p, p) BY <1>1 DEF Parent, Holds, Answered
        <5>. QED BY <5>1, <1>s, HeldChild
      <4>. QED BY <2>3, <4>1 DEF Awaits
    <3>2. User(g) /\ FUser(g) BY <2>3, <1>s DEF Awaits, Parent, FUsers
    <3>3. Calm(g) BY <3>1, <3>2, <1>5
    <3>4. SYSTEM \in Senders(g)' => SYSTEM \in Senders(g) BY <1>6
    <3>5. Awaits(g, p)' BY <3>2, <3>3, <3>4, <2>3, <1>2, CalmKeeps
    <3>. QED BY <3>5, <2>0 DEF FChild
  <2>. QED BY <2>0, <2>2, <2>3 DEF FChild
<1>14. ASSUME NEW x \in Pid, User(x), x # p, ppid[x] = p PROVE FChild(x)'
  <2>1. FChild(x) /\ ppid'[x] = p BY <1>14, <1>2, <1>s DEF FFamily
  <2>2. ~Pend(p, "fork") BY <1>1 DEF Pend
  <2>3. Inert(x) \/ Awaits(p, x) BY <2>1, <2>2, <1>1, <1>2, <1>14, Who DEF FChild
  <2>4. CASE Inert(x) BY <2>4, <1>11, <1>14 DEF FChild
  <2>5. CASE Awaits(p, x)
    <3>1. user[p].pc = "wait" /\ user[p].kid = x /\ ~Masked(p)
      BY <2>5, <1>1 DEF Awaits, Parent, Answered
    <3>2. q = SYSTEM BY <3>1, <1>0 DEF Callee
    <3>3. state'[p] = "blocked" BY <3>1, <3>2, <1>2, <1>8
    <3>4. Awaits(p, x)' BY <3>1, <3>3, <1>1, <1>4, <1>7 DEF Awaits, Parent
    <3>. QED BY <3>4, <2>1 DEF FChild
  <2>. QED BY <2>3, <2>4, <2>5
<1>15. ASSUME NEW a \in Pid, NEW c \in Pid, a = p \/ c = p, Holds(a, c)'
       PROVE  ppid'[c] = a /\ (user'[a].pc = "kill" => Inert(c)')
  <2>1. CASE a = p
    <3>1. Holds(p, c) BY <2>1, <1>10, <1>15
    <3>2. User(c) BY <3>1, <1>s, HeldChild
    <3>3. ppid[c] = p /\ (user[p].pc = "kill" => Inert(c)) BY <3>1, <1>s DEF FHolds
    <3>. QED BY <2>1, <3>2, <3>3, <1>1, <1>2, <1>11
  <2>2. CASE a # p
    <3>1. User(a) /\ FUser(a) BY <1>15, <1>4, <1>s DEF Holds, FUsers
    <3>2. Calm(a) BY <2>2, <3>1, <1>5
    <3>3. SYSTEM \in Senders(a)' => SYSTEM \in Senders(a) BY <1>6
    <3>4. Holds(a, c) BY <3>1, <3>2, <3>3, <1>15, <1>2, CalmKeeps
    <3>5. ~Inert(p) BY <1>1 DEF Inert
    <3>6. ppid[c] = a /\ user[a].pc # "kill" BY <2>2, <3>4, <3>5, <1>15, <1>s DEF FHolds
    <3>. QED BY <2>2, <3>6, <1>1, <1>2
  <2>. QED BY <2>1, <2>2
<1>16. ASSUME q = SYSTEM /\ Accepts(SYSTEM, p) PROVE FSys'
  <2>1. sys.pc = "got"
    <3>1. state[SYSTEM] = "blocked" /\ m_from[SYSTEM] \in {p, ANY} BY <1>16 DEF Accepts
    <3>2. p \notin {NONE, VFS} /\ ANY \notin {NONE, VFS} BY <1>1, Who
    <3>. QED BY <3>1, <3>2, <1>s DEF RSys
  <2>2. /\ d0'[SYSTEM] = p /\ msg'[SYSTEM] = m /\ m_to'[p] = NONE /\ sys'.pc = "got"
    BY <2>1, <1>1, <1>2, <1>16
  <2>3. Pend(p, user[p].pc)' \/ (Off(p)' /\ GaveUp(p)')
    <3>1. CASE state'[p] = "blocked"
      <4>1. m_from'[p] = SYSTEM /\ ~Masked(p)' BY <3>1, <1>2, <1>7, <1>16
      <4>. QED BY <3>1, <4>1, <2>2, <1>1, <1>4 DEF Pend
    <3>2. CASE state'[p] # "blocked"
      <4>1. Masked(p)' /\ state'[p] = "ready" /\ m_from'[p] = NONE
        BY <3>2, <1>2, <1>7, <1>16
      <4>. QED BY <4>1, <2>2, Who DEF Off, GaveUp
    <3>. QED BY <3>1, <3>2
  <2>5. msg'[SYSTEM].type = user[p].pc /\ msg'[SYSTEM].pid = user[p].kid BY <2>2, <1>m
  <2>6. PICK t, c : t = user[p].pc /\ c = user[p].kid OBVIOUS
  <2>7. Pend(p, t)' \/ (Off(p)' /\ GaveUp(p)') BY <2>3, <2>6, <1>1
  <2>8. t = "kill" /\ c # NONE => Inert(c)'
    <3>1. t = "kill" => Holds(p, c) BY <2>6, <1>1 DEF Holds
    <3>2. t = "kill" => c \in Pid /\ User(c) /\ Inert(c) /\ user[p].pc = "kill"
      BY <2>6, <3>1, <1>s, HeldChild DEF FHolds
    <3>. QED BY <3>2, <1>11
  <2>9. msg'[SYSTEM].type # "wait" =>
          \/ Pend(d0[SYSTEM], msg[SYSTEM].type)'
          \/ Off(d0[SYSTEM])' /\ GaveUp(d0[SYSTEM])'
    BY <2>2, <2>5, <2>6, <2>7
  <2>10. msg'[SYSTEM].type = "kill" /\ msg'[SYSTEM].pid # NONE => Inert(msg[SYSTEM].pid)'
    BY <2>5, <2>6, <2>8
  <2>. QED BY <2>2, <2>9, <2>10 DEF FSys
<1>17. ASSUME ~(q = SYSTEM /\ Accepts(SYSTEM, p)) PROVE FSys'
  <2>1. Still(SYSTEM)
    <3>1. CASE q = SYSTEM BY <3>1, <1>17, <1>2
    <3>2. CASE q # SYSTEM BY <3>2, <1>1, <1>2, Who
    <3>. QED BY <3>1, <3>2
  <2>2. Held' => Held /\ d0'[SYSTEM] = d0[SYSTEM] /\ msg'[SYSTEM] = msg[SYSTEM]
    BY <2>1, <1>1 DEF Held, Still
  <2>3. ASSUME NEW x \in Pid, User(x)
        PROVE  /\ \A call : Pend(x, call) => Pend(x, call)'
               /\ Off(x) => Off(x)'
               /\ Off(x) /\ GaveUp(x) => GaveUp(x)'
               /\ Inert(x) => Inert(x)' /\ User(x)' /\ user'[x] = user[x]
               /\ ppid'[x] = ppid[x]
    <3>1. CASE x = p
      <4>1. /\ \A call : ~Pend(p, call)
            /\ ~Inert(p)
        BY <1>1 DEF Pend, Inert
      <4>2. Off(p) => Off(p)' BY <1>2, <1>7 DEF Off
      <4>3. Off(p) /\ GaveUp(p) => GaveUp(p)'
        <5>1. VFS \in Senders(p) => VfsStuck /\ VfsStuck'
          BY <1>1, <1>2, Who DEF Senders, VfsStuck, Steady
        <5>. QED BY <5>1, <1>1, <1>2, Who DEF Off, GaveUp
      <4>. QED BY <3>1, <4>1, <4>2, <4>3, <1>2
    <3>2. CASE x # p
      <4>1. Still(x) /\ Calm(x) BY <2>3, <3>2, <1>5
      <4>2. User(x)' BY <2>3, <1>4
      <4>3. \A call : Pend(x, call) => Pend(x, call)' BY <4>1, <4>2, CalmPends
      <4>. QED BY <2>3, <4>1, <4>2, <4>3, <1>2, <1>11
               DEF Calm, Still, Off, GaveUp, Masked, Steady
    <3>. QED BY <3>1, <3>2
  <2>. QED BY <2>2, <2>3, <1>1, FSysKept
<1>18. \A a, c \in Pid : a # p /\ Forking(a, c) /\ Pend(a, "fork") =>
         Forking(a, c)' /\ Pend(a, "fork")'
  <2>1. \A a \in Pid : a # p /\ Pend(a, "fork") => Pend(a, "fork")'
    BY <1>4, <1>5, CalmPends DEF Pend
  <2>. QED BY <2>1, <1>1 DEF Forking
<1>19. PICK E : E = {p} OBVIOUS
<1>20. FSys' BY <1>16, <1>17
<1>. QED BY <1>2, <1>4, <1>5, <1>6, <1>9, <1>12, <1>13, <1>14, <1>15, <1>18, <1>19, <1>20, FFrame

\* Nobody waits for itself.
LEMMA NotOwnChild ==
  ASSUME FInv, NEW p \in Pid
  PROVE  ~Awaits(p, p)
<1>s. RInv /\ Typed BY RTypes DEF FInv
<1>1. ASSUME Awaits(p, p) PROVE Holds(p, p)
  <2>1. User(p) /\ Parent(p, p) /\ state[p] # "stopped" BY <1>1 DEF Awaits, Parent
  <2>2. p \notin {0, NONE} BY <2>1, <1>s, UserNoTask, Who
  <2>. QED BY <2>1, <2>2 DEF Parent, Holds
<1>. QED BY <1>1, <1>s, HeldChild

\* A program goes on between two calls.
LEMMA FMoves ==
  ASSUME FInv, RInv', NEW p \in Pid, User(p), state[p] = "ready", cur = p,
         UNCHANGED <<vars, sys, vfs>>,
         NEW u, user' = [user EXCEPT ![p] = u], ~u.in,
         u.prog = "leaf" => u.pc \in {"vfs", "exit", "none"},
         Masked(p) => u.prog # "leaf" /\ u.pc # "exec",
         \A x : Awaits(p, x) =>
           \/ u.pc = "wait" /\ u.kid = x
           \/ ~(x \in Pid /\ User(x) /\ ppid[x] = p)
           \/ Inert(x),
         u.pc \in {"wait", "kill"} => Holds(p, u.kid),
         u.pc = "kill" => Inert(u.kid)
  PROVE  FInv'
<1>s. /\ RInv /\ RThreads /\ FUsers /\ FFamily /\ FHolds /\ FVfs /\ Typed
  BY RTypes DEF FInv, RInv
<1>1. /\ state' = state /\ m_from' = m_from /\ m_to' = m_to /\ d0' = d0
      /\ msg' = msg /\ uid' = uid /\ sig_mask' = sig_mask /\ ppid' = ppid /\ cur' = cur
      /\ sys' = sys /\ vfs' = vfs
      /\ \A x \in Pid : x # p => user'[x] = user[x]
      /\ user'[p] = u
  BY <1>s DEF vars, ipc, Typed
<1>2. \A x : User(x)' <=> User(x) BY <1>1 DEF User, IsTask
<1>3. \A x \in Pid : User(x) /\ x # p => Still(x) /\ Calm(x) BY <1>1 DEF Still, Calm
<1>4. Steady BY <1>1 DEF Steady, VfsStuck
<1>5. FVfs' BY <1>1, <1>s DEF FVfs
<1>6. \A t, x : t \in Senders(x)' => t \in Senders(x) BY <1>1 DEF Senders
<1>7. FUser(p) /\ ~Inert(p) /\ \A call : ~Pend(p, call) BY <1>s DEF FUsers, Inert, Pend
<1>8. FUser(p)'
  <2>1. SYSTEM \in Senders(p)' => Off(p)' BY <1>1, <1>6, <1>7 DEF FUser, Off, Masked
  <2>2. Masked(p)' <=> Masked(p) BY <1>1 DEF Masked
  <2>. QED BY <2>1, <2>2, <1>1, <1>7 DEF FUser, Answered
<1>9. \A x : User(x) /\ Inert(x) => Inert(x)'
  <2>1. \A x : User(x) /\ Inert(x) => x # p /\ x \in Pid BY <1>7 DEF User
  <2>. QED BY <2>1, <1>1 DEF Inert, VfsStuck
<1>10. FChild(p)'
  <2>0. PICK g \in Pid : g = ppid[p] /\ ppid'[p] = g BY <1>1, <1>s DEF Typed
  <2>1. FChild(p) BY <1>s DEF FFamily
  <2>2. g = SYSTEM \/ Awaits(g, p) BY <2>0, <2>1, <1>7, ChildReady DEF FChild
  <2>3. CASE Awaits(g, p)
    <3>1. g # p BY <2>3, NotOwnChild
    <3>2. User(g) BY <2>3 DEF Awaits, Parent
    <3>3. Awaits(g, p)' BY <3>1, <3>2, <2>3, <1>1, <1>2 DEF Awaits, Parent, Answered, Masked
    <3>. QED BY <3>3, <2>0 DEF FChild
  <2>. QED BY <2>0, <2>2, <2>3 DEF FChild
<1>11. ASSUME NEW x \in Pid, User(x), x # p, ppid[x] = p PROVE FChild(x)'
  <2>1. FChild(x) /\ ppid'[x] = p BY <1>11, <1>1, <1>s DEF FFamily
  <2>2. p # SYSTEM BY <1>s, UserNoTask
  <2>3. Inert(x) \/ Awaits(p, x) BY <2>1, <2>2, <1>7, <1>11 DEF FChild
  <2>4. CASE Inert(x) BY <2>4, <1>9, <1>11 DEF FChild
  <2>5. CASE Awaits(p, x) /\ ~Inert(x)
    <3>1. u.pc = "wait" /\ u.kid = x /\ ~Masked(p) BY <2>5, <1>11 DEF Awaits
    <3>2. Awaits(p, x)' BY <3>1, <1>1, <1>2 DEF Awaits, Parent, Masked
    <3>. QED BY <3>2, <2>1 DEF FChild
  <2>. QED BY <2>3, <2>4, <2>5
<1>12. ASSUME NEW a \in Pid, NEW c \in Pid, a = p \/ c = p, Holds(a, c)'
       PROVE  ppid'[c] = a /\ (user'[a].pc = "kill" => Inert(c)')
  <2>1. CASE a = p
    <3>1. u.pc \in {"wait", "kill"} /\ u.kid = c
      BY <2>1, <1>1, <1>12 DEF Holds, Answered
    <3>2. Holds(p, c) BY <3>1
    <3>3. User(c) /\ ppid[c] = p BY <3>2, <1>s, HeldChild DEF FHolds
    <3>4. u.pc = "kill" => Inert(c)' BY <3>1, <3>3, <1>9
    <3>. QED BY <2>1, <3>3, <3>4, <1>1
  <2>2. CASE a # p
    <3>1. Holds(a, c) BY <2>2, <1>1, <1>2, <1>12 DEF Holds, Answered
    <3>2. ppid[c] = a /\ user[a].pc # "kill" BY <2>2, <3>1, <1>7, <1>12, <1>s DEF FHolds
    <3>. QED BY <2>2, <3>2, <1>1
  <2>. QED BY <2>1, <2>2
<1>13. FSys'
  <2>1. Held' => Held /\ d0'[SYSTEM] = d0[SYSTEM] /\ msg'[SYSTEM] = msg[SYSTEM]
    BY <1>1 DEF Held
  <2>2. ASSUME NEW x \in Pid, User(x)
        PROVE  /\ \A call : Pend(x, call) => Pend(x, call)'
               /\ Off(x) => Off(x)'
               /\ Off(x) /\ GaveUp(x) => GaveUp(x)'
               /\ Inert(x) => Inert(x)' /\ User(x)' /\ user'[x] = user[x]
               /\ ppid'[x] = ppid[x]
    <3>1. \A call : Pend(x, call) => Pend(x, call)'
      BY <2>2, <1>1, <1>2, <1>7 DEF Pend, Masked
    <3>2. Inert(x) => Inert(x)' /\ user'[x] = user[x] BY <2>2, <1>1, <1>7, <1>9
    <3>. QED BY <2>2, <3>1, <3>2, <1>1, <1>2 DEF Off, GaveUp, Masked, VfsStuck
  <2>. QED BY <2>1, <2>2, <1>1, FSysKept
<1>14. \A a, c \in Pid : a # p /\ Forking(a, c) /\ Pend(a, "fork") =>
         Forking(a, c)' /\ Pend(a, "fork")'
  <2>1. \A a \in Pid : a # p /\ Pend(a, "fork") => Pend(a, "fork")'
    BY <1>1, <1>2 DEF Pend, Masked
  <2>. QED BY <2>1, <1>1 DEF Forking
<1>15. PICK E : E = {p} OBVIOUS
<1>. QED BY <1>2, <1>3, <1>4, <1>5, <1>6, <1>8, <1>10, <1>11, <1>12, <1>13, <1>14, <1>15, FFrame

LEMMA FUserReturns ==
  ASSUME FInv, RInv', NEW p \in Pid, UserReturns(p)
  PROVE  FInv'
<1>s. RInv /\ RThreads /\ RUsers /\ FUsers /\ FHolds /\ FFamily /\ Typed
  BY RTypes DEF FInv, RInv
<1>1. /\ state[p] = "ready" /\ ~IsTask(p) /\ user[p].in /\ UNCHANGED <<vars, sys, vfs>>
      /\ cur = p
  BY DEF UserReturns, UserRuns, Running
<1>2. User(p) /\ RUser(p) /\ FUser(p) /\ p # SYSTEM /\ p # 0
  BY <1>1, <1>s, UserNoTask, Who DEF User, RUsers, FUsers
<1> DEFINE v == Value(p)
           a == user[p]
<1>3. PICK u \in After(a, v) : user' = [user EXCEPT ![p] = u] BY DEF UserReturns
<1>4. /\ a.pc \in Calls /\ a.prog \in {"init", "shell", "leaf"} /\ a.kid \in Pid \cup {NONE}
      /\ a.prog = "leaf" => a.pc \in {"vfs", "exit"}
      /\ Masked(p) => a.prog # "leaf" /\ a.pc # "exec"
  <2>1. a.pc # "none" BY <1>1, <1>2 DEF RUser, Calls
  <2>. QED BY <2>1, <1>1, <1>2, <1>s DEF RUser, RThreads, FUser
<1>5. /\ a.pc = "exec" => v \in {0, NONE}
      /\ a.pc = "fork" => v \in Pid \cup {NONE}
      /\ a.pc = "fork" /\ v # NONE => Answered(p) /\ v = msg[p].val
  BY <1>1, <1>2 DEF Value, Callee, RUser, Answered
<1>6. \A x : Awaits(p, x) => a.pc = "fork" /\ x = v
  <2>1. \A x : Awaits(p, x) => a.pc = "fork" /\ d0[p] = SYSTEM /\ msg[p].val = x
    BY <1>1 DEF Awaits, Parent, Answered
  <2>. QED BY <2>1 DEF Value, Callee
<1>7. Masked(p) /\ a.pc = "fork" => v # 0
  BY <1>2, <1>5 DEF FUser, NONE
<1>0. 0 # NONE BY DEF NONE
<1> HIDE DEF v
<1>8. CASE a.pc = "fork" /\ v \notin {0, NONE}
  <2>1. u = Resume(a.prog, "wait", v) BY <1>0, <1>8, AfterCall
  <2>2. Holds(p, v) BY <1>1, <1>2, <1>5, <1>8 DEF Holds
  <2>3. u.pc = "wait" /\ ~u.in /\ u.kid = v /\ u.prog = a.prog BY <2>1 DEF Resume
  <2>4. a.prog # "leaf" BY <1>4, <1>8
  <2>. QED BY <2>2, <2>3, <2>4, <1>1, <1>2, <1>3, <1>6, FMoves
<1>9. CASE a.pc = "wait"
  <2>1. u = Resume(a.prog, "kill", a.kid) BY <1>9, AfterCall
  <2>2. PICK k : k = a.kid OBVIOUS
  <2>3. Holds(p, k) BY <1>1, <1>2, <1>9, <2>2 DEF Holds
  <2>4. User(k) /\ k \in Pid /\ k # p /\ ppid[k] = p /\ FChild(k)
    BY <2>3, <1>s, HeldChild DEF FHolds, FFamily
  <2>5. Inert(k)
    <3>1. ~Awaits(p, k) BY <1>6, <1>9
    <3>2. ~Pend(p, "fork") BY <1>1 DEF Pend
    <3>. QED BY <3>1, <3>2, <2>4, <1>1, <1>2 DEF FChild
  <2>6. u.pc = "kill" /\ ~u.in /\ u.kid = k /\ u.prog = a.prog BY <2>1, <2>2 DEF Resume
  <2>7. a.prog # "leaf" BY <1>4, <1>9
  <2>8. \A x : ~Awaits(p, x) BY <1>6, <1>9
  <2>. QED BY <2>3, <2>5, <2>6, <2>7, <2>8, <1>1, <1>2, <1>3, FMoves
<1>10. CASE ~(a.pc = "fork" /\ v \notin {0, NONE}) /\ a.pc # "wait"
  <2>1. PICK x \in {"init", "shell", "leaf"}, y \in {"fork", "exit", "vfs", "exec", "none"} :
          /\ u = Resume(x, y, NONE)
          /\ x = "leaf" => y \in {"vfs", "exit", "none"}
          /\ Masked(p) => x # "leaf" /\ y # "exec"
    <3>1. CASE a.pc = "vfs" BY <3>1, <1>4, AfterCall
    <3>2. CASE a.pc = "fork" /\ v = NONE BY <3>2, <1>4, AfterCall
    <3>3. CASE a.pc = "fork" /\ v = 0
      <4>1. u = Resume(a.prog, "exec", NONE) BY <1>0, <3>3, AfterCall
      <4>2. ~Masked(p) /\ a.prog # "leaf" BY <1>4, <1>7, <3>3
      <4>. QED BY <4>1, <4>2, <1>4
    <3>4. CASE a.pc = "kill" BY <3>4, <1>4, AfterCall
    <3>5. CASE a.pc = "exec"
      <4>0. ~Masked(p) /\ a.prog # "leaf" BY <3>5, <1>4
      <4>1. CASE v = 0 BY <3>5, <4>0, <4>1, AfterCall
      <4>2. CASE v = NONE BY <1>0, <3>5, <4>0, <4>2, <1>4, AfterCall
      <4>. QED BY <4>1, <4>2, <3>5, <1>5
    <3>6. CASE a.pc = "exit" BY <3>6, <1>4, AfterCall
    <3>. QED BY <3>1, <3>2, <3>3, <3>4, <3>5, <3>6, <1>4, <1>5, <1>10 DEF Calls
  <2>2. ~u.in /\ u.pc = y /\ u.prog = x BY <2>1 DEF Resume
  <2>3. \A k : Awaits(p, k) => ~(k \in Pid /\ User(k) /\ ppid[k] = p)
    <3>1. \A k : Awaits(p, k) => k \in {0, NONE} BY <1>6, <1>10
    <3>2. ~User(0) /\ ~User(NONE) BY <1>s, UserNoTask, Who
    <3>. QED BY <3>1, <3>2
  <2>4. u.pc \notin {"wait", "kill"} BY <2>2
  <2>. QED BY <2>1, <2>2, <2>3, <2>4, <1>1, <1>2, <1>3, FMoves
<1>. QED BY <1>8, <1>9, <1>10

LEMMA FShellEnds ==
  ASSUME FInv, RInv', NEW p \in Pid, ShellEnds(p)
  PROVE  FInv'
<1>s. RInv /\ RThreads /\ FUsers BY DEF FInv, RInv
<1>1. /\ state[p] = "ready" /\ ~IsTask(p) /\ ~user[p].in /\ UNCHANGED <<vars, sys, vfs>>
      /\ user[p].prog = "shell" /\ user[p].pc = "fork" /\ cur = p
      /\ user' = [user EXCEPT ![p].pc = "exit"]
  BY DEF ShellEnds, UserRuns, Running
<1>2. User(p) BY <1>1 DEF User
<1>3. PICK u : u = [user[p] EXCEPT !.pc = "exit"] OBVIOUS
<1>4. user' = [user EXCEPT ![p] = u] BY <1>1, <1>3
<1>5. ~u.in /\ u.pc = "exit" /\ u.prog = "shell" BY <1>1, <1>3, <1>s DEF RThreads
<1>6. \A x : ~Awaits(p, x) BY <1>1 DEF Awaits, Parent, Answered
<1>. QED BY <1>1, <1>2, <1>4, <1>5, <1>6, FMoves

\* What the end of c does to it, to its parent q and to the others.
LEMMA StopEffect ==
  ASSUME Typed, NEW c \in Pid, NEW q \in Pid, q = ppid[c], q # c, ProcExit(c),
         UNCHANGED <<vfs, user>>
  PROVE  /\ ppid' = ppid /\ uid' = uid /\ msg' = msg /\ cur' = cur /\ vfs' = vfs /\ user' = user
         /\ \A x \in Pid : x \notin {c, q} => Still(x) /\ sig_mask'[x] = sig_mask[x]
         /\ state'[c] = "stopped" /\ m_from'[c] = m_from[c] /\ m_to'[c] = m_to[c]
         /\ sig_mask'[c] = sig_mask[c]
         /\ IF state[q] = "blocked"
            THEN /\ state'[q] = "ready" /\ m_from'[q] = NONE /\ m_to'[q] = NONE
                 /\ d0'[q] = EABORT /\ sig_mask'[q] = sig_mask[q]
            ELSE /\ Still(q)
                 /\ sig_mask'[q] = sig_mask[q] \/ sig_mask'[q] = sig_mask[q] \cup {"child"}
BY DEF ProcExit, ProcSig, Typed, Still

\* A process stops that has no child to wait for, and its parent is told, if
\* it is still there and not the system task.
LEMMA FStops ==
  ASSUME FInv, RInv', NEW c \in Pid, User(c), ProcExit(c), UNCHANGED <<vfs, user>>, FSys',
         ~Inert(c), ~Pend(c, "fork"), cur \in {c, SYSTEM}, \A x : ~Awaits(c, x),
         cur = c => ~Masked(c), cur = SYSTEM => state[SYSTEM] = "ready",
         \A g : ~Forking(g, c), \A g, x : Forking(g, x) => Forking(g, x)'
  PROVE  FInv'
<1>s. /\ RInv /\ RThreads /\ RHolds /\ RHolds' /\ FUsers /\ FFamily /\ FHolds /\ FSys /\ FVfs /\ Typed
  BY RTypes DEF FInv, RInv
<1>0. PICK q \in Pid : q = ppid[c] /\ ppid[c] = q BY <1>s DEF Typed
<1>1. /\ c \notin {SYSTEM, VFS} /\ q # VFS /\ FUser(c)
      /\ q = SYSTEM \/ Awaits(q, c) \/ (Parent(q, c) /\ state[q] = "ready" /\ state[c] = "stopped")
  <2>1. FChild(c) BY <1>s DEF FFamily
  <2>. QED BY <2>1, <1>0, <1>s, UserNoTask DEF FChild, FVfs, FUsers
<1>2. q # c
  <2>1. ~Awaits(c, c) BY NotOwnChild
  <2>2. state[c] = "ready" => state[c] # "stopped" OBVIOUS
  <2>. QED BY <2>1, <2>2, <1>1
<1>3. /\ ppid' = ppid /\ uid' = uid /\ msg' = msg /\ cur' = cur /\ vfs' = vfs /\ user' = user
      /\ \A x \in Pid : x \notin {c, q} => Still(x) /\ sig_mask'[x] = sig_mask[x]
      /\ state'[c] = "stopped" /\ m_from'[c] = m_from[c] /\ m_to'[c] = m_to[c]
      /\ sig_mask'[c] = sig_mask[c]
      /\ IF state[q] = "blocked"
         THEN /\ state'[q] = "ready" /\ m_from'[q] = NONE /\ m_to'[q] = NONE
              /\ d0'[q] = EABORT /\ sig_mask'[q] = sig_mask[q]
         ELSE /\ Still(q)
              /\ sig_mask'[q] = sig_mask[q] \/ sig_mask'[q] = sig_mask[q] \cup {"child"}
  BY <1>0, <1>2, <1>s, StopEffect
<1>4. \A x : User(x)' <=> User(x)
  <2>1. \A x \in Pid : state'[x] = "none" <=> state[x] = "none"
    BY <1>3 DEF User, Still
  <2>. QED BY <2>1, <1>3 DEF User, IsTask
<1>5. \A x \in Pid : User(x) /\ x \notin {c, q} => Still(x) /\ Calm(x)
  BY <1>3 DEF Calm
<1>6. \A x : SYSTEM \in Senders(x)' => SYSTEM \in Senders(x)
  BY <1>1, <1>3, Who DEF Senders, Still
<1>7. Still(VFS) BY <1>1, <1>3, Who
<1>8. Steady BY <1>3, <1>7 DEF Steady, VfsStuck, Still
<1>9. FVfs' BY <1>3, <1>7, FVfsKept DEF Still
<1>10. \A x \in Pid : User(x) /\ x \notin {c, q} /\ Inert(x) => Inert(x)'
  BY <1>3, <1>5, <1>8 DEF Inert, Still, Steady
<1>11. cur = SYSTEM => Inert(c)' BY <1>1, <1>3 DEF Inert
<1>12. q # SYSTEM =>
         /\ User(q) /\ FUser(q) /\ Parent(q, c) /\ ~Inert(q)
         /\ state[q] = "ready" \/ (state[q] = "blocked" /\ user[q].pc = "wait")
         /\ state'[q] = "ready" /\ Parent(q, c)'
  <2> SUFFICES ASSUME q # SYSTEM
               PROVE  /\ User(q) /\ FUser(q) /\ Parent(q, c) /\ ~Inert(q)
                      /\ state[q] = "ready" \/ (state[q] = "blocked" /\ user[q].pc = "wait")
                      /\ state'[q] = "ready" /\ Parent(q, c)'
    OBVIOUS
  <2>1. Parent(q, c) /\ User(q) BY <1>1 DEF Awaits, Parent
  <2>2. state[q] = "ready" \/ (state[q] = "blocked" /\ user[q].pc = "wait")
    BY <2>1, <1>1 DEF Awaits, Parent, Answered
  <2>3. ~Inert(q) BY <2>2 DEF Inert
  <2>4. state'[q] = "ready" /\ (state[q] = "ready" => d0'[q] = d0[q])
    BY <2>2, <1>3 DEF Still
  <2>5. Parent(q, c)' BY <2>1, <2>2, <2>4, <1>3, <1>4 DEF Parent, Answered
  <2>. QED BY <2>1, <2>2, <2>3, <2>4, <2>5, <1>s DEF FUsers
<1>13. FUser(c)'
  <2>1. ~Answered(c)' BY <1>3 DEF Answered
  <2>2. SYSTEM \notin Senders(c)' \/ Inert(c)'
    <3>1. CASE cur = SYSTEM BY <3>1, <1>11
    <3>2. CASE cur = c
      <4>1. SYSTEM \notin Senders(c) BY <3>2, <1>1 DEF FUser, Off
      <4>. QED BY <4>1, <1>6
    <3>. QED BY <3>1, <3>2
  <2>. QED BY <2>1, <2>2, <1>1, <1>3 DEF FUser, Masked
<1>14. FChild(c)'
  <2>1. CASE cur = SYSTEM BY <2>1, <1>11 DEF FChild
  <2>2. CASE cur = c /\ q # SYSTEM BY <2>2, <1>0, <1>3, <1>12 DEF FChild
  <2>3. CASE q = SYSTEM BY <2>3, <1>0, <1>3 DEF FChild
  <2>. QED BY <2>1, <2>2, <2>3
<1>15. q # SYSTEM => FUser(q)'
  <2> SUFFICES ASSUME q # SYSTEM PROVE FUser(q)'
    OBVIOUS
  <2>1. /\ User(q) /\ FUser(q) /\ Parent(q, c) /\ ~Inert(q) /\ state'[q] = "ready"
    BY <1>12
  <2>2. user[q].pc \in {"wait", "fork"} /\ user[q].prog # "leaf" BY <2>1 DEF Parent, FUser
  <2>3. ~(Answered(q)' /\ user'[q].pc = "fork" /\ msg'[q].val = 0)
    <3>1. Parent(q, c)' BY <1>12
    <3>2. c # 0 BY <1>1, Who
    <3>. QED BY <3>1, <3>2 DEF Parent
  <2>4. SYSTEM \in Senders(q)' => Off(q)'
    <3>1. SYSTEM \in Senders(q)' => Off(q) BY <2>1, <1>6 DEF FUser
    <3>. QED BY <3>1, <1>3 DEF Off, Masked, Still
  <2>5. {m_from'[q], m_to'[q]} \subseteq {NONE, SYSTEM, VFS} /\ sig_mask'[q] \subseteq {"child"}
    BY <2>1, <1>3 DEF FUser, Still
  <2>. QED BY <2>1, <2>2, <2>3, <2>4, <2>5, <1>3 DEF FUser
<1>16. q # SYSTEM => FChild(q)'
  <2> SUFFICES ASSUME q # SYSTEM PROVE FChild(q)'
    OBVIOUS
  <2>0. PICK g \in Pid : g = ppid[q] /\ ppid'[q] = g BY <1>3, <1>s DEF Typed
  <2>1. FChild(q) /\ ~Inert(q) /\ User(q) BY <1>12, <1>s DEF FFamily
  <2>2. ~Forking(g, q)
    <3>1. ~Pend(q, "fork") BY <1>12 DEF Pend
    <3>. QED BY <2>1, <3>1, <1>s, Who DEF Forking, FSys
  <2>3. g = SYSTEM \/ Awaits(g, q) BY <2>0, <2>1, <2>2, <1>12 DEF FChild
  <2>4. CASE Awaits(g, q)
    <3>1. g # q /\ g # c BY <2>4, NotOwnChild
    <3>2. User(g) /\ FUser(g) BY <2>4, <1>s DEF Awaits, Parent, FUsers
    <3>3. Calm(g) BY <3>1, <3>2, <1>5
    <3>4. Awaits(g, q)' BY <2>4, <3>2, <3>3, <1>6, <1>8, CalmKeeps
    <3>. QED BY <2>0, <3>4 DEF FChild
  <2>. QED BY <2>0, <2>3, <2>4 DEF FChild
<1>17. ASSUME NEW x \in Pid, User(x), x \notin {c, q}, ppid[x] \in {c, q} PROVE FChild(x)'
  <2>1. FChild(x) /\ ppid'[x] = ppid[x] BY <1>17, <1>3, <1>s DEF FFamily
  <2>2. CASE ppid[x] = c
    <3>1. cur # x BY <1>17, <1>s, UserNoTask
    <3>2. Inert(x) BY <2>1, <2>2, <3>1, <1>1 DEF FChild
    <3>. QED BY <3>2, <1>10, <1>17 DEF FChild
  <2>3. CASE ppid[x] = q /\ q # SYSTEM
    <3>1. ~Parent(q, x) BY <2>3, <1>12, <1>17 DEF Parent
    <3>2. ~Pend(q, "fork") BY <2>3, <1>12 DEF Pend
    <3>3. Inert(x) BY <2>1, <2>3, <3>1, <3>2 DEF FChild, Awaits
    <3>. QED BY <3>3, <1>10, <1>17 DEF FChild
  <2>4. CASE ppid[x] = q /\ q = SYSTEM BY <2>1, <2>4 DEF FChild
  <2>. QED BY <2>2, <2>3, <2>4, <1>17
<1>18. ASSUME NEW a \in Pid, NEW k \in Pid, a \in {c, q} \/ k \in {c, q}, Holds(a, k)'
       PROVE  ppid'[k] = a /\ (user'[a].pc = "kill" => Inert(k)')
  <2>1. a # c /\ User(a) BY <1>3, <1>4, <1>18 DEF Holds
  <2>2. User(k) /\ k # SYSTEM /\ a # SYSTEM BY <2>1, <1>4, <1>18, <1>s, UserNoTask DEF RHolds
  <2>3. CASE a = q
    <3>1. Parent(q, c) /\ user[q].pc # "kill" BY <2>2, <2>3, <1>12 DEF Parent
    <3>2. Answered(q)' => Answered(q) BY <1>3, Who DEF Answered, Still
    <3>3. state[q] # "stopped" BY <2>2, <2>3, <1>12
    <3>4. Holds(q, k) BY <2>1, <2>3, <3>1, <3>2, <3>3, <1>3, <1>18 DEF Holds
    <3>. QED BY <2>3, <3>1, <3>4, <1>3, <1>s DEF FHolds
  <2>4. CASE a # q
    <3>1. FUser(a) /\ Calm(a) BY <2>1, <2>4, <1>5, <1>s DEF FUsers
    <3>2. Holds(a, k) BY <2>1, <3>1, <1>6, <1>8, <1>18, CalmKeeps
    <3>3. ppid[k] = a /\ (user[a].pc = "kill" => Inert(k)) BY <3>2, <1>s DEF FHolds
    <3>4. k # c BY <3>3, <2>4, <1>0
    <3>5. k = q BY <3>4, <2>4, <2>1, <1>18
    <3>6. ~Inert(k) BY <3>5, <2>2, <1>12
    <3>. QED BY <3>3, <3>6, <1>3
  <2>. QED BY <2>3, <2>4
<1>19. \A a, x \in Pid : a \notin {c, q} /\ Forking(a, x) /\ Pend(a, "fork") =>
         Forking(a, x)' /\ Pend(a, "fork")'
  <2>1. \A a \in Pid : a \notin {c, q} /\ Pend(a, "fork") => Pend(a, "fork")'
    BY <1>4, <1>5, CalmPends DEF Pend
  <2>. QED BY <2>1
<1>20. ~User(SYSTEM) BY <1>s, UserNoTask
<1>21. PICK E : E = {c, q} OBVIOUS
<1>. QED BY <1>4, <1>5, <1>6, <1>8, <1>9, <1>13, <1>14, <1>15, <1>16, <1>17, <1>18, <1>19,
            <1>20, <1>21, FFrame

LEMMA FSysExit ==
  ASSUME FInv, RInv', SysExit
  PROVE  FInv'
<1>s. RInv /\ RThreads /\ Typed /\ FSys BY RTypes DEF FInv, RInv
<1>1. /\ SysGot("exit") /\ Exit(d0[SYSTEM]) /\ sys' = [sys EXCEPT !.pc = "recv"]
      /\ UNCHANGED <<vfs, user>> /\ cur = SYSTEM
  BY DEF SysExit, SysGo, SysGot, SysAt, Running
<1>2. PICK c : c = d0[SYSTEM] OBVIOUS
<1>3. /\ c \in Pid /\ User(c) /\ state[SYSTEM] = "ready" /\ sys.pc = "got" /\ c # SYSTEM
      /\ Held /\ msg[SYSTEM].type = "exit"
  BY <1>1, <1>2, <1>s, Has, UserNoTask DEF Calls
<1>4. Pend(c, "exit") \/ Off(c) BY <1>2, <1>3, <1>s DEF FSys
<1>5. ~Inert(c) /\ ~Pend(c, "fork") /\ \A x : ~Awaits(c, x)
  BY <1>4, Who DEF Pend, Off, Inert, Awaits, Parent, Answered
<1>6. ProcExit(c) BY <1>1, <1>2 DEF Exit
<1>7. sys'.pc = "recv" BY <1>1, <1>s DEF RThreads
<1>8. FSys' BY <1>7 DEF FSys, Held
<1>9. \A g, x : ~Forking(g, x) BY <1>3 DEF Forking
<1>. QED BY <1>1, <1>3, <1>5, <1>6, <1>8, <1>9, FStops

\* What the system task has is not the program that takes an exception, nor
\* its parent, unless that one has given up its call.
LEMMA FLeafFaults ==
  ASSUME FInv, RInv', NEW p \in Pid, LeafFaults(p)
  PROVE  FInv'
<1>s. RInv /\ IInv /\ Typed /\ FSys /\ FVfs /\ FUsers /\ FFamily BY RTypes DEF FInv, RInv
<1>1. /\ cur = p /\ irq = "off" /\ ~IsTask(p) /\ ProcExit(p) /\ sys' = sys
      /\ UNCHANGED <<vfs, user>> /\ user[p].prog = "leaf"
  BY DEF LeafFaults, Fault, threads
<1>2. state[p] \in {"ready", "stopped"}
  <2>1. links.ready \in Is("ready") BY <1>s, IdleIsReady
  <2>. QED BY <2>1, <1>1, <1>s DEF IInv, OnCpu, Is
<1>3. User(p) /\ FUser(p) /\ FChild(p) /\ p # SYSTEM /\ p # VFS
  BY <1>1, <1>2, <1>s, Who DEF User, FUsers, FFamily, IsTask, Typed
<1>4. /\ ~Inert(p) /\ ~Masked(p) /\ \A x : ~Awaits(p, x)
      /\ \A call : ~Pend(p, call)
  BY <1>1, <1>2, <1>3 DEF Inert, FUser, Awaits, Parent, Pend
<1>5. \A g : ~Forking(g, p)
  <2>1. p # NONE BY Who
  <2>. QED BY <2>1, <1>4, <1>s DEF Forking, FSys
<1>6. PICK q \in Pid : q = ppid[p] BY <1>s DEF Typed
<1>7. q = SYSTEM \/ Awaits(q, p) \/ (Parent(q, p) /\ state[q] = "ready" /\ state[p] = "stopped")
  BY <1>3, <1>4, <1>5, <1>6 DEF FChild
<1>8. q # p /\ q # VFS
  <2>1. ~Awaits(p, p) BY NotOwnChild
  <2>2. state[p] = "ready" => state[p] # "stopped" OBVIOUS
  <2>. QED BY <2>1, <2>2, <1>3, <1>6, <1>7, <1>s DEF FVfs
<1>9. /\ ppid' = ppid /\ uid' = uid /\ msg' = msg /\ cur' = cur /\ vfs' = vfs /\ user' = user
      /\ \A x \in Pid : x \notin {p, q} => Still(x) /\ sig_mask'[x] = sig_mask[x]
      /\ IF state[q] = "blocked"
         THEN state'[q] = "ready" /\ d0'[q] = EABORT
         ELSE /\ Still(q)
              /\ sig_mask'[q] = sig_mask[q] \/ sig_mask'[q] = sig_mask[q] \cup {"child"}
  BY <1>1, <1>6, <1>8, <1>s, StopEffect
<1>10. Steady BY <1>3, <1>8, <1>9, Who DEF Steady, VfsStuck, Still
<1>11. q # SYSTEM => /\ ~Inert(q)
                     /\ state[q] = "ready" \/ (state[q] = "blocked" /\ user[q].pc = "wait")
  BY <1>7 DEF Awaits, Parent, Answered, Inert
<1>12. Held' => Held /\ d0'[SYSTEM] = d0[SYSTEM] /\ msg'[SYSTEM] = msg[SYSTEM]
  BY <1>1, <1>3, <1>9, Who DEF Held, Still
<1>13. ASSUME NEW x \in Pid, User(x)
       PROVE  /\ \A call \in Calls \ {"wait"} : Pend(x, call) => Pend(x, call)'
              /\ Off(x) => Off(x)'
              /\ Off(x) /\ GaveUp(x) => GaveUp(x)'
              /\ Inert(x) => Inert(x)' /\ User(x)' /\ user'[x] = user[x]
              /\ ppid'[x] = ppid[x]
  <2>0. x # SYSTEM BY <1>13, <1>s, UserNoTask
  <2>1. CASE x = p BY <2>1, <1>4, <1>9 DEF Off
  <2>2. CASE x = q
    <3>1. \A call \in Calls \ {"wait"} : ~Pend(x, call) BY <2>0, <2>2, <1>11 DEF Pend
    <3>2. Off(x) => Off(x)' BY <2>2, <1>9 DEF Off, Masked, Still
    <3>3. Off(x) /\ GaveUp(x) => GaveUp(x)'
      BY <2>2, <1>9, <1>10 DEF Off, GaveUp, Still, Steady
    <3>. QED BY <2>0, <2>2, <3>1, <3>2, <3>3, <1>9, <1>11
  <2>3. CASE x \notin {p, q}
    <3>1. Still(x) /\ sig_mask'[x] = sig_mask[x] BY <2>3, <1>9
    <3>2. Calm(x) /\ User(x)' BY <3>1, <1>9, <1>13 DEF Calm, Still, User, IsTask
    <3>3. \A call : Pend(x, call) => Pend(x, call)' BY <3>1, <3>2, CalmPends
    <3>4. Off(x) => Off(x)' BY <3>1 DEF Off, Masked, Still
    <3>5. GaveUp(x) => GaveUp(x)' BY <3>1, <1>10 DEF GaveUp, Still, Steady
    <3>6. Inert(x) => Inert(x)' BY <3>1, <1>9, <1>10 DEF Inert, Still, Steady
    <3>. QED BY <3>2, <3>3, <3>4, <3>5, <3>6, <1>9
  <2>. QED BY <2>1, <2>2, <2>3
<1>14. FSys' BY <1>1, <1>12, <1>13, FSysKept
<1>15. \A g, x : Forking(g, x) => Forking(g, x)' BY <1>1 DEF Forking
<1>16. cur # SYSTEM BY <1>1, <1>3
<1>. QED BY <1>1, <1>3, <1>4, <1>5, <1>14, <1>15, <1>16, FStops

\* Until init is there no process runs a program.
LEMMA FBootServer ==
  ASSUME FInv, RInv', sys.pc = "boot", CreateTask(VFS), SysGo("init"), UNCHANGED <<vfs, user>>
  PROVE  FInv'
<1>s. RInv /\ RThreads /\ RTasks /\ Typed /\ FVfs BY RTypes DEF FInv, RInv
<1>1. /\ sys'.pc = "init" /\ state'[VFS] = "ready"
      /\ \A p \in Pid : ppid'[p] = IF p = VFS THEN SYSTEM ELSE ppid[p]
      /\ \A p \in Pid : uid'[p] = IF p = VFS THEN KERNEL ELSE uid[p]
  BY <1>s, Who DEF CreateTask, Fresh, SysGo, Typed, RThreads
<1>2. \A p : ~User(p)' BY <1>s, <1>1 DEF RTasks, RTask, IsTask, User
<1>3. FVfs' BY <1>1, <1>s, Who DEF FVfs
<1>4. FSys' BY <1>1 DEF FSys, Held
<1>5. FUsers' /\ FFamily' /\ FHolds' BY <1>2 DEF FUsers, FFamily, FHolds, Holds
<1>. QED BY <1>3, <1>4, <1>5 DEF FInv

LEMMA FBootInit ==
  ASSUME FInv, RInv', sys.pc = "init", CreateInit,
         sys' = [sys EXCEPT !.pc = "start", !.child = links.free],
         UNCHANGED <<vfs, user>>
  PROVE  FInv'
<1>s. /\ RInv /\ RThreads /\ RTasks /\ RVfs /\ Typed /\ IInv BY RTypes DEF FInv, RInv
<1>0. PICK c : c = links.free OBVIOUS
<1>1. /\ c \in Pid /\ state[c] = "none"
  BY <1>0, <1>s, FreeHead DEF CreateInit, Is
<1>2. /\ state[VFS] # "none" /\ c # VFS /\ user[c] = Resume("init", "vfs", NONE)
  BY Nobody, <1>1, <1>s DEF RVfs
<1>3. /\ vfs' = vfs /\ user' = user /\ sys'.pc = "start" /\ sys'.child = c
      /\ \A p \in Pid : state'[p] = IF p = c THEN "blocked" ELSE state[p]
      /\ \A p \in Pid : uid'[p] = IF p = c THEN ROOT ELSE uid[p]
      /\ \A p \in Pid : ppid'[p] = IF p = c THEN SYSTEM ELSE ppid[p]
      /\ \A p \in Pid : sig_mask'[p] = IF p = c THEN {} ELSE sig_mask[p]
      /\ \A p \in Pid : m_from'[p] = IF p = c THEN NONE ELSE m_from[p]
      /\ \A p \in Pid : m_to'[p] = IF p = c THEN NONE ELSE m_to[p]
  BY <1>0, <1>s DEF CreateInit, Fresh, Typed, RThreads
<1>4. \A p : User(p)' <=> p = c
  BY <1>s, <1>1, <1>3 DEF RTasks, RTask, IsTask, ROOT, KERNEL, User
<1>5. user'[c].pc = "vfs" /\ user'[c].prog = "init" BY <1>2, <1>3 DEF Resume
<1>6. Inert(c)' BY <1>1, <1>3, <1>5 DEF Inert
<1>7. FVfs' BY <1>2, <1>3, Who, FVfsKept
<1>8. FSys' BY <1>3, <1>4, <1>5, <1>6 DEF FSys, Held
<1>9. FUsers' BY <1>1, <1>3, <1>4, <1>5, <1>6, Who DEF FUsers, FUser, Masked
<1>10. FFamily' BY <1>1, <1>3, <1>4 DEF FFamily, FChild
<1>11. FHolds' BY <1>4, <1>5 DEF FHolds, Holds
<1>. QED BY <1>7, <1>8, <1>9, <1>10, <1>11 DEF FInv

LEMMA FBootStart ==
  ASSUME FInv, RInv', SysAt("start"), StartInit(sys.child), SysGo("recv"),
         UNCHANGED <<vfs, user>>
  PROVE  FInv'
<1>s. /\ RInv /\ RThreads /\ Typed /\ FSys /\ FUsers /\ FHolds BY RTypes DEF FInv, RInv
<1>0. PICK e : e = sys.child OBVIOUS
<1>1. /\ sys.pc = "start" /\ state[SYSTEM] = "ready" /\ sys' = [sys EXCEPT !.pc = "recv"]
      /\ StartInit(e) /\ vfs' = vfs /\ user' = user
  BY <1>0 DEF SysAt, Running, SysGo
<1>2. /\ User(e) /\ Inert(e) /\ user[e].pc = "vfs" /\ e \in Pid /\ e \notin {SYSTEM, VFS} /\ FUser(e)
  BY <1>0, <1>1, <1>s, UserNoTask DEF FSys, FUsers
<1>3. /\ ppid[e] = SYSTEM /\ state[e] = "blocked" /\ ppid' = ppid /\ uid' = uid /\ cur' = cur
      /\ \A x \in Pid : x # e => Still(x)
      /\ sig_mask' = sig_mask
      /\ state'[e] = "ready" /\ d0'[e] = EABORT /\ m_from'[e] = NONE /\ m_to'[e] = NONE
  BY <1>1, <1>2, <1>s DEF StartInit, ProcSig, Still, Typed
<1>4. sys'.pc = "recv" BY <1>1, <1>s DEF RThreads
<1>5. \A x : User(x)' <=> User(x)
  <2>1. \A x \in Pid : state'[x] = "none" <=> state[x] = "none" BY <1>3 DEF Still
  <2>. QED BY <2>1, <1>3 DEF User, IsTask
<1>6. \A x \in Pid : User(x) /\ x # e => Still(x) /\ Calm(x) BY <1>1, <1>3 DEF Calm
<1>7. \A x : SYSTEM \notin Senders(x)' BY <1>1, <1>2, <1>3, Who DEF Senders, Still
<1>8. Steady BY <1>2, <1>3, Who DEF Steady, VfsStuck, Still
<1>9. FVfs' BY <1>1, <1>2, <1>3, Who, FVfsKept DEF Still
<1>10. FSys' BY <1>4 DEF FSys, Held
<1>11. \A p, c : ~Forking(p, c) BY <1>1 DEF Forking
<1>12. FUser(e)' BY <1>1, <1>2, <1>3, <1>7, Who DEF FUser, Masked, Answered
<1>13. FChild(e)' BY <1>3 DEF FChild
<1>14. ASSUME NEW x \in Pid, User(x)', x # e, ppid[x] = e PROVE FChild(x)'
  <2>1. Inert(x) BY <1>2, <1>5, <1>11, <1>14, InertParents
  <2>2. Inert(x)' BY <2>1, <1>1, <1>3, <1>8, <1>14 DEF Inert, Still, Steady
  <2>. QED BY <2>2 DEF FChild
<1>15. ASSUME NEW p \in Pid, NEW c \in Pid, p = e \/ c = e PROVE ~Holds(p, c)'
  <2>1. CASE p = e BY <2>1, <1>1, <1>2, <1>3 DEF Holds, Answered
  <2>2. ASSUME c = e, p # e, Holds(p, c)' PROVE FALSE
    <3>1. User(p) /\ p # SYSTEM BY <2>2, <1>5, <1>s, UserNoTask DEF Holds
    <3>2. Holds(p, c) BY <2>2, <3>1, <1>6, <1>7, <1>8, <1>s, CalmKeeps DEF FUsers
    <3>. QED BY <2>2, <3>1, <3>2, <1>3, <1>s DEF FHolds
  <2>. QED BY <2>1, <2>2, <1>15
<1>16. PICK E : E = {e} OBVIOUS
<1>. QED BY <1>5, <1>6, <1>7, <1>8, <1>9, <1>10, <1>11, <1>12, <1>13, <1>14, <1>15, <1>16, FFrame

LEMMA FSysBoot ==
  ASSUME FInv, RInv', SysBoot
  PROVE  FInv'
BY FBootServer, FBootInit, FBootStart DEF SysBoot, SysAt

LEMMA InitFInv == SystemInit => FInv
<1> SUFFICES ASSUME SystemInit PROVE FInv
  OBVIOUS
<1>1. /\ sys.pc = "boot"
      /\ \A p \in Pid : uid[p] = KERNEL /\ ppid[p] = 0
      /\ state[VFS] = "none"
  BY Who DEF SystemInit, Init
<1>2. \A p : ~User(p) BY <1>1 DEF User, IsTask
<1>3. FVfs BY <1>1, Who DEF FVfs
<1>4. FSys BY <1>1 DEF FSys, Held
<1>5. FUsers /\ FFamily /\ FHolds BY <1>2 DEF FUsers, FFamily, FHolds, Holds
<1>. QED BY <1>3, <1>4, <1>5, InitRInv DEF FInv

LEMMA FVfsTask ==
  ASSUME FInv, RInv', VfsTask
  PROVE  FInv'
<1>s. Typed BY RTypes DEF FInv
<1>1. Running(VFS) /\ UNCHANGED <<sys, user>> BY DEF VfsTask
<1>2. CASE Receive(VFS) /\ vfs' = "got" BY <1>1, <1>2, FVfsReceives
<1>3. CASE d0[VFS] >= 0 /\ vfs' = "recv" /\ Send(VFS, d0[VFS], Answer("vfs", 0))
  <2>1. d0[VFS] \in Pid \cup {ELOCK, EABORT} BY <1>s, Who DEF Typed
  <2>2. d0[VFS] \in Pid BY <1>3, <2>1 DEF ELOCK, EABORT
  <2>. QED BY <1>1, <1>3, <2>2, FVfsSends
<1>. QED BY <1>2, <1>3 DEF VfsTask

LEMMA NextFInv ==
  ASSUME FInv, [SystemNext]_svars
  PROVE  FInv'
<1>1. RInv' BY NextRInv DEF FInv
<1>2. CASE Interrupt \/ UNCHANGED svars BY <1>1, <1>2, FInterrupt
<1>3. CASE SystemTask
  BY <1>1, <1>3, FSysBoot, FSysReceive, FSysGoesOn, FSysExit, FSysWait, FSysFork,
     FSysCallVfs, FSysKillEnds, FSysAnswer, FSysAnswerChild DEF SystemTask
<1>4. CASE VfsTask BY <1>1, <1>4, FVfsTask
<1>5. CASE CtrlAltDel BY <1>1, <1>5, FAlarm
<1>6. ASSUME NEW p \in Pid, TaskBack(p) PROVE FInv' BY <1>1, <1>6, FTaskBack
<1>7. ASSUME NEW p \in Pid, UserProgram(p) PROVE FInv'
  BY <1>1, <1>7, FUserCalls, FUserReturns, FShellEnds DEF UserProgram
<1>8. ASSUME NEW p \in Pid, LeafFaults(p) PROVE FInv' BY <1>1, <1>8, FLeafFaults
<1>. QED BY <1>2, <1>3, <1>4, <1>5, <1>6, <1>7, <1>8 DEF SystemNext

\* Whatever signals arrive, only the child that a process is about to wait
\* for, or waits for, can signal it.
THEOREM DisturbedFamilies == SystemSpec => []FInv
<1>1. FInv /\ [SystemNext]_svars => FInv' BY NextFInv
<1>. QED BY <1>1, InitFInv, PTL DEF SystemSpec

-----------------------------------------------------------------------------
(* No rendezvous is missed.                                                *)

\* p waits to be heard by q, which waits to hear it.
Misses(p, q) ==
  /\ q # p /\ state[p] = "blocked" /\ m_to[p] = q
  /\ state[q] = "blocked" /\ m_to[q] = NONE /\ m_from[q] \in {p, ANY}

\* x waits for nothing that it did not wait for before.
Stays(x) ==
  state'[x] = "blocked" =>
    state[x] = "blocked" /\ m_to'[x] = m_to[x] /\ m_from'[x] = m_from[x]

LEMMA MetStays ==
  ASSUME NoMissedRendezvous, \A x \in Pid : Stays(x)
  PROVE  NoMissedRendezvous'
BY DEF NoMissedRendezvous, Senders, Stays

\* One process waits for something else than before.
LEMMA MetBut ==
  ASSUME NoMissedRendezvous, NEW e \in Pid, \A x \in Pid : x # e => Stays(x),
         \A x \in Pid : ~Misses(x, e)' /\ ~Misses(e, x)'
  PROVE  NoMissedRendezvous'
<1>1. ASSUME NEW p \in Pid, NEW q \in Pid PROVE ~Misses(p, q)'
  <2>1. CASE p # e /\ q # e BY <2>1 DEF NoMissedRendezvous, Senders, Stays, Misses
  <2>2. CASE p = e BY <2>2
  <2>3. CASE q = e BY <2>3
  <2>. QED BY <2>1, <2>2, <2>3
<1>. QED BY <1>1 DEF NoMissedRendezvous, Senders, Misses

LEMMA MetWait ==
  ASSUME NoMissedRendezvous, Typed, NEW p \in Pid, NEW q \in Pid \cup {ANY}, NEW o, NEW m,
         SEND \in o => q \in Pid, Wait(p, q, o, m), o \in {{SEND}, {RECV}, {SEND, RECV}}
  PROVE  NoMissedRendezvous'
<1>o. SEND # RECV BY DEF SEND, RECV
<1> DEFINE now == SEND \in o /\ Accepts(q, p)
<1>1. /\ state[p] = "ready"
      /\ o = {SEND} => ~now
      /\ o = {RECV} => q = ANY /\ Senders(p) = {}
      /\ \A x \in Pid : x # p =>
           /\ state'[x] = IF now /\ x = q THEN "ready" ELSE state[x]
           /\ m_from'[x] = IF now /\ x = q THEN p ELSE m_from[x]
           /\ m_to'[x] = m_to[x]
      /\ state'[p] = "blocked" =>
           /\ m_from'[p] = IF RECV \notin o THEN NONE ELSE q
           /\ m_to'[p] = IF SEND \in o /\ ~now THEN q ELSE NONE
  BY <1>o DEF Wait, Running, Typed, Accepts
<1>2. \A x \in Pid : x # p => Stays(x) BY <1>1 DEF Stays
<1>3. ASSUME NEW x \in Pid, Misses(x, p)' PROVE FALSE
  <2>1. /\ x # p /\ state'[x] = "blocked" /\ m_to'[x] = p /\ state'[p] = "blocked"
        /\ m_to'[p] = NONE /\ m_from'[p] \in {x, ANY}
    BY <1>3 DEF Misses
  <2>2. CASE o = {RECV}
    <3>1. x \in Senders(p) BY <2>1, <2>2, <1>1, <1>o DEF Senders
    <3>. QED BY <3>1, <2>2, <1>1
  <2>3. CASE o # {RECV}
    <3>1. SEND \in o /\ now /\ q \in Pid BY <2>1, <2>3, <1>1, <1>o, Who
    <3>2. q = x BY <2>1, <3>1, <1>1, Who
    <3>. QED BY <2>1, <3>1, <3>2, <1>1
  <2>. QED BY <2>2, <2>3
<1>4. ASSUME NEW x \in Pid, Misses(p, x)' PROVE FALSE
  <2>1. /\ x # p /\ state'[p] = "blocked" /\ m_to'[p] = x /\ state'[x] = "blocked"
        /\ m_from'[x] \in {p, ANY}
    BY <1>4 DEF Misses
  <2>2. SEND \in o /\ ~now /\ x = q BY <2>1, <1>1, Who
  <2>. QED BY <2>1, <2>2, <1>1 DEF Accepts
<1>. QED BY <1>2, <1>3, <1>4, MetBut

LEMMA MetSendNow ==
  ASSUME NoMissedRendezvous, Typed, NEW p \in Pid, NEW q \in Pid, NEW m,
         SendNow(p, q, m) \/ SendLocked(p, q, m)
  PROVE  NoMissedRendezvous'
<1>1. CASE SendNow(p, q, m)
  <2>1. \A x \in Pid : Stays(x) BY <1>1 DEF SendNow, Running, Accepts, Stays, Typed
  <2>. QED BY <2>1, MetStays
<1>2. CASE SendLocked(p, q, m)
  <2>1. \A x \in Pid : Stays(x) BY <1>2 DEF SendLocked, Running, Stays, Typed
  <2>. QED BY <2>1, MetStays
<1>. QED BY <1>1, <1>2

LEMMA MetSend ==
  ASSUME NoMissedRendezvous, Typed, NEW p \in Pid, NEW q \in Pid, NEW m,
         Send(p, q, m) \/ Call(p, q, m)
  PROVE  NoMissedRendezvous'
BY MetSendNow, MetWait DEF Send, Call

\* Whom a server hears, and does not release, waits for its answer.
LEMMA MetReceive ==
  ASSUME NoMissedRendezvous, FInv, NEW p \in {SYSTEM, VFS}, Receive(p)
  PROVE  NoMissedRendezvous'
<1>s. /\ RInv /\ RTasks /\ RSys /\ RUsers /\ FUsers /\ FVfs /\ Typed BY RTypes DEF FInv, RInv
<1>0. p \in Pid /\ p # IDLE BY Who
<1>1. CASE Wait(p, ANY, {RECV}, NoMsg)
  <2>1. SEND \notin {RECV} BY DEF SEND, RECV
  <2>. QED BY <1>0, <1>1, <1>s, <2>1, MetWait
<1>2. CASE RecvNow(p)
  <2>1. PICK s \in Senders(p) :
          /\ state' = IF OnlySends(s) THEN [state EXCEPT ![s] = "ready"] ELSE state
          /\ m_from' = [m_from EXCEPT ![p] = NONE]
          /\ m_to' = [m_to EXCEPT ![s] = NONE, ![p] = NONE]
          /\ Running(p)
    BY <1>2 DEF RecvNow
  <2>2. s \in Pid /\ state[s] = "blocked" /\ m_to[s] = p /\ state[p] = "ready" /\ s # p
    BY <2>1 DEF Senders, Running
  <2>3. m_from[s] \in {NONE, p}
    <3>1. CASE User(s) BY <3>1, <2>2, <1>s, Who DEF RUsers, RUser, FUsers, FUser
    <3>2. CASE ~User(s)
      <4>1. s \in {SYSTEM, VFS}
        <5>1. IsTask(s) /\ state[s] # "none" BY <2>2, <3>2 DEF User
        <5>. QED BY <5>1, <2>2, <1>s DEF RTasks, RTask, Typed
      <4>2. CASE s = SYSTEM BY <4>2, <2>2, <1>0, <1>s, Who DEF RSys
      <4>3. CASE s = VFS BY <4>3, <2>2, <1>0, <1>s, Who DEF FVfs
      <4>. QED BY <4>1, <4>2, <4>3
    <3>. QED BY <3>1, <3>2
  <2>4. /\ \A x \in Pid : x # s => Stays(x)
        /\ m_to'[s] = NONE /\ m_from'[s] = m_from[s] /\ state'[p] = "ready"
        /\ state'[s] = "blocked" => m_from[s] # NONE
    BY <1>0, <2>1, <2>2, <1>s DEF Stays, Typed, OnlySends
  <2>5. \A x \in Pid : ~Misses(x, s)' /\ ~Misses(s, x)' BY <1>0, <2>3, <2>4, Who DEF Misses
  <2>. QED BY <2>2, <2>4, <2>5, MetBut
<1>. QED BY <1>1, <1>2 DEF Receive

LEMMA MetFork ==
  ASSUME NoMissedRendezvous, FInv, SysFork
  PROVE  NoMissedRendezvous'
<1>s. RInv /\ IInv /\ FSys /\ FUsers /\ Typed BY RTypes DEF FInv, RInv
<1>0. SysGot("fork") /\ Fork(d0[SYSTEM]) BY DEF SysFork
<1>1. PICK p : p = d0[SYSTEM] OBVIOUS
<1>2. PICK e : e = links.free OBVIOUS
<1>3. /\ p \in Pid /\ User(p) /\ FUser(p) /\ Held /\ msg[SYSTEM].type = "fork"
      /\ state[SYSTEM] = "ready"
  BY <1>0, <1>1, <1>s, Has DEF Calls, FUsers
<1>4. /\ e \in Pid /\ state[e] = "none" BY <1>0, <1>2, <1>s, FreeHead DEF Fork, Is
<1>5. /\ state' = [state EXCEPT ![e] = "blocked"]
      /\ m_from' = [m_from EXCEPT ![e] = m_from[p]]
      /\ m_to' = [m_to EXCEPT ![e] = m_to[p]]
  BY <1>0, <1>1, <1>2 DEF Fork
<1>6. Pend(p, "fork") \/ GaveUp(p) BY <1>1, <1>3, <1>s DEF FSys
<1>7. /\ m_from[p] \in {NONE, SYSTEM}
      /\ m_to[p] \in {NONE, SYSTEM} \/ (m_to[p] = VFS /\ VfsStuck)
  BY <1>3, <1>6 DEF Pend, GaveUp, FUser
<1>8. /\ \A x \in Pid : x # e => /\ state'[x] = state[x] /\ m_from'[x] = m_from[x]
                                 /\ m_to'[x] = m_to[x]
      /\ m_from'[e] = m_from[p] /\ m_to'[e] = m_to[p] /\ e # SYSTEM
  BY <1>3, <1>4, <1>5, <1>s DEF Typed
<1>9. \A x \in Pid : x # e => Stays(x) BY <1>8 DEF Stays
<1>10. \A x \in Pid : ~Misses(x, e)' BY <1>3, <1>7, <1>8, Who DEF Misses
<1>11. \A x \in Pid : ~Misses(e, x)' BY <1>3, <1>7, <1>8, Who DEF Misses, VfsStuck
<1>. QED BY <1>4, <1>9, <1>10, <1>11, MetBut

\* A process that is created, or waits for a child, waits for nobody.
LEMMA MetAlone ==
  ASSUME NoMissedRendezvous, RInv, CreateInit \/ SysWait
  PROVE  NoMissedRendezvous'
<1>s. IInv /\ Typed BY RTypes DEF RInv
<1>1. PICK e \in Pid : /\ m_from' = [m_from EXCEPT ![e] = NONE]
                       /\ m_to' = [m_to EXCEPT ![e] = NONE]
                       /\ state' \in {state, [state EXCEPT ![e] = "blocked"]}
  <2>1. CASE CreateInit
    <3>1. PICK e : e = links.free OBVIOUS
    <3>2. e \in Pid BY <2>1, <3>1, <1>s, FreeHead DEF CreateInit, Is
    <3>. QED BY <2>1, <3>1, <3>2 DEF CreateInit, Fresh
  <2>2. CASE SysWait
    <3>1. SysGot("wait") /\ WaitChild(d0[SYSTEM]) BY <2>2 DEF SysWait
    <3>2. d0[SYSTEM] \in Pid BY <3>1, Has DEF Calls
    <3>. QED BY <3>1, <3>2 DEF WaitChild
  <2>. QED BY <2>1, <2>2
<1>2. \A x \in Pid : x # e => Stays(x) BY <1>1, <1>s DEF Stays, Typed
<1>3. m_from'[e] = NONE /\ m_to'[e] = NONE BY <1>1, <1>s DEF Typed
<1>4. \A x \in Pid : ~Misses(x, e)' /\ ~Misses(e, x)' BY <1>3, Who DEF Misses
<1>. QED BY <1>2, <1>4, MetBut

\* Signals, the end of processes and the creation of tasks only release.
LEMMA MetReleased ==
  ASSUME NoMissedRendezvous, Typed, NEW p \in Pid,
         \/ ProcExit(p) \/ Kill(p) \/ Alarm(p) \/ StartInit(p) \/ CreateTask(p) \/ TaskReturn(p)
  PROVE  NoMissedRendezvous'
<1>1. CASE ProcExit(p)
  <2>1. \A x \in Pid : Stays(x) BY <1>1 DEF ProcExit, ProcSig, Stays, Typed
  <2>. QED BY <2>1, MetStays
<1>2. CASE Kill(p)
  <2>1. \A x \in Pid : Stays(x) BY <1>2 DEF Kill, ipc, Stays, Typed
  <2>. QED BY <2>1, MetStays
<1>3. CASE Alarm(p) \/ StartInit(p)
  <2>1. \A x \in Pid : Stays(x) BY <1>3 DEF Alarm, StartInit, ProcSig, Stays, Typed
  <2>. QED BY <2>1, MetStays
<1>4. CASE CreateTask(p)
  <2>1. \A x \in Pid : Stays(x) BY <1>4 DEF CreateTask, Fresh, Stays, Typed
  <2>. QED BY <2>1, MetStays
<1>5. CASE TaskReturn(p)
  <2>1. \A x \in Pid : Stays(x) BY <1>5 DEF TaskReturn, Stays
  <2>. QED BY <2>1, MetStays
<1>. QED BY <1>1, <1>2, <1>3, <1>4, <1>5

LEMMA MetSystem ==
  ASSUME NoMissedRendezvous, FInv, SystemTask
  PROVE  NoMissedRendezvous'
<1>s. /\ RInv /\ RSys /\ Typed BY RTypes DEF FInv, RInv
<1>1. CASE SysBoot
  <2>1. CASE CreateTask(VFS) BY <2>1, <1>s, Who, MetReleased
  <2>2. CASE CreateInit BY <2>2, <1>s, MetAlone
  <2>3. CASE SysAt("start") /\ StartInit(sys.child)
    <3>1. sys.child \in Pid BY <2>3, <1>s DEF SysAt, RSys
    <3>. QED BY <2>3, <3>1, <1>s, MetReleased
  <2>. QED BY <1>1, <2>1, <2>2, <2>3 DEF SysBoot
<1>2. CASE SysReceive BY <1>2, MetReceive DEF SysReceive
<1>3. CASE SysReset \/ SysIllegal \/ SysForkFails \/ SysExec \/ SysKill
  <2>1. UNCHANGED vars BY <1>3 DEF SysReset, SysIllegal, SysForkFails, SysExec, SysKill
  <2>2. \A x \in Pid : Stays(x) BY <2>1 DEF Stays, vars, ipc
  <2>. QED BY <2>2, MetStays
<1>4. CASE SysExit
  <2>1. SysGot("exit") /\ Exit(d0[SYSTEM]) BY <1>4 DEF SysExit
  <2>2. d0[SYSTEM] \in Pid BY <2>1, <1>s, Has DEF Calls
  <2>. QED BY <2>1, <2>2, <1>s, MetReleased DEF Exit
<1>5. CASE SysWait BY <1>5, <1>s, MetAlone
<1>6. CASE SysFork BY <1>6, MetFork
<1>7. CASE SysCallVfs
  <2>1. Call(SYSTEM, VFS, Request("vfs", sys.child)) BY <1>7 DEF SysCallVfs
  <2>. QED BY <2>1, <1>s, Who, MetSend
<1>8. CASE SysKillEnds
  <2>1. sys.child \in Pid BY <1>8, <1>s, KillsChild DEF SysKillEnds, SysAt, User
  <2>2. Kill(sys.child) BY <1>8 DEF SysKillEnds
  <2>. QED BY <2>1, <2>2, <1>s, MetReleased
<1>9. CASE SysAnswer
  <2>1. User(sys.from) BY <1>9, <1>s DEF SysAnswer, SysAt, RSys
  <2>2. sys.from \in Pid BY <2>1 DEF User
  <2>3. PICK v : Send(SYSTEM, sys.from, Answer(sys.req, v)) BY <1>9 DEF SysAnswer
  <2>. QED BY <2>2, <2>3, <1>s, Who, MetSend
<1>10. CASE SysAnswerChild
  <2>1. User(sys.child) BY <1>10, <1>s DEF SysAnswerChild, SysAt, RSys
  <2>2. sys.child \in Pid BY <2>1 DEF User
  <2>3. Send(SYSTEM, sys.child, Answer("fork", 0)) BY <1>10 DEF SysAnswerChild
  <2>. QED BY <2>2, <2>3, <1>s, Who, MetSend
<1>. QED BY <1>1, <1>2, <1>3, <1>4, <1>5, <1>6, <1>7, <1>8, <1>9, <1>10 DEF SystemTask

LEMMA NextMet ==
  ASSUME NoMissedRendezvous, FInv, [SystemNext]_svars
  PROVE  NoMissedRendezvous'
<1>s. RInv /\ RThreads /\ Typed BY RTypes DEF FInv, RInv
<1>1. CASE Interrupt \/ UNCHANGED svars
  <2>1. \A x \in Pid : Stays(x)
    BY <1>1 DEF Stays, Interrupt, SysIrq, SysIrqEnd, ipc, svars, vars
  <2>. QED BY <2>1, MetStays
<1>2. CASE SystemTask BY <1>2, MetSystem
<1>3. CASE VfsTask
  <2>1. CASE Receive(VFS) BY <2>1, MetReceive
  <2>2. CASE d0[VFS] >= 0 /\ Send(VFS, d0[VFS], Answer("vfs", 0))
    <3>1. d0[VFS] \in Pid \cup {ELOCK, EABORT} BY <1>s, Who DEF Typed
    <3>2. d0[VFS] \in Pid BY <2>2, <3>1 DEF ELOCK, EABORT
    <3>. QED BY <2>2, <3>2, <1>s, Who, MetSend
  <2>. QED BY <1>3, <2>1, <2>2 DEF VfsTask
<1>4. CASE CtrlAltDel BY <1>4, <1>s, Who, MetReleased DEF CtrlAltDel
<1>5. ASSUME NEW p \in Pid, TaskBack(p) PROVE NoMissedRendezvous'
  BY <1>5, <1>s, MetReleased DEF TaskBack
<1>6. ASSUME NEW p \in Pid, UserProgram(p) PROVE NoMissedRendezvous'
  <2>1. CASE UserReturns(p) \/ ShellEnds(p)
    <3>1. UNCHANGED vars BY <2>1 DEF UserReturns, ShellEnds
    <3>2. \A x \in Pid : Stays(x) BY <3>1 DEF Stays, vars, ipc
    <3>. QED BY <3>2, MetStays
  <2>2. CASE UserCalls(p)
    <3>1. Callee(user[p].pc) \in Pid BY Who DEF Callee
    <3>2. Call(p, Callee(user[p].pc), Request(user[p].pc, user[p].kid))
      BY <2>2 DEF UserCalls, Trap
    <3>. QED BY <3>1, <3>2, <1>s, <1>6, MetSend
  <2>. QED BY <1>6, <2>1, <2>2 DEF UserProgram
<1>7. ASSUME NEW p \in Pid, LeafFaults(p) PROVE NoMissedRendezvous'
  BY <1>7, <1>s, MetReleased DEF LeafFaults, Fault
<1>. QED BY <1>1, <1>2, <1>3, <1>4, <1>5, <1>6, <1>7 DEF SystemNext

\* No sender stays blocked on a process that waits to receive from it, even
\* when signals cut calls short.  Only the copy of a process that has given up
\* fork could: it is blocked with what its parent has left behind, and that is
\* no wait for anybody, or one for a server that does not listen.
THEOREM NoMissedRendezvousTheorem == SystemSpec => []NoMissedRendezvous
<1>1. SystemInit => NoMissedRendezvous
  BY DEF SystemInit, Init, NoMissedRendezvous, Senders
<1>2. NoMissedRendezvous /\ FInv /\ [SystemNext]_svars => NoMissedRendezvous' BY NextMet
<1>. QED BY <1>1, <1>2, DisturbedFamilies, PTL DEF SystemSpec

-----------------------------------------------------------------------------
(* Undisturbed programs.                                                   *)

\* Nothing cuts a call short.
Quiet == Signalled = {} /\ ~Faults /\ Prompt

-----------------------------------------------------------------------------
(* Users and their calls. *)

ThreadsOK ==
  /\ sys \in [pc : {"boot", "init", "start", "recv", "got", "vfs", "kill", "answer", "child"},
              from : Pid \cup {NONE}, req : Requests, child : Pid \cup {NONE}]
  /\ vfs \in {"recv", "got"}
  /\ user \in [Pid -> [prog : {"init", "shell", "leaf"}, pc : Calls, in : BOOLEAN,
                       kid : Pid \cup {NONE}]]

TaskOK(p) ==
  /\ sig_mask[p] = {} /\ (ops[p] # {} => p \in {SYSTEM, VFS})
  /\ IsTask(p) => /\ ~user[p].in /\ user[p].pc = "vfs"
                  /\ state[p] # "none" => p \in {SYSTEM, VFS, IDLE}
  /\ sys.pc \in {"boot", "init"} => IsTask(p)

TasksOK ==
  /\ \A p \in Pid : TaskOK(p)
  /\ IsTask(VFS) /\ state[VFS] # "stopped"
  /\ state[VFS] = "none" <=> sys.pc = "boot"

\* Whose requests the servers have taken and not yet answered.
VfsServed == IF vfs = "got" /\ state[VFS] = "ready" THEN {d0[VFS]} ELSE {}

SysServed ==
  IF sys.pc = "got" THEN IF state[SYSTEM] = "ready" THEN {d0[SYSTEM]} ELSE {}
  ELSE IF sys.pc \in {"vfs", "kill", "answer"}
  THEN {sys.from} \cup (IF sys.req = "fork" THEN {sys.child} ELSE {})
  ELSE IF sys.pc = "child" THEN {sys.child} ELSE {}

\* p is inside a call and its request has been taken by the server.
Pending(p) ==
  /\ User(p) /\ state[p] = "blocked" /\ user[p].in
  /\ m_to[p] = NONE /\ m_from[p] = Callee(user[p].pc)

VfsOK ==
  /\ state[VFS] = "none" => vfs = "recv" /\ ops[VFS] = {}
  /\ state[VFS] = "blocked" => vfs = "got" /\ m_to[VFS] = NONE /\ m_from[VFS] = ANY
                               /\ ops[VFS] = {RECV}
  /\ state[VFS] = "ready" /\ vfs = "recv" => ops[VFS] = {}
  /\ state[VFS] = "ready" /\ vfs = "got" =>
       /\ ops[VFS] \in {{}, {RECV}} /\ (ops[VFS] = {RECV} => m_from[VFS] = d0[VFS])
       /\ \/ Pending(d0[VFS]) /\ user[d0[VFS]].pc = "vfs"
          \/ /\ d0[VFS] = SYSTEM /\ sys.pc \in {"kill", "answer"}
             /\ state[SYSTEM] = "blocked" /\ m_to[SYSTEM] = NONE

SysIdleOK ==
  sys.pc \in {"boot", "init", "start", "recv", "vfs", "child"} =>
    state[SYSTEM] = "ready" /\ ops[SYSTEM] = {}

SysStartOK ==
  sys.pc = "start" =>
    /\ User(sys.child) /\ state[sys.child] = "blocked" /\ ~user[sys.child].in
    /\ m_to[sys.child] = NONE /\ user[sys.child].pc = "vfs"
    /\ \A p \in Pid : User(p) => p = sys.child

SysGotOK ==
  sys.pc = "got" =>
    /\ state[SYSTEM] = "blocked" =>
         m_to[SYSTEM] = NONE /\ m_from[SYSTEM] = ANY /\ ops[SYSTEM] = {RECV}
    /\ state[SYSTEM] = "ready" =>
         /\ ops[SYSTEM] \in {{}, {RECV}}
         /\ ops[SYSTEM] = {RECV} => m_from[SYSTEM] = d0[SYSTEM]
         /\ Pending(d0[SYSTEM]) /\ user[d0[SYSTEM]].pc # "vfs"
         /\ msg[SYSTEM] = Request(user[d0[SYSTEM]].pc, user[d0[SYSTEM]].kid)

SysWorkOK ==
  sys.pc \in {"vfs", "kill", "answer"} =>
    /\ Pending(sys.from) /\ sys.req = user[sys.from].pc
    /\ sys.req \in {"fork", "exec", "kill"}
    /\ sys.pc = "kill" => sys.req = "kill"
    /\ sys.pc = "vfs" => sys.child # NONE
    /\ sys.req = "fork" /\ sys.child # NONE =>
         /\ Pending(sys.child) /\ user[sys.child].pc = "fork"
         /\ ppid[sys.child] = sys.from /\ sys.child # sys.from
    /\ sys.req = "kill" => sys.child = user[sys.from].kid

SysCallOK ==
  sys.pc \in {"kill", "answer"} =>
    /\ state[SYSTEM] = "blocked" =>
         /\ m_from[SYSTEM] = VFS /\ ops[SYSTEM] = {SEND, RECV}
         /\ \/ m_to[SYSTEM] = VFS /\ msg[SYSTEM] = Request("vfs", sys.child)
            \/ m_to[SYSTEM] = NONE /\ VfsServed = {SYSTEM}
    /\ state[SYSTEM] = "ready" =>
         /\ ops[SYSTEM] # {} => ops[SYSTEM] = {SEND, RECV} /\ m_from[SYSTEM] = VFS
         /\ ops[SYSTEM] # {} \/ sys.pc = "kill" =>
              d0[SYSTEM] = VFS /\ msg[SYSTEM] = Answer("vfs", 0)

SysChildOK ==
  sys.pc = "child" =>
    Pending(sys.child) /\ user[sys.child].pc = "fork" /\ ppid[sys.child] # SYSTEM

SysOK == SysIdleOK /\ SysStartOK /\ SysGotOK /\ SysWorkOK /\ SysCallOK /\ SysChildOK

\* What an answer may carry.
Values(call) == IF call = "fork" THEN Pid \cup {NONE}
                ELSE IF call = "exec" THEN {0, NONE} ELSE {0}

\* Where a user process can be.
UserOK(p) ==
  /\ state[p] = "blocked" /\ ~user[p].in => sys.pc = "start"
  /\ state[p] = "blocked" /\ user[p].in /\ m_to[p] # NONE =>
       /\ m_to[p] = Callee(user[p].pc) /\ m_from[p] = m_to[p]
       /\ msg[p] = Request(user[p].pc, user[p].kid)
  /\ state[p] = "blocked" /\ user[p].in /\ m_to[p] = NONE =>
       \/ user[p].pc = "wait" /\ m_from[p] = NONE
       \/ user[p].pc = "vfs" /\ m_from[p] = VFS /\ p \in VfsServed
       \/ user[p].pc # "vfs" /\ m_from[p] = SYSTEM /\ p \in SysServed
  /\ state[p] = "ready" /\ user[p].in =>
       /\ user[p].pc # "exit"
       /\ user[p].pc = "wait" => d0[p] = EABORT
       /\ user[p].pc # "wait" =>
            /\ d0[p] = Callee(user[p].pc)
            /\ \E v \in Values(user[p].pc) : msg[p] = Answer(user[p].pc, v)
  /\ state[p] = "stopped" => user[p].in /\ user[p].pc = "exit"

UsersOK == \A p \in Pid : User(p) => UserOK(p)

\* k is the child that q has, or is being given, or goes on to kill.
KidOf(q, k) ==
  \/ /\ user[q].pc = "fork" /\ user[q].in /\ state[q] = "blocked"
     /\ sys.pc \in {"vfs", "answer"} /\ sys.req = "fork"
     /\ sys.from = q /\ sys.child = k
  \/ user[q].pc = "fork" /\ user[q].in /\ state[q] = "ready" /\ msg[q].val = k
  \/ user[q].pc \in {"wait", "kill"} /\ user[q].kid = k

ParentOK(p) == ppid[p] # SYSTEM => User(ppid[p]) /\ KidOf(ppid[p], p)

ForkedOK(p) ==
  user[p].pc = "fork" /\ user[p].in /\ state[p] = "ready" =>
    /\ msg[p].val \notin {0, NONE} => User(msg[p].val) /\ ppid[msg[p].val] = p
    /\ msg[p].val = 0 => ppid[p] # SYSTEM

WaitOK(p) ==
  user[p].pc = "wait" =>
    /\ User(user[p].kid) /\ ppid[user[p].kid] = p
    /\ state[p] = "ready" /\ user[p].in => state[user[p].kid] = "stopped"

Killed(p) ==
  user[p].in /\ (state[p] = "ready" \/ (sys.pc = "answer" /\ sys.from = p))

KillOK(p) ==
  user[p].pc = "kill" =>
    IF Killed(p) THEN ~(User(user[p].kid) /\ ppid[user[p].kid] = p)
    ELSE User(user[p].kid) /\ ppid[user[p].kid] = p /\ state[user[p].kid] = "stopped"

ExitOK(p) ==
  user[p].pc = "exit" /\ user[p].in /\ state[p] # "stopped" => InWait(ppid[p])

FamilyOK ==
  \A p \in Pid : User(p) =>
    ParentOK(p) /\ ForkedOK(p) /\ WaitOK(p) /\ KillOK(p) /\ ExitOK(p)

SInv == IInv /\ ThreadsOK /\ TasksOK /\ VfsOK /\ SysOK /\ UsersOK /\ FamilyOK

-----------------------------------------------------------------------------
(* Facts used by every step. *)

LEMMA Idles ==
  ASSUME SInv, IInv', UNCHANGED <<proto, threads>>
  PROVE  SInv'
<1>1. /\ state' = state /\ m_from' = m_from /\ m_to' = m_to /\ d0' = d0
      /\ msg' = msg /\ ops' = ops /\ sig_mask' = sig_mask /\ uid' = uid
      /\ ppid' = ppid /\ sys' = sys /\ vfs' = vfs /\ user' = user
  BY DEF proto, threads
<1>2. \A p : User(p)' = User(p) /\ Pending(p)' = Pending(p)
             /\ IsTask(p)' = IsTask(p) /\ InWait(p)' = InWait(p)
  BY <1>1 DEF User, Pending, IsTask, InWait
<1>3. VfsServed' = VfsServed /\ SysServed' = SysServed
  BY <1>1 DEF VfsServed, SysServed
<1>4. \A p, k : KidOf(p, k)' = KidOf(p, k) BY <1>1 DEF KidOf
<1>5. ThreadsOK' BY <1>1 DEF SInv, ThreadsOK
<1>6. TasksOK' BY <1>1, <1>2 DEF SInv, TasksOK, TaskOK
<1>7. VfsOK' BY <1>1, <1>2, <1>3 DEF SInv, VfsOK
<1>8. SysOK'
  BY <1>1, <1>2, <1>3 DEF SInv, SysOK, SysIdleOK, SysStartOK, SysGotOK, SysWorkOK,
                          SysCallOK, SysChildOK
<1>9. UsersOK' BY <1>1, <1>2, <1>3 DEF SInv, UsersOK, UserOK
<1>10. FamilyOK'
  BY <1>1, <1>2, <1>3, <1>4 DEF SInv, FamilyOK, ParentOK, ForkedOK, WaitOK, KillOK, Killed, ExitOK
<1>. QED BY <1>5, <1>6, <1>7, <1>8, <1>9, <1>10 DEF SInv

LEMMA Types == SInv => Typed
BY DEF SInv, IInv, TypeOK, IdleReady, TasksOK, IsTask, ThreadsOK, Typed

Untouched(p) ==
  /\ state'[p] = state[p] /\ m_from'[p] = m_from[p] /\ m_to'[p] = m_to[p]
  /\ d0'[p] = d0[p] /\ msg'[p] = msg[p] /\ ops'[p] = ops[p]
  /\ uid'[p] = uid[p] /\ ppid'[p] = ppid[p] /\ user'[p] = user[p]

LEMMA UserFrame ==
  ASSUME NEW p \in Pid, UserOK(p), Untouched(p),
         sys.pc = "start" => sys'.pc = "start" \/ state[p] # "blocked" \/ user[p].in,
         p \in VfsServed => p \in VfsServed', p \in SysServed => p \in SysServed'
  PROVE  UserOK(p)'
BY DEF UserOK, Untouched

LEMMA VfsFrame ==
  ASSUME VfsOK, vfs' = vfs, Untouched(VFS),
         \A p : p \in VfsServed /\ Pending(p) => Pending(p)' /\ user'[p] = user[p],
         VfsServed = {SYSTEM} /\ state[SYSTEM] = "blocked" =>
           /\ Untouched(SYSTEM)
           /\ sys.pc \in {"kill", "answer"} => sys'.pc \in {"kill", "answer"}
  PROVE  VfsOK'
<1>1. ASSUME state[VFS] = "ready", vfs = "got"
      PROVE  \/ Pending(d0[VFS])' /\ user'[d0'[VFS]].pc = "vfs"
             \/ /\ d0'[VFS] = SYSTEM /\ sys'.pc \in {"kill", "answer"}
                /\ state'[SYSTEM] = "blocked" /\ m_to'[SYSTEM] = NONE
  BY <1>1 DEF VfsOK, VfsServed, Untouched
<1>. QED BY <1>1 DEF VfsOK, Untouched

LEMMA SysFrame ==
  ASSUME SysOK, sys' = sys, Untouched(SYSTEM), SysStartOK',
         \A p : p \in SysServed /\ Pending(p) =>
                  Pending(p)' /\ user'[p] = user[p] /\ ppid'[p] = ppid[p],
         VfsServed = {SYSTEM} => VfsServed' = {SYSTEM}
  PROVE  SysOK'
<1>1. SysIdleOK' BY DEF SysOK, SysIdleOK, Untouched
<1>2. SysGotOK' BY DEF SysOK, SysGotOK, SysServed, Untouched
<1>3. SysWorkOK' BY DEF SysOK, SysWorkOK, SysServed
<1>4. SysCallOK' BY DEF SysOK, SysCallOK, Untouched
<1>5. SysChildOK' BY DEF SysOK, SysChildOK, SysServed
<1>. QED BY <1>1, <1>2, <1>3, <1>4, <1>5 DEF SysOK

\* Only calls for files and exec are begun or answered, and the system task
\* does not leave the fork or the kill it is at.
LEMMA FamilyFrame ==
  ASSUME Typed, TasksOK, FamilyOK, UNCHANGED <<user, ppid>>,
         \A p : User(p)' = User(p),
         \A p \in Pid : User(p) => \/ state'[p] = state[p]
                                   \/ user[p].pc \in {"vfs", "exec"} /\ state[p] # "stopped",
         \A p \in Pid : User(p) => \/ msg'[p] = msg[p]
                                   \/ user[p].pc \in {"vfs", "exec"} \/ state[p] # "ready",
         \/ sys' = sys
         \/ /\ sys'.pc = "answer" => user[sys'.from].pc # "kill"
            /\ \/ sys.pc \notin {"vfs", "answer"}
               \/ /\ sys.pc = "vfs" /\ UNCHANGED <<sys.from, sys.req, sys.child>>
                  /\ sys.req = "fork" => sys'.pc = "answer"
  PROVE  FamilyOK'
<1> SUFFICES ASSUME NEW p \in Pid, User(p)
             PROVE  ParentOK(p)' /\ ForkedOK(p)' /\ WaitOK(p)' /\ KillOK(p)' /\ ExitOK(p)'
  BY DEF FamilyOK
<1>0. ParentOK(p) /\ ForkedOK(p) /\ WaitOK(p) /\ KillOK(p) /\ ExitOK(p)
  BY DEF FamilyOK
<1>1. \A q : User(q) => q \in Pid BY DEF User
<1>2. ppid[p] \in Pid BY DEF Typed
<1>3. ParentOK(p)'
  <2>1. ASSUME ppid[p] # SYSTEM PROVE User(ppid[p])' /\ KidOf(ppid[p], p)'
    BY <2>1, <1>0, <1>2 DEF ParentOK, KidOf
  <2>. QED BY <2>1 DEF ParentOK
<1>4. ForkedOK(p)' BY <1>0 DEF ForkedOK
<1>5. WaitOK(p)' BY <1>0, <1>1 DEF WaitOK
<1>6. KillOK(p)' BY <1>0, <1>1 DEF KillOK, Killed
<1>7. ExitOK(p)'
  <2>1. ~InWait(SYSTEM) BY Who DEF Typed, TasksOK, TaskOK, IsTask, InWait
  <2>2. ASSUME InWait(ppid[p]) PROVE InWait(ppid[p])'
    BY <2>1, <2>2, <1>0, <1>2 DEF ParentOK, InWait
  <2>. QED BY <2>2, <1>0 DEF ExitOK
<1>. QED BY <1>3, <1>4, <1>5, <1>6, <1>7

\* The server answers a user process.
LEMMA VfsAnswersUser ==
  ASSUME SInv, IInv', Running(VFS), vfs = "got", vfs' = "recv",
         NEW c \in Pid, c = d0[VFS], c # SYSTEM,
         SendNow(VFS, c, Answer("vfs", 0)), UNCHANGED <<sys, user>>
  PROVE  SInv'
<1>s. /\ ThreadsOK /\ TasksOK /\ VfsOK /\ SysOK /\ UsersOK /\ FamilyOK /\ Typed
  BY Types DEF SInv
<1>0. Pending(c) /\ user[c].pc = "vfs" /\ state[VFS] = "ready" /\ ops[VFS] = {}
  BY <1>s DEF VfsOK, Running
<1>1. /\ c # VFS /\ c # IDLE /\ uid[c] # KERNEL /\ user[c].in /\ state[c] = "blocked"
      /\ User(c) /\ m_to[c] = NONE /\ m_from[c] = VFS
  BY <1>0, <1>s, UserNoTask DEF Pending, Callee
<1>2. /\ sys' = sys /\ user' = user /\ uid' = uid /\ ppid' = ppid /\ ops' = ops
      /\ sig_mask' = sig_mask
      /\ \A p \in Pid : state'[p] = IF p = c THEN "ready" ELSE state[p]
      /\ \A p \in Pid : m_from'[p] = IF p = c THEN VFS ELSE IF p = VFS THEN NONE ELSE m_from[p]
      /\ \A p \in Pid : m_to'[p] = IF p = VFS THEN NONE ELSE m_to[p]
      /\ \A p \in Pid : d0'[p] = IF p = c THEN VFS ELSE IF p = VFS THEN c ELSE d0[p]
      /\ \A p \in Pid : msg'[p] = IF p \in {c, VFS} THEN Answer("vfs", 0) ELSE msg[p]
  BY <1>1, <1>s, Who DEF SendNow, Typed
<1>3. /\ \A p : User(p)' = User(p) /\ IsTask(p)' = IsTask(p)
      /\ \A p \in Pid : p # c /\ p # VFS => Untouched(p)
      /\ \A p : Pending(p) /\ p # c => Pending(p)'
  <2>1. \A p : User(p)' = User(p) /\ IsTask(p)' = IsTask(p)
    BY <1>1, <1>2, <1>0 DEF User, IsTask
  <2>2. \A p \in Pid : p # c /\ p # VFS => Untouched(p) BY <1>2 DEF Untouched
  <2>3. \A p : Pending(p) /\ p # c => Pending(p)'
    BY <2>1, <2>2, UserNoTask, <1>s, <1>2 DEF Pending, Untouched
  <2>. QED BY <2>1, <2>2, <2>3
<1>4. VfsServed' = {} /\ SysServed' = SysServed /\ c \notin SysServed /\ VfsServed = {c}
  <2>1. VfsServed' = {} /\ VfsServed = {c} BY <1>0 DEF VfsServed
  <2>2. SysServed' = SysServed BY <1>1, <1>2, Who DEF SysServed
  <2>3. c \notin SysServed
    BY <1>s, <1>0, <1>1, Who
       DEF SysServed, SysOK, SysGotOK, SysWorkOK, SysChildOK, Pending, Callee
  <2>. QED BY <2>1, <2>2, <2>3
<1>5. ThreadsOK' BY <1>s, <1>2 DEF ThreadsOK
<1>6. TasksOK' BY <1>s, <1>0, <1>1, <1>2, <1>3, Who DEF TasksOK, TaskOK, IsTask
<1>7. VfsOK' BY <1>s, <1>0, <1>1, <1>2, <1>3, Who DEF VfsOK
<1>8. SysOK'
  <2>1. SysStartOK' BY <1>s, <1>1, <1>2, <1>3, Who DEF SysOK, SysStartOK
  <2>. QED BY <2>1, <1>s, <1>2, <1>3, <1>4, <1>1, Who, SysFrame
<1>9. UsersOK'
  <2> SUFFICES ASSUME NEW p \in Pid, User(p) PROVE UserOK(p)' BY <1>3 DEF UsersOK
  <2>0. UserOK(p) BY <1>s DEF UsersOK
  <2>1. CASE p = c
    <3>1. state'[c] = "ready" /\ d0'[c] = VFS /\ msg'[c] = Answer("vfs", 0)
      BY <1>2
    <3>. QED BY <2>1, <3>1, <1>0, <1>1, <1>2 DEF UserOK, Callee, Values
  <2>2. CASE p # c
    BY <2>0, <2>2, <1>2, <1>3, <1>4, UserFrame, UserNoTask, <1>s
  <2>. QED BY <2>1, <2>2
<1>10. FamilyOK'
  BY <1>s, <1>0, <1>1, <1>2, <1>3, UserNoTask, FamilyFrame DEF Untouched
<1>. QED BY <1>5, <1>6, <1>7, <1>8, <1>9, <1>10 DEF SInv

\* The server answers the system task.
LEMMA VfsAnswersSystem ==
  ASSUME SInv, IInv', Running(VFS), vfs = "got", vfs' = "recv", d0[VFS] = SYSTEM,
         SendNow(VFS, SYSTEM, Answer("vfs", 0)), UNCHANGED <<sys, user>>
  PROVE  SInv'
<1>s. /\ ThreadsOK /\ TasksOK /\ VfsOK /\ SysOK /\ UsersOK /\ FamilyOK /\ Typed
  BY Types DEF SInv
<1>1. /\ state[VFS] = "ready" /\ ops[VFS] = {} /\ state[SYSTEM] = "blocked"
      /\ sys.pc \in {"kill", "answer"} /\ m_to[SYSTEM] = NONE
      /\ ops[SYSTEM] = {SEND, RECV}
  <2>1. state[VFS] = "ready" /\ ops[VFS] = {} BY DEF Running
  <2>2. ~Pending(SYSTEM) BY <1>s, UserNoTask DEF Pending
  <2>. QED BY <2>1, <2>2, <1>s, Who DEF VfsOK, SysOK, SysCallOK
<1>2. /\ sys' = sys /\ user' = user /\ uid' = uid /\ ppid' = ppid /\ ops' = ops
      /\ sig_mask' = sig_mask
      /\ \A p \in Pid : state'[p] = IF p = SYSTEM THEN "ready" ELSE state[p]
      /\ \A p \in Pid : m_from'[p] = IF p = SYSTEM THEN VFS
                                     ELSE IF p = VFS THEN NONE ELSE m_from[p]
      /\ \A p \in Pid : m_to'[p] = IF p = VFS THEN NONE ELSE m_to[p]
      /\ \A p \in Pid : d0'[p] = IF p = SYSTEM THEN VFS ELSE IF p = VFS THEN SYSTEM ELSE d0[p]
      /\ \A p \in Pid : msg'[p] = IF p \in {SYSTEM, VFS} THEN Answer("vfs", 0) ELSE msg[p]
  BY <1>1, <1>s, Who DEF SendNow, Typed
<1>3. /\ \A p : User(p)' = User(p) /\ IsTask(p)' = IsTask(p)
      /\ \A p : User(p) => Untouched(p)
      /\ \A p : Pending(p) => Pending(p)'
  <2>1. \A p : User(p)' = User(p) /\ IsTask(p)' = IsTask(p)
    BY <1>1, <1>2, Who DEF User, IsTask
  <2>2. \A p : User(p) => Untouched(p) BY <1>2, UserNoTask, <1>s DEF Untouched
  <2>3. \A p : Pending(p) => Pending(p)' BY <2>1, <2>2, <1>2 DEF Pending, Untouched
  <2>. QED BY <2>1, <2>2, <2>3
<1>4. VfsServed' = {} /\ SysServed' = SysServed /\ VfsServed = {SYSTEM}
  BY <1>1, <1>2, Who DEF VfsServed, SysServed
<1>5. ThreadsOK' BY <1>s, <1>2 DEF ThreadsOK
<1>6. TasksOK'
  <2>1. ASSUME NEW p \in Pid PROVE TaskOK(p)'
    <3>1. TaskOK(p) BY <1>s DEF TasksOK
    <3>2. state'[p] # "none" => state[p] # "none" BY <1>1, <1>2
    <3>3. IsTask(p)' = IsTask(p) BY <1>2 DEF IsTask
    <3>. QED BY <3>1, <3>2, <3>3, <1>2 DEF TaskOK
  <2>2. IsTask(VFS)' = IsTask(VFS) BY <1>2 DEF IsTask
  <2>. QED BY <2>1, <2>2, <1>s, <1>1, <1>2, Who DEF TasksOK
<1>7. VfsOK' BY <1>s, <1>1, <1>2, Who DEF VfsOK
<1>8. SysOK'
  <2>1. SysIdleOK' /\ SysStartOK' /\ SysGotOK' /\ SysChildOK'
    BY <1>1, <1>2 DEF SysIdleOK, SysStartOK, SysGotOK, SysChildOK
  <2>2. SysWorkOK' BY <1>s, <1>2, <1>3 DEF SysOK, SysWorkOK
  <2>3. SysCallOK' BY <1>s, <1>1, <1>2, Who DEF SysOK, SysCallOK
  <2>. QED BY <2>1, <2>2, <2>3 DEF SysOK
<1>9. UsersOK'
  <2> SUFFICES ASSUME NEW p \in Pid, User(p) PROVE UserOK(p)' BY <1>3 DEF UsersOK
  <2>. QED BY <1>s, <1>2, <1>3, <1>4, UserFrame, UserNoTask DEF UsersOK
<1>10. FamilyOK'
  BY <1>s, <1>1, <1>2, <1>3, UserNoTask, FamilyFrame DEF Untouched
<1>. QED BY <1>5, <1>6, <1>7, <1>8, <1>9, <1>10 DEF SInv

\* A server that had to wait runs again: the result it computes is there.
LEMMA ServerReturns ==
  ASSUME SInv, IInv', NEW t \in Pid, TaskReturn(t), UNCHANGED threads
  PROVE  SInv'
<1>s. /\ ThreadsOK /\ TasksOK /\ VfsOK /\ SysOK /\ UsersOK /\ FamilyOK /\ Typed /\ IInv
  BY Types DEF SInv
<1>1. t \in {SYSTEM, VFS} /\ ops[t] # {} /\ state[t] = "ready" /\ RECV \in ops[t]
      /\ (t = VFS => vfs = "got")
  <2>1. t \in {SYSTEM, VFS} /\ ops[t] # {} BY <1>s DEF TasksOK, TaskOK, TaskReturn
  <2>2. IsTask(t) BY <2>1, <1>s DEF Typed, IsTask
  <2>3. state[t] = "ready"
    BY <2>1, <2>2, <1>s, IdleIsReady DEF TaskReturn, IInv, OnCpu, Is
  <2>4. CASE t = VFS
    BY <2>1, <2>3, <2>4, <1>s, Who DEF VfsOK, ThreadsOK
  <2>5. CASE t = SYSTEM
    BY <2>1, <2>3, <2>5, <1>s, Who DEF SysOK, SysIdleOK, SysGotOK, SysCallOK, ThreadsOK
  <2>. QED BY <2>1, <2>3, <2>4, <2>5
<1>2. m_from[t] = d0[t] /\ m_from[t] \in Pid
  <2>1. CASE t = VFS
    BY <2>1, <1>1, <1>s, UserNoTask, Who DEF VfsOK, Pending
  <2>2. CASE t = SYSTEM
    <3>1. sys.pc \in {"got", "kill", "answer"}
      BY <2>2, <1>1, <1>s DEF SysOK, SysIdleOK, ThreadsOK
    <3>2. CASE sys.pc = "got"
      BY <3>2, <2>2, <1>1, <1>s, UserNoTask DEF SysOK, SysGotOK, Pending
    <3>3. CASE sys.pc \in {"kill", "answer"}
      BY <3>3, <2>2, <1>1, <1>s, Who DEF SysOK, SysCallOK
    <3>. QED BY <3>1, <3>2, <3>3
  <2>. QED BY <1>1, <2>1, <2>2
<1>3. /\ sys' = sys /\ user' = user /\ vfs' = vfs /\ uid' = uid /\ ppid' = ppid
      /\ sig_mask' = sig_mask /\ state' = state /\ m_from' = m_from /\ m_to' = m_to
      /\ msg' = msg /\ d0' = d0
      /\ \A p \in Pid : ops'[p] = IF p = t THEN {} ELSE ops[p]
  BY <1>1, <1>2, <1>s, Who DEF TaskReturn, threads, Typed
<1>4. /\ \A p : User(p)' = User(p) /\ Pending(p)' = Pending(p) /\ IsTask(p)' = IsTask(p)
      /\ \A p : User(p) => Untouched(p)
      /\ VfsServed' = VfsServed /\ SysServed' = SysServed
  <2>1. \A p : User(p)' = User(p) /\ Pending(p)' = Pending(p) /\ IsTask(p)' = IsTask(p)
    BY <1>3 DEF User, Pending, IsTask
  <2>2. \A p : User(p) => Untouched(p) BY <1>1, <1>3, UserNoTask, <1>s DEF Untouched
  <2>. QED BY <1>3, <2>1, <2>2 DEF VfsServed, SysServed
<1>5. ThreadsOK' BY <1>s, <1>3 DEF ThreadsOK
<1>6. TasksOK' BY <1>s, <1>1, <1>3, <1>4, Who DEF TasksOK, TaskOK
<1>7. VfsOK'
  <2>1. ops'[VFS] = {} \/ ops'[VFS] = ops[VFS] BY <1>3, Who
  <2>2. state[VFS] = "blocked" => ops'[VFS] = ops[VFS] BY <1>1, <1>3, Who
  <2>. QED BY <2>1, <2>2, <1>s, <1>3, <1>4 DEF VfsOK
<1>8. SysOK'
  <2>1. ops'[SYSTEM] = {} \/ ops'[SYSTEM] = ops[SYSTEM] BY <1>3, Who
  <2>2. /\ state[SYSTEM] = "blocked" => ops'[SYSTEM] = ops[SYSTEM]
        /\ sys.pc \in {"kill", "answer"} /\ ops[SYSTEM] # {} /\ state[SYSTEM] = "ready" =>
             d0[SYSTEM] = VFS /\ msg[SYSTEM] = Answer("vfs", 0)
    BY <1>1, <1>3, <1>s, Who DEF SysOK, SysCallOK
  <2>3. SysIdleOK' BY <2>1, <1>s, <1>3 DEF SysOK, SysIdleOK
  <2>4. SysStartOK' BY <1>s, <1>3, <1>4 DEF SysOK, SysStartOK
  <2>5. SysGotOK' BY <2>1, <2>2, <1>s, <1>3, <1>4 DEF SysOK, SysGotOK
  <2>6. SysWorkOK' BY <1>s, <1>3, <1>4 DEF SysOK, SysWorkOK
  <2>7. SysCallOK' BY <2>1, <2>2, <1>s, <1>3, <1>4 DEF SysOK, SysCallOK
  <2>8. SysChildOK' BY <1>s, <1>3, <1>4 DEF SysOK, SysChildOK
  <2>. QED BY <2>3, <2>4, <2>5, <2>6, <2>7, <2>8 DEF SysOK
<1>9. UsersOK' BY <1>s, <1>3, <1>4, UserFrame DEF UsersOK
<1>10. FamilyOK' BY <1>s, <1>3, <1>4, FamilyFrame
<1>. QED BY <1>5, <1>6, <1>7, <1>8, <1>9, <1>10 DEF SInv

\* A server listens: nobody has called it.
LEMMA ServerListens ==
  ASSUME SInv, IInv', NEW t \in {SYSTEM, VFS}, Wait(t, ANY, {RECV}, NoMsg), user' = user,
         \/ /\ t = VFS /\ vfs = "recv" /\ vfs' = "got" /\ sys' = sys
         \/ /\ t = SYSTEM /\ sys.pc = "recv" /\ sys' = [sys EXCEPT !.pc = "got"] /\ vfs' = vfs
  PROVE  SInv'
<1>s. /\ ThreadsOK /\ TasksOK /\ VfsOK /\ SysOK /\ UsersOK /\ FamilyOK /\ Typed
  BY Types DEF SInv
<1>1. t \in Pid /\ state[t] = "ready" /\ sig_mask[t] = {} /\ IsTask(t)
  BY Who, <1>s DEF Wait, Running, TasksOK, TaskOK, Typed, IsTask
<1>2. /\ uid' = uid /\ ppid' = ppid /\ d0' = d0 /\ msg' = msg
      /\ \A p \in Pid : sig_mask'[p] = sig_mask[p]
      /\ \A p \in Pid : state'[p] = IF p = t THEN "blocked" ELSE state[p]
      /\ \A p \in Pid : m_from'[p] = IF p = t THEN ANY ELSE m_from[p]
      /\ \A p \in Pid : m_to'[p] = IF p = t THEN NONE ELSE m_to[p]
      /\ \A p \in Pid : ops'[p] = IF p = t THEN {RECV} ELSE ops[p]
  BY <1>1, <1>s, Who DEF Wait, Typed, SEND, RECV
<1>3. /\ \A p : User(p)' = User(p) /\ IsTask(p)' = IsTask(p)
      /\ \A p \in Pid : p # t => Untouched(p)
      /\ \A p : Pending(p) => Pending(p)'
  <2>1. \A p : User(p)' = User(p) /\ IsTask(p)' = IsTask(p)
    BY <1>1, <1>2 DEF User, IsTask
  <2>2. \A p \in Pid : p # t => Untouched(p) BY <1>2 DEF Untouched
  <2>3. \A p : Pending(p) => Pending(p)'
    BY <2>1, <2>2, <1>2, <1>s, UserNoTask DEF Pending, Untouched
  <2>. QED BY <2>1, <2>2, <2>3
<1>4. VfsServed' = VfsServed /\ SysServed' = SysServed /\ VfsServed # {SYSTEM}
  <2>1. CASE t = VFS
    BY <2>1, <1>1, <1>2, <1>s, Who, UserNoTask DEF VfsServed, SysServed
  <2>2. CASE t = SYSTEM
    <3>1. VfsServed' = VfsServed BY <2>2, <1>2, Who DEF VfsServed
    <3>2. SysServed' = SysServed BY <2>2, <1>2, Who, <1>s DEF SysServed, ThreadsOK
    <3>3. VfsServed # {SYSTEM}
      BY <2>2, Who, <1>s, UserNoTask DEF VfsServed, VfsOK, Pending
    <3>. QED BY <3>1, <3>2, <3>3
  <2>. QED BY <2>1, <2>2
<1>5. ThreadsOK' BY <1>s, <1>2 DEF ThreadsOK
<1>6. TasksOK' BY <1>s, <1>1, <1>2, <1>3, Who DEF TasksOK, TaskOK, ThreadsOK
<1>7. VfsOK'
  <2>1. CASE t = VFS BY <2>1, <1>2, Who DEF VfsOK
  <2>2. CASE t = SYSTEM
    BY <2>2, <1>s, <1>2, <1>3, <1>4, Who, VfsFrame
  <2>. QED BY <2>1, <2>2
<1>8. SysOK'
  <2>1. CASE t = VFS
    <3>1. SysStartOK' BY <2>1, <1>s, <1>2, <1>3, Who DEF SysOK, SysStartOK, User
    <3>. QED BY <2>1, <3>1, <1>s, <1>2, <1>3, <1>4, Who, SysFrame
  <2>2. CASE t = SYSTEM
    <3>1. sys'.pc = "got" BY <2>2, <1>s, Who DEF ThreadsOK
    <3>. QED BY <2>2, <3>1, <1>2, Who
             DEF SysOK, SysIdleOK, SysStartOK, SysGotOK, SysWorkOK, SysCallOK, SysChildOK
  <2>. QED BY <2>1, <2>2
<1>9. UsersOK'
  <2> SUFFICES ASSUME NEW p \in Pid, User(p) PROVE UserOK(p)' BY <1>3 DEF UsersOK
  <2>1. p # t BY <1>s, UserNoTask
  <2>2. sys.pc = "start" => sys'.pc = "start" OBVIOUS
  <2>. QED BY <2>1, <2>2, <1>s, <1>3, <1>4, UserFrame DEF UsersOK
<1>10. FamilyOK'
  <2>1. \/ sys' = sys
        \/ sys'.pc # "answer" /\ sys.pc \notin {"vfs", "answer"}
    BY <1>s DEF ThreadsOK
  <2>. QED BY <2>1, <1>s, <1>1, <1>2, <1>3, UserNoTask, FamilyFrame DEF Untouched
<1>. QED BY <1>5, <1>6, <1>7, <1>8, <1>9, <1>10 DEF SInv

\* Who is blocked sending: a user process to the server of its call, or the
\* system task to the file system server.
LEMMA WhoSends ==
  ASSUME SInv, NEW p \in Pid, NEW s \in Senders(p)
  PROVE  /\ s \in Pid /\ state[s] = "blocked" /\ m_to[s] = p
         /\ \/ /\ User(s) /\ user[s].in /\ p = Callee(user[s].pc) /\ m_from[s] = p
               /\ msg[s] = Request(user[s].pc, user[s].kid)
            \/ /\ s = SYSTEM /\ p = VFS /\ m_from[s] = VFS /\ ops[s] = {SEND, RECV}
               /\ sys.pc \in {"kill", "answer"}
<1>s. /\ ThreadsOK /\ TasksOK /\ VfsOK /\ SysOK /\ UsersOK /\ Typed
  BY Types DEF SInv
<1>1. s \in Pid /\ state[s] = "blocked" /\ m_to[s] = p /\ m_to[s] # NONE
  BY Who DEF Senders
<1>2. CASE User(s)
  <2>1. user[s].in
    BY <1>1, <1>2, <1>s DEF UsersOK, UserOK, SysOK, SysStartOK
  <2>. QED BY <2>1, <1>1, <1>2, <1>s DEF UsersOK, UserOK
<1>3. CASE ~User(s)
  <2>1. s \in {SYSTEM, VFS, IDLE} BY <1>1, <1>3, <1>s DEF User, TasksOK, TaskOK
  <2>2. s = SYSTEM BY <2>1, <1>1, <1>s DEF Typed, VfsOK
  <2>3. sys.pc \in {"kill", "answer"}
    BY <2>2, <1>1, <1>s DEF SysOK, SysIdleOK, SysGotOK, ThreadsOK
  <2>. QED BY <2>2, <2>3, <1>1, <1>s DEF SysOK, SysCallOK
<1>. QED BY <1>1, <1>2, <1>3

\* A server takes the message of a process that is blocked sending to it, and
\* leaves that process to wait for the answer.
LEMMA ServerTakes ==
  ASSUME SInv, IInv', NEW t \in {SYSTEM, VFS}, RecvNow(t), user' = user,
         \/ /\ t = VFS /\ vfs = "recv" /\ vfs' = "got" /\ sys' = sys
         \/ /\ t = SYSTEM /\ sys.pc = "recv" /\ sys' = [sys EXCEPT !.pc = "got"] /\ vfs' = vfs
  PROVE  SInv'
<1>s. /\ ThreadsOK /\ TasksOK /\ VfsOK /\ SysOK /\ UsersOK /\ FamilyOK /\ Typed
  BY Types DEF SInv
<1>1. t \in Pid /\ state[t] = "ready" /\ IsTask(t) /\ ops[t] = {}
  BY Who, <1>s DEF RecvNow, Running, Typed, IsTask
<1>2. PICK s \in Senders(t) :
      /\ state' = IF OnlySends(s) THEN [state EXCEPT ![s] = "ready"] ELSE state
      /\ m_from' = [m_from EXCEPT ![t] = NONE]
      /\ m_to' = [m_to EXCEPT ![s] = NONE, ![t] = NONE]
      /\ d0' = [d0 EXCEPT ![s] = t, ![t] = s]
      /\ msg' = [msg EXCEPT ![t] = msg[s]]
      /\ UNCHANGED <<sig_mask, ppid, uid, ops>>
  BY DEF RecvNow
<1>3. /\ s \in Pid /\ state[s] = "blocked" /\ m_to[s] = t /\ s # t /\ m_from[s] = t
      /\ \/ /\ User(s) /\ user[s].in /\ t = Callee(user[s].pc)
            /\ msg[s] = Request(user[s].pc, user[s].kid)
         \/ s = SYSTEM /\ t = VFS /\ sys.pc \in {"kill", "answer"} /\ ops[s] = {SEND, RECV}
  BY <1>1, WhoSends
<1>4. /\ uid' = uid /\ ppid' = ppid /\ ops' = ops /\ sig_mask' = sig_mask /\ state' = state
      /\ \A p \in Pid : m_from'[p] = IF p = t THEN NONE ELSE m_from[p]
      /\ \A p \in Pid : m_to'[p] = IF p \in {s, t} THEN NONE ELSE m_to[p]
      /\ \A p \in Pid : d0'[p] = IF p = t THEN s ELSE IF p = s THEN t ELSE d0[p]
      /\ \A p \in Pid : msg'[p] = IF p = t THEN msg[s] ELSE msg[p]
  BY <1>1, <1>2, <1>3, <1>s, Who DEF Typed, OnlySends
<1>5. /\ \A p : User(p)' = User(p) /\ IsTask(p)' = IsTask(p)
      /\ \A p \in Pid : p # t /\ p # s => Untouched(p)
      /\ \A p : Pending(p) => p # s /\ Pending(p)'
      /\ User(s) => Pending(s)'
  <2>1. \A p : User(p)' = User(p) /\ IsTask(p)' = IsTask(p)
    BY <1>4 DEF User, IsTask
  <2>2. \A p \in Pid : p # t /\ p # s => Untouched(p) BY <1>4 DEF Untouched
  <2>3. \A p : Pending(p) => p # s /\ p # t BY <1>1, <1>3, Who DEF Pending, User
  <2>4. \A p : Pending(p) => Pending(p)'
    BY <2>1, <2>2, <2>3, <1>4, <1>s, UserNoTask DEF Pending, Untouched
  <2>5. User(s) => Pending(s)' BY <2>1, <1>3, <1>4, Who, UserNoTask, <1>s DEF Pending
  <2>. QED BY <2>1, <2>2, <2>3, <2>4, <2>5
<1>6. /\ t = VFS => VfsServed = {} /\ VfsServed' = {s} /\ SysServed' = SysServed
      /\ t = SYSTEM => SysServed = {} /\ SysServed' = {s} /\ VfsServed' = VfsServed
      /\ t = SYSTEM => VfsServed # {SYSTEM}
  <2>1. CASE t = VFS
    <3>1. sys.pc # "got" \/ state[SYSTEM] # "ready" \/ s # SYSTEM BY <1>3
    <3>. QED BY <2>1, <3>1, <1>1, <1>3, <1>4, <1>s, Who DEF VfsServed, SysServed
  <2>2. CASE t = SYSTEM
    <3>1. VfsServed' = VfsServed BY <2>2, <1>3, <1>4, Who, <1>s, UserNoTask DEF VfsServed
    <3>2. SysServed = {} /\ SysServed' = {s}
      BY <2>2, <1>1, <1>4, Who, <1>s DEF SysServed, ThreadsOK
    <3>3. VfsServed # {SYSTEM}
      BY <2>2, Who, <1>s, UserNoTask DEF VfsServed, VfsOK, Pending
    <3>. QED BY <2>2, <3>1, <3>2, <3>3, Who
  <2>. QED BY <2>1, <2>2
<1>7. ThreadsOK' BY <1>s, <1>4 DEF ThreadsOK
<1>8. TasksOK' BY <1>s, <1>1, <1>4, <1>5, Who DEF TasksOK, TaskOK, ThreadsOK
<1>9. VfsOK'
  <2>1. CASE t = VFS
    <3>1. \/ Pending(s)' /\ user'[s].pc = "vfs"
          \/ /\ s = SYSTEM /\ sys'.pc \in {"kill", "answer"}
             /\ state'[SYSTEM] = "blocked" /\ m_to'[SYSTEM] = NONE
      BY <2>1, <1>3, <1>4, <1>5, Who DEF Callee
    <3>. QED BY <2>1, <3>1, <1>1, <1>4, Who DEF VfsOK
  <2>2. CASE t = SYSTEM
    BY <2>2, <1>s, <1>3, <1>4, <1>5, <1>6, Who, UserNoTask, VfsFrame
  <2>. QED BY <2>1, <2>2
<1>10. SysOK'
  <2>1. CASE t = VFS /\ s # SYSTEM
    <3>1. SysStartOK' BY <2>1, <1>s, <1>4, <1>5, Who, UserNoTask DEF SysOK, SysStartOK, User
    <3>. QED BY <2>1, <3>1, <1>s, <1>4, <1>5, <1>6, Who, SysFrame
  <2>2. CASE t = VFS /\ s = SYSTEM
    <3>1. SysIdleOK' /\ SysStartOK' /\ SysGotOK' /\ SysChildOK'
      BY <2>2, <1>3, <1>s, UserNoTask, Who DEF SysIdleOK, SysStartOK, SysGotOK, SysChildOK
    <3>2. SysWorkOK' BY <2>2, <1>3, <1>s, <1>4, <1>5, Who DEF SysOK, SysWorkOK
    <3>3. SysCallOK'
      BY <2>2, <1>3, <1>s, <1>4, <1>6, Who DEF SysOK, SysCallOK
    <3>. QED BY <3>1, <3>2, <3>3 DEF SysOK
  <2>3. CASE t = SYSTEM
    <3>1. sys'.pc = "got" BY <2>3, <1>s, Who DEF ThreadsOK
    <3>2. SysGotOK'
      BY <2>3, <1>1, <1>3, <1>4, <1>5, Who DEF SysGotOK, Callee
    <3>. QED BY <3>1, <3>2 DEF SysOK, SysIdleOK, SysStartOK, SysWorkOK, SysCallOK, SysChildOK
  <2>. QED BY <1>3, <2>1, <2>2, <2>3
<1>11. UsersOK'
  <2> SUFFICES ASSUME NEW p \in Pid, User(p) PROVE UserOK(p)' BY <1>5 DEF UsersOK
  <2>0. UserOK(p) /\ p # t BY <1>s, UserNoTask DEF UsersOK
  <2>1. CASE p = s
    <3>1. /\ state'[p] = "blocked" /\ user'[p].in /\ m_to'[p] = NONE /\ m_from'[p] = t
          /\ t = Callee(user'[p].pc)
      BY <2>0, <2>1, <1>3, <1>4, UserNoTask, <1>s
    <3>2. \/ t = VFS /\ p \in VfsServed' /\ user'[p].pc = "vfs"
          \/ t = SYSTEM /\ p \in SysServed' /\ user'[p].pc # "vfs"
      BY <2>1, <3>1, <1>6, Who DEF Callee
    <3>. QED BY <3>1, <3>2 DEF UserOK
  <2>2. CASE p # s
    <3>1. sys.pc = "start" => sys'.pc = "start" OBVIOUS
    <3>2. (p \in VfsServed => p \in VfsServed') /\ (p \in SysServed => p \in SysServed')
      BY <1>6
    <3>. QED BY <2>0, <2>2, <3>1, <3>2, <1>5, UserFrame
  <2>. QED BY <2>1, <2>2
<1>12. FamilyOK'
  <2>1. \A p \in Pid : User(p) => msg'[p] = msg[p] BY <1>4, UserNoTask, <1>s
  <2>2. \/ sys' = sys
        \/ sys'.pc # "answer" /\ sys.pc \notin {"vfs", "answer"}
    BY <1>s DEF ThreadsOK
  <2>. QED BY <2>1, <2>2, <1>s, <1>4, <1>5, FamilyFrame
<1>. QED BY <1>7, <1>8, <1>9, <1>10, <1>11, <1>12 DEF SInv

\* A user process makes its call: the server is listening and takes it, or it
\* is not and the process is queued.
LEMMA UserCallsKeeps ==
  ASSUME SInv, IInv', Quiet, NEW c \in Pid, UserCalls(c)
  PROVE  SInv'
<1>s. /\ ThreadsOK /\ TasksOK /\ VfsOK /\ SysOK /\ UsersOK /\ FamilyOK /\ Typed
  BY Types DEF SInv
<1> DEFINE q == Callee(user[c].pc)
           m == Request(user[c].pc, user[c].kid)
<1>1. /\ Running(c) /\ ~IsTask(c) /\ ~user[c].in /\ user' = [user EXCEPT ![c].in = TRUE]
      /\ sys' = sys /\ vfs' = vfs /\ Call(c, q, m)
      /\ user[c].pc = "exit" => InWait(ppid[c])
  BY DEF UserCalls, UserRuns, Trap, MayEnd, Quiet
<1>2. /\ User(c) /\ state[c] = "ready" /\ q \in {SYSTEM, VFS} /\ q # c /\ q \in Pid
      /\ c # SYSTEM /\ c # VFS /\ c # IDLE
  BY <1>1, <1>s, Who, UserNoTask DEF Running, User, Callee
<1>3. q \notin Senders(c)
  BY <1>2, WhoSends, UserNoTask, <1>s
<1>4. Wait(c, q, {SEND, RECV}, m)
  BY <1>1, <1>3 DEF Call, SendLocked
<1>5. ASSUME Accepts(q, c)
      PROVE  /\ state[q] = "blocked" /\ m_from[q] = ANY /\ m_to[q] = NONE /\ ops[q] = {RECV}
             /\ q = SYSTEM => sys.pc = "got"
             /\ q = VFS => vfs = "got"
  <2>1. state[q] = "blocked" /\ m_from[q] \in {c, ANY} BY <1>5 DEF Accepts
  <2>2. CASE q = VFS BY <2>1, <2>2, <1>2, <1>s, Who DEF VfsOK
  <2>3. CASE q = SYSTEM
    <3>1. sys.pc \in {"got", "kill", "answer"} BY <2>1, <2>3, <1>s DEF SysOK, SysIdleOK, ThreadsOK
    <3>2. sys.pc = "got" BY <3>1, <2>1, <2>3, <1>2, <1>s, Who DEF SysOK, SysCallOK
    <3>. QED BY <3>2, <2>1, <2>3, <1>s, Who DEF SysOK, SysGotOK
  <2>. QED BY <1>2, <2>2, <2>3, <2>1, Who
<1> HIDE DEF q, m
<1>6. /\ uid' = uid /\ ppid' = ppid /\ ops' = ops
      /\ \A p \in Pid : sig_mask'[p] = sig_mask[p]
      /\ \A p \in Pid : state'[p] = IF p = c THEN "blocked"
                                    ELSE IF p = q /\ Accepts(q, c) THEN "ready" ELSE state[p]
      /\ \A p \in Pid : m_from'[p] = IF p = c THEN q
                                     ELSE IF p = q /\ Accepts(q, c) THEN c ELSE m_from[p]
      /\ \A p \in Pid : m_to'[p] = IF p # c THEN m_to[p]
                                   ELSE IF Accepts(q, c) THEN NONE ELSE q
      /\ \A p \in Pid : d0'[p] = IF p = q /\ Accepts(q, c) THEN c ELSE d0[p]
      /\ \A p \in Pid : msg'[p] = IF p = c \/ (p = q /\ Accepts(q, c)) THEN m ELSE msg[p]
  <2>1. sig_mask[c] = {} BY <1>s DEF TasksOK, TaskOK
  <2>2. SEND \in {SEND, RECV} /\ RECV \in {SEND, RECV} OBVIOUS
  <2>3. /\ uid' = uid /\ ppid' = ppid /\ ops' = ops
        /\ sig_mask' = [sig_mask EXCEPT ![c] = @ \ {"alrm"}]
    BY <2>1, <2>2, <1>1, <1>4 DEF Wait
  <2>4. CASE Accepts(q, c)
    <3>1. /\ state' = [[state EXCEPT ![q] = "ready"] EXCEPT ![c] = "blocked"]
          /\ m_from' = [[m_from EXCEPT ![q] = c] EXCEPT ![c] = q]
          /\ m_to' = [m_to EXCEPT ![c] = NONE]
          /\ d0' = [d0 EXCEPT ![q] = c]
          /\ msg' = [msg EXCEPT ![c] = m, ![q] = m]
      BY <2>1, <2>2, <2>4, <1>1, <1>4 DEF Wait
    <3>. QED BY <2>1, <2>3, <2>4, <3>1, <1>2, <1>s DEF Typed
  <2>5. CASE ~Accepts(q, c)
    <3>1. /\ state' = [state EXCEPT ![c] = "blocked"]
          /\ m_from' = [m_from EXCEPT ![c] = q]
          /\ m_to' = [m_to EXCEPT ![c] = q]
          /\ d0' = d0
          /\ msg' = [msg EXCEPT ![c] = m]
      BY <2>1, <2>2, <2>5, <1>1, <1>4 DEF Wait
    <3>2. \A p \in Pid : sig_mask'[p] = sig_mask[p] BY <2>1, <2>3, <1>s DEF Typed
    <3>3. \A p \in Pid : m_to'[p] = IF p # c THEN m_to[p] ELSE q BY <3>1, <1>2, <1>s DEF Typed
    <3>. QED BY <2>3, <2>5, <3>1, <3>2, <3>3, <1>2, <1>s DEF Typed
  <2>. QED BY <2>4, <2>5
<1>7. /\ \A p \in Pid : user'[p] = IF p = c THEN [user[c] EXCEPT !.in = TRUE] ELSE user[p]
      /\ user'[c].in /\ user'[c].pc = user[c].pc /\ user'[c].kid = user[c].kid
      /\ user'[c].prog = user[c].prog
  BY <1>1, <1>s DEF ThreadsOK
<1>8. /\ \A p : User(p)' = User(p) /\ IsTask(p)' = IsTask(p)
      /\ \A p \in Pid : p # c /\ (p = q => ~Accepts(q, c)) => Untouched(p)
      /\ \A p : User(p) /\ p # c => Untouched(p)
      /\ \A p : Pending(p) => p # c /\ Pending(p)'
      /\ Accepts(q, c) => Pending(c)'
  <2>1. \A p : User(p)' = User(p) /\ IsTask(p)' = IsTask(p)
    BY <1>2, <1>5, <1>6 DEF User, IsTask
  <2>2. \A p \in Pid : p # c /\ (p = q => ~Accepts(q, c)) => Untouched(p)
    BY <1>6, <1>7 DEF Untouched
  <2>3. \A p : User(p) /\ p # c => Untouched(p)
    BY <2>2, <1>2, <1>s, UserNoTask
  <2>4. \A p : Pending(p) => p # c /\ Pending(p)'
    BY <2>1, <2>3, <1>1 DEF Pending, Untouched
  <2>5. Accepts(q, c) => Pending(c)'
    BY <2>1, <1>2, <1>6, <1>7 DEF Pending, q, Callee
  <2>. QED BY <2>1, <2>2, <2>3, <2>4, <2>5
<1>9. /\ VfsServed' = IF Accepts(q, c) /\ q = VFS THEN {c} ELSE VfsServed
      /\ SysServed' = IF Accepts(q, c) /\ q = SYSTEM THEN {c} ELSE SysServed
      /\ Accepts(q, c) /\ q = VFS => VfsServed = {}
      /\ Accepts(q, c) /\ q = SYSTEM => SysServed = {}
  BY <1>1, <1>2, <1>5, <1>6, Who DEF VfsServed, SysServed
<1>10. ThreadsOK'
  BY <1>s, <1>1 DEF ThreadsOK
<1>11. TasksOK'
  <2>1. ~user[VFS].in /\ state'[VFS] # "stopped" /\ (state'[VFS] = "none" <=> state[VFS] = "none")
    BY <1>s, <1>2, <1>5, <1>6, Who DEF TasksOK, TaskOK
  <2>2. ASSUME NEW p \in Pid PROVE TaskOK(p)'
    <3>1. TaskOK(p) BY <1>s DEF TasksOK
    <3>2. state'[p] # "none" => state[p] # "none" BY <1>2, <1>5, <1>6
    <3>3. IsTask(p) => user'[p] = user[p] BY <1>1, <1>7
    <3>. QED BY <3>1, <3>2, <3>3, <1>1, <1>6, <1>8 DEF TaskOK
  <2>. QED BY <2>1, <2>2, <1>s, <1>1, <1>8 DEF TasksOK
<1>12. VfsOK'
  <2>1. CASE Accepts(q, c) /\ q = VFS
    <3>1. user[c].pc = "vfs" BY <2>1, Who DEF q, Callee
    <3>2. state'[VFS] = "ready" /\ d0'[VFS] = c /\ m_from'[VFS] = c /\ ops'[VFS] = {RECV}
      BY <2>1, <1>2, <1>5, <1>6
    <3>. QED BY <2>1, <3>1, <3>2, <1>1, <1>5, <1>7, <1>8 DEF VfsOK
  <2>2. CASE ~(Accepts(q, c) /\ q = VFS)
    <3>1. Untouched(VFS) BY <2>2, <1>2, <1>8, Who
    <3>2. VfsServed = {SYSTEM} /\ state[SYSTEM] = "blocked" => Untouched(SYSTEM)
      <4>1. VfsServed = {SYSTEM} => sys.pc # "got"
        BY <1>s, UserNoTask, Who DEF VfsServed, VfsOK, Pending
      <4>. QED BY <4>1, <1>2, <1>5, <1>8, Who
    <3>. QED BY <3>1, <3>2, <1>s, <1>1, <1>8, VfsFrame DEF Pending, Untouched
  <2>. QED BY <2>1, <2>2
<1>13. SysOK'
  <2>1. SysStartOK'
    BY <1>s, <1>1, <1>2, <1>8 DEF SysOK, SysStartOK, Untouched
  <2>2. CASE Accepts(q, c) /\ q = SYSTEM
    <3>1. user[c].pc # "vfs" BY <2>2, Who DEF q, Callee
    <3>2. /\ state'[SYSTEM] = "ready" /\ d0'[SYSTEM] = c /\ m_from'[SYSTEM] = c
          /\ ops'[SYSTEM] = {RECV} /\ msg'[SYSTEM] = m /\ sys'.pc = "got"
      BY <2>2, <1>1, <1>2, <1>5, <1>6
    <3>3. SysGotOK'
      BY <2>2, <3>1, <3>2, <1>7, <1>8 DEF SysGotOK, m
    <3>. QED BY <3>2, <3>3
             DEF SysOK, SysIdleOK, SysStartOK, SysWorkOK, SysCallOK, SysChildOK
  <2>3. CASE ~(Accepts(q, c) /\ q = SYSTEM)
    <3>1. Untouched(SYSTEM) BY <2>3, <1>2, <1>8, Who
    <3>2. VfsServed = {SYSTEM} => VfsServed' = {SYSTEM} BY <1>9
    <3>3. \A p : Pending(p) => Pending(p)' /\ user'[p] = user[p] /\ ppid'[p] = ppid[p]
      BY <1>8 DEF Pending, Untouched
    <3>. QED BY <2>1, <3>1, <3>2, <3>3, <1>s, <1>1, SysFrame
  <2>. QED BY <2>2, <2>3
<1>14. UsersOK'
  <2> SUFFICES ASSUME NEW p \in Pid, User(p) PROVE UserOK(p)' BY <1>8 DEF UsersOK
  <2>1. CASE p = c
    <3>1. state'[p] = "blocked" /\ user'[p].in /\ m_from'[p] = q /\ msg'[p] = m
      BY <2>1, <1>6, <1>7
    <3>2. CASE Accepts(q, c)
      <4>1. /\ m_to'[p] = NONE
            /\ \/ q = VFS /\ user'[p].pc = "vfs" /\ p \in VfsServed'
               \/ q = SYSTEM /\ user'[p].pc # "vfs" /\ p \in SysServed'
        BY <2>1, <3>2, <1>2, <1>6, <1>7, <1>9, Who DEF q, Callee
      <4>. QED BY <3>1, <4>1 DEF UserOK
    <3>3. CASE ~Accepts(q, c)
      <4>1. m_to'[p] = q /\ q # NONE BY <2>1, <3>3, <1>2, <1>6, Who
      <4>2. q = Callee(user'[p].pc) /\ m = Request(user'[p].pc, user'[p].kid)
        BY <2>1, <1>7 DEF q, m
      <4>. QED BY <3>1, <4>1, <4>2 DEF UserOK, Callee
    <3>. QED BY <3>2, <3>3
  <2>2. CASE p # c
    <3>1. (p \in VfsServed => p \in VfsServed') /\ (p \in SysServed => p \in SysServed')
      BY <1>9
    <3>. QED BY <2>2, <3>1, <1>s, <1>1, <1>8, UserFrame DEF UsersOK
  <2>. QED BY <2>1, <2>2
<1>15. FamilyOK'
  <2> SUFFICES ASSUME NEW p \in Pid, User(p)
               PROVE  ParentOK(p)' /\ ForkedOK(p)' /\ WaitOK(p)' /\ KillOK(p)' /\ ExitOK(p)'
    BY <1>8 DEF FamilyOK
  <2>0. ParentOK(p) /\ ForkedOK(p) /\ WaitOK(p) /\ KillOK(p) /\ ExitOK(p)
    BY <1>s DEF FamilyOK
  <2>1. \A x : User(x) => /\ x \in Pid
                          /\ (x # c => state'[x] = state[x] /\ msg'[x] = msg[x] /\ user'[x] = user[x])
    BY <1>8 DEF User, Untouched
  <2>2. state'[c] = "blocked" BY <1>6
  <2>3. \A x : InWait(x) /\ x \in Pid => InWait(x)'
    BY <1>s, <1>2, <1>6, <1>7, Who DEF InWait, TasksOK, TaskOK, IsTask, Typed
  <2>4. ParentOK(p)'
    <3>1. ASSUME NEW x, User(x), KidOf(x, p) PROVE KidOf(x, p)'
      BY <3>1, <2>1, <1>1, <1>2, <1>7 DEF KidOf
    <3>. QED BY <3>1, <2>0, <1>6, <1>8 DEF ParentOK
  <2>5. ForkedOK(p)' BY <2>0, <2>1, <2>2, <1>6, <1>8 DEF ForkedOK
  <2>6. WaitOK(p)' BY <2>0, <2>1, <2>2, <1>2, <1>6, <1>7, <1>8 DEF WaitOK
  <2>7. KillOK(p)'
    <3>1. CASE p = c
      <4>1. sys.pc = "answer" => sys.from # c
        BY <1>2, <1>s DEF SysOK, SysWorkOK, Pending
      <4>2. ~Killed(c) /\ ~Killed(c)' BY <4>1, <2>2, <1>1 DEF Killed
      <4>. QED BY <3>1, <4>2, <2>0, <2>1, <1>2, <1>6, <1>7, <1>8 DEF KillOK
    <3>2. CASE p # c
      <4>1. Killed(p)' = Killed(p) BY <3>2, <2>1, <1>1 DEF Killed
      <4>. QED BY <3>2, <4>1, <2>0, <2>1, <1>2, <1>6, <1>8 DEF KillOK
    <3>. QED BY <3>1, <3>2
  <2>8. ExitOK(p)'
    BY <2>0, <2>1, <2>3, <1>1, <1>2, <1>6, <1>7, <1>s DEF ExitOK, Typed
  <2>. QED BY <2>4, <2>5, <2>6, <2>7, <2>8
<1>. QED BY <1>10, <1>11, <1>12, <1>13, <1>14, <1>15 DEF SInv

-----------------------------------------------------------------------------
(* The system task at work.                                                *)

\* What it has received is the request of a process that waits for it.
LEMMA Got ==
  ASSUME SInv, NEW t, SysGot(t)
  PROVE  /\ d0[SYSTEM] \in Pid /\ Pending(d0[SYSTEM]) /\ User(d0[SYSTEM])
         /\ user[d0[SYSTEM]].pc = t /\ t # "vfs" /\ t \in Calls
         /\ msg[SYSTEM] = Request(t, user[d0[SYSTEM]].kid)
         /\ d0[SYSTEM] \notin {SYSTEM, VFS, IDLE} /\ state[d0[SYSTEM]] = "blocked"
         /\ user[d0[SYSTEM]].in /\ m_to[d0[SYSTEM]] = NONE /\ m_from[d0[SYSTEM]] = SYSTEM
         /\ uid[d0[SYSTEM]] # KERNEL
         /\ state[SYSTEM] = "ready" /\ ops[SYSTEM] = {} /\ sys.pc = "got"
         /\ SysServed = {d0[SYSTEM]} /\ VfsServed # {SYSTEM} /\ d0[SYSTEM] \notin VfsServed
<1>s. ThreadsOK /\ VfsOK /\ SysOK /\ Typed
  BY Types DEF SInv
<1> DEFINE c == d0[SYSTEM]
<1>1. state[SYSTEM] = "ready" /\ ops[SYSTEM] = {} /\ sys.pc = "got" /\ msg[SYSTEM].type = t
  BY DEF SysGot, SysAt, Running
<1>2. /\ Pending(c) /\ user[c].pc # "vfs"
      /\ msg[SYSTEM] = Request(user[c].pc, user[c].kid)
  BY <1>1, <1>s DEF SysOK, SysGotOK
<1>3. User(c) /\ c \in Pid /\ c \notin {SYSTEM, VFS, IDLE} /\ uid[c] # KERNEL
  BY <1>2, <1>s, UserNoTask DEF Pending
<1>4. user[c].pc = t BY <1>1, <1>2 DEF Request
<1>5. t \in Calls BY <1>3, <1>4, <1>s DEF ThreadsOK
<1>6. SysServed = {c} BY <1>1 DEF SysServed
<1>7. VfsServed # {SYSTEM} /\ c \notin VfsServed
  BY <1>1, <1>2, <1>3, <1>s, Who, UserNoTask DEF VfsServed, VfsOK, Pending
<1>. QED BY <1>1, <1>2, <1>3, <1>4, <1>5, <1>6, <1>7 DEF Pending, Callee

\* It decides what to do about a fork without a free slot, an exec or a kill.
LEMMA SysDecides ==
  ASSUME SInv, IInv', SysForkFails \/ SysExec \/ SysKill
  PROVE  SInv'
<1>s. /\ ThreadsOK /\ TasksOK /\ VfsOK /\ SysOK /\ UsersOK /\ FamilyOK /\ Typed
  BY Types DEF SInv
<1> DEFINE c == d0[SYSTEM]
<1>1. /\ state' = state /\ m_from' = m_from /\ m_to' = m_to /\ d0' = d0 /\ msg' = msg
      /\ ops' = ops /\ sig_mask' = sig_mask /\ uid' = uid /\ ppid' = ppid
      /\ vfs' = vfs /\ user' = user
  BY DEF SysForkFails, SysExec, SysKill, vars, ipc
<1>2. PICK t \in {"fork", "exec", "kill"} :
      /\ SysGot(t)
      /\ \/ Serve("vfs", t, IF t = "exec" THEN c ELSE msg[SYSTEM].pid) /\ t # "fork"
         \/ Serve("answer", t, NONE) /\ t # "kill"
  BY DEF SysForkFails, SysExec, SysKill
<1>3. /\ c \in Pid /\ Pending(c) /\ User(c) /\ user[c].pc = t /\ state[c] = "blocked"
      /\ msg[SYSTEM].pid = user[c].kid
      /\ state[SYSTEM] = "ready" /\ ops[SYSTEM] = {} /\ sys.pc = "got"
      /\ SysServed = {c} /\ VfsServed # {SYSTEM} /\ SYSTEM \in Pid
  <2>1. /\ c \in Pid /\ Pending(c) /\ User(c) /\ user[c].pc = t /\ state[c] = "blocked"
        /\ msg[SYSTEM] = Request(t, user[c].kid)
        /\ state[SYSTEM] = "ready" /\ ops[SYSTEM] = {} /\ sys.pc = "got"
        /\ SysServed = {c} /\ VfsServed # {SYSTEM}
    BY <1>2, Got
  <2>. QED BY <2>1, Who DEF Request
<1>4. /\ sys'.from = c /\ sys'.req = t /\ sys'.pc \in {"vfs", "answer"}
      /\ sys'.pc = "vfs" => sys'.child = IF t = "exec" THEN c ELSE user[c].kid
      /\ sys'.pc = "vfs" => t # "fork"
      /\ sys'.pc = "answer" => sys'.child = NONE /\ t # "kill"
  BY <1>2, <1>3 DEF Serve
<1>5. t = "kill" => user[c].kid \in Pid
  BY <1>3, <1>s DEF FamilyOK, KillOK, Killed, User
<1>6. /\ \A p : User(p)' = User(p) /\ IsTask(p)' = IsTask(p) /\ Pending(p)' = Pending(p)
      /\ \A p : Untouched(p)
      /\ VfsServed' = VfsServed /\ c \in SysServed'
  BY <1>1, <1>4 DEF User, IsTask, Pending, Untouched, VfsServed, SysServed
<1>7. ThreadsOK'
  BY <1>2, <1>3, <1>5, <1>s, <1>1 DEF ThreadsOK, Serve, Requests
<1>8. TasksOK' BY <1>s, <1>1, <1>3, <1>4, <1>6 DEF TasksOK, TaskOK
<1>9. VfsOK' BY <1>s, <1>1, <1>3, <1>6, VfsFrame
<1>10. SysOK'
  <2>1. SysWorkOK'
    <3>1. sys'.child # NONE => sys'.pc = "vfs" BY <1>4
    <3>2. sys'.pc = "vfs" => sys'.child # NONE BY <1>3, <1>4, <1>5, Who
    <3>3. t = "kill" => sys'.child = user[c].kid BY <1>4
    <3>. QED BY <3>1, <3>2, <3>3, <1>1, <1>3, <1>4, <1>6 DEF SysWorkOK
  <2>2. SysIdleOK' /\ SysStartOK' /\ SysGotOK' /\ SysChildOK' /\ SysCallOK'
    BY <1>1, <1>3, <1>4 DEF SysIdleOK, SysStartOK, SysGotOK, SysChildOK, SysCallOK
  <2>. QED BY <2>1, <2>2 DEF SysOK
<1>11. UsersOK' BY <1>s, <1>3, <1>6, UserFrame DEF UsersOK
<1>12. FamilyOK'
  <2>1. t = "kill" => sys'.pc = "vfs" BY <1>4
  <2>. QED BY <2>1, <1>s, <1>1, <1>3, <1>4, <1>6, FamilyFrame
<1>. QED BY <1>7, <1>8, <1>9, <1>10, <1>11, <1>12 DEF SInv

\* It calls the file system server, which is listening or is not.
LEMMA SysCallVfsKeeps ==
  ASSUME SInv, IInv', SysCallVfs
  PROVE  SInv'
<1>s. /\ ThreadsOK /\ TasksOK /\ VfsOK /\ SysOK /\ UsersOK /\ FamilyOK /\ Typed
  BY Types DEF SInv
<1> DEFINE m == Request("vfs", sys.child)
<1>1. /\ Running(SYSTEM) /\ sys.pc = "vfs" /\ Call(SYSTEM, VFS, m) /\ state[SYSTEM] = "ready"
      /\ vfs' = vfs /\ user' = user
      /\ sys' = [sys EXCEPT !.pc = IF sys.req = "kill" THEN "kill" ELSE "answer"]
  BY DEF SysCallVfs, SysAt, SysGo, Running
<1>2. /\ sys'.from = sys.from /\ sys'.req = sys.req /\ sys'.child = sys.child
      /\ sys'.pc = IF sys.req = "kill" THEN "kill" ELSE "answer"
      /\ sys'.pc \in {"kill", "answer"}
  BY <1>1, <1>s DEF ThreadsOK
<1>3. VFS \notin Senders(SYSTEM) BY WhoSends, Who, UserNoTask, <1>s
<1>4. Wait(SYSTEM, VFS, {SEND, RECV}, m) BY <1>1, <1>3 DEF Call, SendLocked
<1>5. ASSUME Accepts(VFS, SYSTEM)
      PROVE  /\ state[VFS] = "blocked" /\ ops[VFS] = {RECV} /\ vfs = "got"
  BY <1>5, <1>s DEF Accepts, VfsOK
<1> HIDE DEF m
<1>6. /\ uid' = uid /\ ppid' = ppid
      /\ \A p \in Pid : sig_mask'[p] = sig_mask[p]
      /\ \A p \in Pid : ops'[p] = IF p = SYSTEM THEN {SEND, RECV} ELSE ops[p]
      /\ \A p \in Pid : state'[p] = IF p = SYSTEM THEN "blocked"
                                    ELSE IF p = VFS /\ Accepts(VFS, SYSTEM) THEN "ready"
                                    ELSE state[p]
      /\ \A p \in Pid : m_from'[p] = IF p = SYSTEM THEN VFS
                                     ELSE IF p = VFS /\ Accepts(VFS, SYSTEM) THEN SYSTEM
                                     ELSE m_from[p]
      /\ \A p \in Pid : m_to'[p] = IF p # SYSTEM THEN m_to[p]
                                   ELSE IF Accepts(VFS, SYSTEM) THEN NONE ELSE VFS
      /\ \A p \in Pid : d0'[p] = IF p = VFS /\ Accepts(VFS, SYSTEM) THEN SYSTEM ELSE d0[p]
      /\ \A p \in Pid : msg'[p] = IF p = SYSTEM \/ (p = VFS /\ Accepts(VFS, SYSTEM)) THEN m
                                  ELSE msg[p]
  <2>1. sig_mask[SYSTEM] = {} /\ IsTask(SYSTEM)
    BY <1>s, Who DEF TasksOK, TaskOK, Typed, IsTask
  <2>2. SEND \in {SEND, RECV} /\ RECV \in {SEND, RECV} OBVIOUS
  <2>3. /\ uid' = uid /\ ppid' = ppid /\ ops' = [ops EXCEPT ![SYSTEM] = {SEND, RECV}]
        /\ sig_mask' = [sig_mask EXCEPT ![SYSTEM] = @ \ {"alrm"}]
    BY <2>1, <2>2, <1>1, <1>4 DEF Wait
  <2>4. \A p \in Pid : sig_mask'[p] = sig_mask[p] BY <2>1, <2>3, <1>s DEF Typed
  <2>5. CASE Accepts(VFS, SYSTEM)
    <3>1. /\ state' = [[state EXCEPT ![VFS] = "ready"] EXCEPT ![SYSTEM] = "blocked"]
          /\ m_from' = [[m_from EXCEPT ![VFS] = SYSTEM] EXCEPT ![SYSTEM] = VFS]
          /\ m_to' = [m_to EXCEPT ![SYSTEM] = NONE]
          /\ d0' = [d0 EXCEPT ![VFS] = SYSTEM]
          /\ msg' = [msg EXCEPT ![SYSTEM] = m, ![VFS] = m]
      BY <2>1, <2>2, <2>5, <1>1, <1>4 DEF Wait
    <3>. QED BY <2>3, <2>4, <2>5, <3>1, Who, <1>s DEF Typed
  <2>6. CASE ~Accepts(VFS, SYSTEM)
    <3>1. /\ state' = [state EXCEPT ![SYSTEM] = "blocked"]
          /\ m_from' = [m_from EXCEPT ![SYSTEM] = VFS]
          /\ m_to' = [m_to EXCEPT ![SYSTEM] = VFS]
          /\ d0' = d0
          /\ msg' = [msg EXCEPT ![SYSTEM] = m]
      BY <2>1, <2>2, <2>6, <1>1, <1>4 DEF Wait
    <3>. QED BY <2>3, <2>4, <2>6, <3>1, Who, <1>s DEF Typed
  <2>. QED BY <2>5, <2>6
<1>7. /\ \A p : User(p)' = User(p) /\ IsTask(p)' = IsTask(p)
      /\ \A p : User(p) => Untouched(p)
      /\ ~Accepts(VFS, SYSTEM) => Untouched(VFS)
      /\ \A p : Pending(p) => Pending(p)'
  <2>1. \A p : User(p)' = User(p) /\ IsTask(p)' = IsTask(p)
    BY <1>1, <1>5, <1>6, Who DEF User, IsTask
  <2>2. \A p : User(p) => Untouched(p)
    BY <1>1, <1>6, <1>s, UserNoTask DEF Untouched
  <2>3. ~Accepts(VFS, SYSTEM) => Untouched(VFS) BY <1>1, <1>6, Who DEF Untouched
  <2>4. \A p : Pending(p) => Pending(p)'
    BY <2>1, <2>2, <1>1 DEF Pending, Untouched
  <2>. QED BY <2>1, <2>2, <2>3, <2>4
<1>8. /\ VfsServed' = IF Accepts(VFS, SYSTEM) THEN {SYSTEM} ELSE VfsServed
      /\ Accepts(VFS, SYSTEM) => VfsServed = {}
      /\ SysServed' = SysServed
      /\ VfsServed # {SYSTEM}
  <2>1. VfsServed # {SYSTEM}
    BY <1>1, <1>s, UserNoTask, Who DEF VfsServed, VfsOK, Pending
  <2>2. SysServed' = SysServed BY <1>1, <1>2 DEF SysServed
  <2>. QED BY <2>1, <2>2, <1>1, <1>5, <1>6, Who DEF VfsServed
<1>9. ThreadsOK' BY <1>s, <1>1 DEF ThreadsOK
<1>10. TasksOK'
  <2>1. state'[VFS] # "stopped" /\ (state'[VFS] = "none" <=> state[VFS] = "none")
    BY <1>s, <1>1, <1>5, <1>6, Who DEF TasksOK
  <2>2. ASSUME NEW p \in Pid PROVE TaskOK(p)'
    <3>1. TaskOK(p) BY <1>s DEF TasksOK
    <3>2. state'[p] # "none" => state[p] # "none" BY <1>1, <1>5, <1>6
    <3>3. ops'[p] # {} => p \in {SYSTEM, VFS} BY <3>1, <1>6 DEF TaskOK
    <3>. QED BY <3>1, <3>2, <3>3, <1>1, <1>2, <1>6, <1>7 DEF TaskOK
  <2>. QED BY <2>1, <2>2, <1>s, <1>1, <1>2, <1>7 DEF TasksOK
<1>11. VfsOK'
  <2>1. CASE Accepts(VFS, SYSTEM)
    <3>1. state'[VFS] = "ready" /\ d0'[VFS] = SYSTEM /\ m_from'[VFS] = SYSTEM /\ ops'[VFS] = {RECV}
          /\ state'[SYSTEM] = "blocked" /\ m_to'[SYSTEM] = NONE
      BY <2>1, <1>5, <1>6, Who
    <3>. QED BY <2>1, <3>1, <1>1, <1>2, <1>5 DEF VfsOK
  <2>2. CASE ~Accepts(VFS, SYSTEM)
    BY <2>2, <1>s, <1>1, <1>7, <1>8, VfsFrame
  <2>. QED BY <2>1, <2>2
<1>12. SysOK'
  <2>1. SysIdleOK' /\ SysStartOK' /\ SysGotOK' /\ SysChildOK'
    BY <1>2 DEF SysIdleOK, SysStartOK, SysGotOK, SysChildOK
  <2>2. SysWorkOK' BY <1>s, <1>1, <1>2, <1>6, <1>7 DEF SysOK, SysWorkOK
  <2>3. SysCallOK'
    <3>1. /\ state'[SYSTEM] = "blocked" /\ m_from'[SYSTEM] = VFS /\ ops'[SYSTEM] = {SEND, RECV}
          /\ msg'[SYSTEM] = Request("vfs", sys'.child)
          /\ m_to'[SYSTEM] = VFS \/ (m_to'[SYSTEM] = NONE /\ VfsServed' = {SYSTEM})
      BY <1>2, <1>6, <1>8, Who DEF m
    <3>. QED BY <3>1 DEF SysCallOK
  <2>. QED BY <2>1, <2>2, <2>3 DEF SysOK
<1>13. UsersOK'
  <2> SUFFICES ASSUME NEW p \in Pid, User(p) PROVE UserOK(p)' BY <1>7 DEF UsersOK
  <2>1. (p \in VfsServed => p \in VfsServed') /\ (p \in SysServed => p \in SysServed')
    BY <1>8
  <2>. QED BY <2>1, <1>s, <1>1, <1>7, UserFrame DEF UsersOK
<1>14. FamilyOK'
  <2>1. /\ sys.req = "fork" => sys'.pc = "answer"
        /\ sys'.pc = "answer" => user[sys'.from].pc # "kill"
    BY <1>1, <1>2, <1>s DEF SysOK, SysWorkOK
  <2>. QED BY <2>1, <1>s, <1>1, <1>2, <1>6, <1>7, FamilyFrame DEF Untouched
<1>. QED BY <1>9, <1>10, <1>11, <1>12, <1>13, <1>14 DEF SInv

\* It answers: the caller is waiting for that, and nobody else.
LEMMA SysSends ==
  ASSUME SInv, NEW c \in Pid, NEW m \in Msg, Pending(c), m_from[c] = SYSTEM, c # SYSTEM,
         Send(SYSTEM, c, m)
  PROVE  /\ SendNow(SYSTEM, c, m)
         /\ uid' = uid /\ ppid' = ppid /\ ops' = ops /\ sig_mask' = sig_mask
         /\ \A p \in Pid : state'[p] = IF p = c THEN "ready" ELSE state[p]
         /\ \A p \in Pid : m_from'[p] = IF p = c THEN SYSTEM
                                        ELSE IF p = SYSTEM THEN NONE ELSE m_from[p]
         /\ \A p \in Pid : m_to'[p] = IF p = SYSTEM THEN NONE ELSE m_to[p]
         /\ \A p \in Pid : d0'[p] = IF p = c THEN SYSTEM
                                    ELSE IF p = SYSTEM THEN c ELSE d0[p]
         /\ \A p \in Pid : msg'[p] = IF p \in {c, SYSTEM} THEN m ELSE msg[p]
<1>1. Accepts(c, SYSTEM) BY DEF Pending, Accepts
<1>2. SendNow(SYSTEM, c, m)
  BY <1>1 DEF Send, SendLocked, Wait, SEND
<1>. QED BY <1>1, <1>2, Who, Types DEF SendNow, Typed, Accepts

\* What the answer changes, whoever is answered and whatever is left to do.
LEMMA AnsweredKeeps ==
  ASSUME SInv, NEW c \in Pid, Pending(c), Running(SYSTEM), c # VFS, c # SYSTEM, c # IDLE,
         VfsServed # {SYSTEM}, c \notin VfsServed,
         \A p \in Pid : state'[p] = IF p = c THEN "ready" ELSE state[p],
         \A p \in Pid : m_from'[p] = IF p = c THEN SYSTEM
                                     ELSE IF p = SYSTEM THEN NONE ELSE m_from[p],
         \A p \in Pid : m_to'[p] = IF p = SYSTEM THEN NONE ELSE m_to[p],
         \A p \in Pid : d0'[p] = IF p = c THEN SYSTEM ELSE IF p = SYSTEM THEN c ELSE d0[p],
         NEW m, \A p \in Pid : msg'[p] = IF p \in {c, SYSTEM} THEN m ELSE msg[p],
         uid' = uid, ppid' = ppid, ops' = ops, sig_mask' = sig_mask, vfs' = vfs, user' = user,
         sys.pc \notin {"boot", "init"}, sys'.pc \notin {"boot", "init"}
  PROVE  /\ \A p : User(p)' = User(p) /\ IsTask(p)' = IsTask(p)
         /\ \A p \in Pid : p # c /\ p # SYSTEM => Untouched(p)
         /\ \A p : Pending(p) /\ p # c => Pending(p)'
         /\ VfsServed' = VfsServed
         /\ TasksOK' /\ VfsOK'
<1>s. ThreadsOK /\ TasksOK /\ VfsOK /\ SysOK /\ Typed
  BY Types DEF SInv
<1>1. state[SYSTEM] = "ready" /\ ops[SYSTEM] = {} BY DEF Running
<1>2. User(c) /\ state[c] = "blocked" BY DEF Pending
<1>3. \A p : User(p)' = User(p) /\ IsTask(p)' = IsTask(p)
  BY <1>2, Who DEF User, IsTask
<1>4. \A p \in Pid : p # c /\ p # SYSTEM => Untouched(p)
  BY DEF Untouched
<1>5. \A p : Pending(p) /\ p # c => Pending(p)'
  BY <1>3, <1>4, <1>s, UserNoTask DEF Pending, Untouched
<1>6. VfsServed' = VfsServed BY <1>4, Who DEF VfsServed, Untouched
<1>7. TasksOK'
  <2>1. ASSUME NEW p \in Pid PROVE TaskOK(p)'
    <3>1. TaskOK(p) BY <1>s DEF TasksOK
    <3>2. state'[p] # "none" => state[p] # "none" BY <1>2
    <3>. QED BY <3>1, <3>2, <1>3 DEF TaskOK
  <2>. QED BY <2>1, <1>s, <1>3, <1>4, Who DEF TasksOK, Untouched
<1>8. VfsOK'
  <2>1. Untouched(VFS) BY <1>4, Who
  <2>. QED BY <2>1, <1>s, <1>5, VfsFrame
<1>. QED BY <1>3, <1>4, <1>5, <1>6, <1>7, <1>8

\* The caller of fork, exec or kill is answered.
LEMMA SysAnswerKeeps ==
  ASSUME SInv, IInv', SysAnswer
  PROVE  SInv'
<1>s. /\ ThreadsOK /\ TasksOK /\ VfsOK /\ SysOK /\ UsersOK /\ FamilyOK /\ Typed
  BY Types DEF SInv
<1> DEFINE c == sys.from
           call == sys.req
<1>1. /\ Running(SYSTEM) /\ sys.pc = "answer" /\ vfs' = vfs /\ user' = user
      /\ sys' = [sys EXCEPT !.pc = IF sys.req = "fork" /\ sys.child # NONE
                                   THEN "child" ELSE "recv"]
      /\ state[SYSTEM] = "ready" /\ ops[SYSTEM] = {}
  BY DEF SysAnswer, SysAt, SysGo, Running
<1>2. /\ Pending(c) /\ call = user[c].pc /\ call \in {"fork", "exec", "kill"}
      /\ call = "fork" /\ sys.child # NONE =>
           Pending(sys.child) /\ user[sys.child].pc = "fork" /\ ppid[sys.child] = c
  BY <1>1, <1>s DEF SysOK, SysWorkOK
<1>3. /\ c \in Pid /\ User(c) /\ c \notin {SYSTEM, VFS, IDLE} /\ state[c] = "blocked"
      /\ user[c].in /\ m_from[c] = SYSTEM /\ m_to[c] = NONE
  BY <1>2, <1>s, UserNoTask, Who DEF Pending, Callee
<1>4. PICK v \in Values(call) :
      /\ Send(SYSTEM, c, Answer(call, v))
      /\ call = "fork" => v = sys.child
  <2>1. PICK v \in (CASE sys.req = "fork" -> {sys.child}
                      [] sys.req = "exec" -> IF sys.child = NONE THEN {NONE} ELSE {0, NONE}
                      [] sys.req = "kill" -> {0}) :
           Send(SYSTEM, c, Answer(call, v))
    BY DEF SysAnswer
  <2>2. CASE call = "fork"
    <3>1. v = sys.child BY <2>1, <2>2
    <3>. QED BY <2>1, <2>2, <3>1, <1>s DEF ThreadsOK, Values
  <2>3. CASE call = "exec"
    <3>1. v \in IF sys.child = NONE THEN {NONE} ELSE {0, NONE} BY <2>1, <2>3, Zenon
    <3>. QED BY <2>1, <2>3, <3>1 DEF Values
  <2>4. CASE call = "kill"
    <3>1. v = 0 BY <2>1, <2>4, Zenon
    <3>. QED BY <2>1, <2>4, <3>1 DEF Values
  <2>. QED BY <1>2, <2>2, <2>3, <2>4
<1> DEFINE m == Answer(call, v)
<1>5. m \in Msg
  <2>1. v \in Pid \cup {NONE} BY Who DEF Values
  <2>. QED BY <2>1, <1>2, MessageAssumption DEF Message, Answer, Requests
<1>6. VfsServed # {SYSTEM} /\ c \notin VfsServed
  BY <1>1, <1>2, <1>3, <1>s, UserNoTask, Who DEF VfsServed, VfsOK, Pending
<1> HIDE DEF m
<1>7. /\ uid' = uid /\ ppid' = ppid /\ ops' = ops /\ sig_mask' = sig_mask
      /\ \A p \in Pid : state'[p] = IF p = c THEN "ready" ELSE state[p]
      /\ \A p \in Pid : m_from'[p] = IF p = c THEN SYSTEM
                                     ELSE IF p = SYSTEM THEN NONE ELSE m_from[p]
      /\ \A p \in Pid : m_to'[p] = IF p = SYSTEM THEN NONE ELSE m_to[p]
      /\ \A p \in Pid : d0'[p] = IF p = c THEN SYSTEM
                                 ELSE IF p = SYSTEM THEN c ELSE d0[p]
      /\ \A p \in Pid : msg'[p] = IF p \in {c, SYSTEM} THEN m ELSE msg[p]
  BY <1>2, <1>3, <1>4, <1>5, SysSends DEF m
<1>8. /\ sys'.pc = IF call = "fork" /\ sys.child # NONE THEN "child" ELSE "recv"
      /\ sys'.child = sys.child /\ sys'.pc \in {"child", "recv"}
  BY <1>1, <1>s DEF ThreadsOK
<1>9. /\ \A p : User(p)' = User(p) /\ IsTask(p)' = IsTask(p)
      /\ \A p \in Pid : p # c /\ p # SYSTEM => Untouched(p)
      /\ \A p : Pending(p) /\ p # c => Pending(p)'
      /\ VfsServed' = VfsServed
      /\ TasksOK' /\ VfsOK'
  BY <1>1, <1>2, <1>3, <1>6, <1>7, <1>8, AnsweredKeeps
<1>10. /\ SysServed \subseteq {c, sys.child}
       /\ SysServed' = IF call = "fork" /\ sys.child # NONE THEN {sys.child} ELSE {}
       /\ sys.child \in SysServed /\ sys.child # c /\ sys.child \in Pid => call = "fork"
  BY <1>1, <1>8 DEF SysServed
<1>11. ThreadsOK' BY <1>s, <1>1 DEF ThreadsOK
<1>12. sys.child # NONE /\ call = "fork" =>
         sys.child # c /\ sys.child # SYSTEM /\ sys.child # 0 /\ User(sys.child)
  <2>1. sys.child # NONE /\ call = "fork" => sys.child # c
    BY <1>1, <1>s DEF SysOK, SysWorkOK
  <2>. QED BY <2>1, <1>2, <1>s, UserNoTask, Who DEF Pending
<1>13. SysOK'
  <2>1. SysIdleOK' BY <1>1, <1>3, <1>7, Who DEF SysIdleOK
  <2>2. SysStartOK' /\ SysGotOK' /\ SysWorkOK' /\ SysCallOK'
    BY <1>8 DEF SysStartOK, SysGotOK, SysWorkOK, SysCallOK
  <2>3. SysChildOK' BY <1>2, <1>3, <1>7, <1>8, <1>9, <1>12, <1>1 DEF SysChildOK
  <2>. QED BY <2>1, <2>2, <2>3 DEF SysOK
<1>14. UsersOK'
  <2> SUFFICES ASSUME NEW p \in Pid, User(p) PROVE UserOK(p)' BY <1>9 DEF UsersOK
  <2>0. UserOK(p) /\ p # SYSTEM BY <1>s, UserNoTask DEF UsersOK
  <2>1. CASE p = c
    <3>1. /\ state'[p] = "ready" /\ user'[p].pc = call /\ d0'[p] = SYSTEM
          /\ msg'[p] = Answer(call, v)
      BY <2>1, <1>1, <1>2, <1>7 DEF m
    <3>. QED BY <3>1, <1>2 DEF UserOK, Callee
  <2>2. CASE p # c
    <3>1. p \in SysServed => p \in SysServed' BY <2>2, <1>10, Who
    <3>. QED BY <2>0, <2>2, <3>1, <1>1, <1>9, UserFrame
  <2>. QED BY <2>1, <2>2
<1>15. FamilyOK'
  <2> SUFFICES ASSUME NEW p \in Pid, User(p)
               PROVE  ParentOK(p)' /\ ForkedOK(p)' /\ WaitOK(p)' /\ KillOK(p)' /\ ExitOK(p)'
    BY <1>9 DEF FamilyOK
  <2>0. ParentOK(p) /\ ForkedOK(p) /\ WaitOK(p) /\ KillOK(p) /\ ExitOK(p)
    BY <1>s DEF FamilyOK
  <2>1. \A x : User(x) => /\ x \in Pid /\ (x # c => state'[x] = state[x] /\ msg'[x] = msg[x])
    BY <1>9, <1>s, UserNoTask DEF Untouched
  <2>2. state'[c] = "ready" /\ msg'[c] = m /\ m.val = v
    <3>1. m.val = v BY DEF m, Answer
    <3>. QED BY <3>1, <1>3, <1>7
  <2>3. ParentOK(p)'
    <3>1. ASSUME NEW x, User(x), KidOf(x, p) PROVE KidOf(x, p)'
      BY <3>1, <2>1, <2>2, <1>1, <1>3, <1>4 DEF KidOf
    <3>. QED BY <3>1, <2>0, <1>7, <1>9 DEF ParentOK
  <2>4. ForkedOK(p)'
    <3>1. CASE p = c
      BY <3>1, <2>2, <1>1, <1>2, <1>4, <1>7, <1>9, <1>12, Who DEF ForkedOK
    <3>2. CASE p # c
      BY <3>2, <2>0, <2>1, <1>1, <1>7, <1>9 DEF ForkedOK
    <3>. QED BY <3>1, <3>2
  <2>5. WaitOK(p)' BY <2>0, <2>1, <2>2, <1>1, <1>2, <1>3, <1>7, <1>9 DEF WaitOK
  <2>6. KillOK(p)' BY <2>0, <2>1, <2>2, <1>1, <1>2, <1>3, <1>7, <1>9 DEF KillOK, Killed
  <2>7. ExitOK(p)'
    <3>1. ASSUME InWait(ppid[p]) PROVE InWait(ppid[p])'
      <4>1. ppid[p] # SYSTEM BY <3>1, <1>1 DEF InWait
      <4>2. User(ppid[p]) BY <4>1, <2>0 DEF ParentOK
      <4>3. ppid[p] # c BY <3>1, <1>2 DEF InWait
      <4>. QED BY <4>2, <4>3, <3>1, <2>1, <1>1, <1>7 DEF InWait
    <3>. QED BY <3>1, <2>0, <2>1, <2>2, <1>1, <1>2, <1>7 DEF ExitOK
  <2>. QED BY <2>3, <2>4, <2>5, <2>6, <2>7
<1>. QED BY <1>9, <1>11, <1>13, <1>14, <1>15 DEF SInv

\* The child of a fork gets its answer.
LEMMA SysAnswerChildKeeps ==
  ASSUME SInv, IInv', SysAnswerChild
  PROVE  SInv'
<1>s. /\ ThreadsOK /\ TasksOK /\ VfsOK /\ SysOK /\ UsersOK /\ FamilyOK /\ Typed
  BY Types DEF SInv
<1> DEFINE c == sys.child
           m == Answer("fork", 0)
<1>1. /\ Running(SYSTEM) /\ sys.pc = "child" /\ vfs' = vfs /\ user' = user
      /\ sys' = [sys EXCEPT !.pc = "recv"] /\ Send(SYSTEM, c, m)
      /\ state[SYSTEM] = "ready" /\ ops[SYSTEM] = {}
  BY DEF SysAnswerChild, SysAt, SysGo, Running
<1>2. Pending(c) /\ user[c].pc = "fork" /\ ppid[c] # SYSTEM
  BY <1>1, <1>s DEF SysOK, SysChildOK
<1>3. /\ c \in Pid /\ User(c) /\ c \notin {SYSTEM, VFS, IDLE} /\ state[c] = "blocked"
      /\ user[c].in /\ m_from[c] = SYSTEM /\ m_to[c] = NONE
  BY <1>2, <1>s, UserNoTask, Who DEF Pending, Callee
<1>4. m \in Msg
  BY Who, MessageAssumption DEF Message, Answer, Requests
<1>5. VfsServed # {SYSTEM} /\ c \notin VfsServed
  BY <1>1, <1>2, <1>3, <1>s, UserNoTask, Who DEF VfsServed, VfsOK, Pending
<1> HIDE DEF m
<1>6. /\ uid' = uid /\ ppid' = ppid /\ ops' = ops /\ sig_mask' = sig_mask
      /\ \A p \in Pid : state'[p] = IF p = c THEN "ready" ELSE state[p]
      /\ \A p \in Pid : m_from'[p] = IF p = c THEN SYSTEM
                                     ELSE IF p = SYSTEM THEN NONE ELSE m_from[p]
      /\ \A p \in Pid : m_to'[p] = IF p = SYSTEM THEN NONE ELSE m_to[p]
      /\ \A p \in Pid : d0'[p] = IF p = c THEN SYSTEM
                                 ELSE IF p = SYSTEM THEN c ELSE d0[p]
      /\ \A p \in Pid : msg'[p] = IF p \in {c, SYSTEM} THEN m ELSE msg[p]
  BY <1>1, <1>2, <1>3, <1>4, SysSends
<1>7. sys'.pc = "recv" BY <1>1, <1>s DEF ThreadsOK
<1>8. /\ \A p : User(p)' = User(p) /\ IsTask(p)' = IsTask(p)
      /\ \A p \in Pid : p # c /\ p # SYSTEM => Untouched(p)
      /\ \A p : Pending(p) /\ p # c => Pending(p)'
      /\ VfsServed' = VfsServed
      /\ TasksOK' /\ VfsOK'
  BY <1>1, <1>2, <1>3, <1>5, <1>6, <1>7, AnsweredKeeps
<1>9. SysServed = {c} /\ SysServed' = {} BY <1>1, <1>7 DEF SysServed
<1>10. ThreadsOK' BY <1>s, <1>1 DEF ThreadsOK
<1>11. SysOK'
  <2>1. SysIdleOK' BY <1>1, <1>3, <1>6, Who DEF SysIdleOK
  <2>2. SysStartOK' /\ SysGotOK' /\ SysWorkOK' /\ SysCallOK' /\ SysChildOK'
    BY <1>7 DEF SysStartOK, SysGotOK, SysWorkOK, SysCallOK, SysChildOK
  <2>. QED BY <2>1, <2>2 DEF SysOK
<1>12. state'[c] = "ready" /\ d0'[c] = SYSTEM /\ msg'[c] = m /\ m.val = 0
  <2>1. m.val = 0 BY DEF m, Answer
  <2>. QED BY <2>1, <1>3, <1>6
<1>13. UsersOK'
  <2> SUFFICES ASSUME NEW p \in Pid, User(p) PROVE UserOK(p)' BY <1>8 DEF UsersOK
  <2>0. UserOK(p) /\ p # SYSTEM BY <1>s, UserNoTask DEF UsersOK
  <2>1. CASE p = c
    <3>1. /\ state'[p] = "ready" /\ user'[p].pc = "fork" /\ d0'[p] = SYSTEM
          /\ msg'[p] = Answer("fork", 0) /\ 0 \in Values("fork")
      BY <2>1, <1>1, <1>2, <1>12, Who DEF m, Values
    <3>. QED BY <3>1 DEF UserOK, Callee
  <2>2. CASE p # c
    BY <2>0, <2>2, <1>1, <1>8, <1>9, UserFrame
  <2>. QED BY <2>1, <2>2
<1>14. FamilyOK'
  <2> SUFFICES ASSUME NEW p \in Pid, User(p)
               PROVE  ParentOK(p)' /\ ForkedOK(p)' /\ WaitOK(p)' /\ KillOK(p)' /\ ExitOK(p)'
    BY <1>8 DEF FamilyOK
  <2>0. ParentOK(p) /\ ForkedOK(p) /\ WaitOK(p) /\ KillOK(p) /\ ExitOK(p) /\ p # SYSTEM
    BY <1>s, UserNoTask DEF FamilyOK
  <2>1. \A x : User(x) => /\ x \in Pid /\ (x # c => state'[x] = state[x] /\ msg'[x] = msg[x])
    BY <1>8, <1>s, UserNoTask DEF Untouched
  <2>3. ParentOK(p)'
    <3>1. ASSUME NEW x, User(x), KidOf(x, p) PROVE KidOf(x, p)'
      BY <3>1, <2>1, <1>1, <1>2, <1>3 DEF KidOf
    <3>. QED BY <3>1, <2>0, <1>6, <1>8 DEF ParentOK
  <2>4. ForkedOK(p)'
    <3>1. CASE p = c BY <3>1, <1>2, <1>6, <1>12 DEF ForkedOK
    <3>2. CASE p # c
      BY <3>2, <2>0, <2>1, <1>1, <1>6, <1>8 DEF ForkedOK
    <3>. QED BY <3>1, <3>2
  <2>5. WaitOK(p)' BY <2>0, <2>1, <1>1, <1>2, <1>3, <1>6, <1>8 DEF WaitOK
  <2>6. KillOK(p)' BY <2>0, <2>1, <1>1, <1>2, <1>3, <1>6, <1>8 DEF KillOK, Killed
  <2>7. ExitOK(p)'
    <3>1. ASSUME InWait(ppid[p]) PROVE InWait(ppid[p])'
      <4>1. ppid[p] # SYSTEM BY <3>1, <1>1 DEF InWait
      <4>2. User(ppid[p]) BY <4>1, <2>0 DEF ParentOK
      <4>3. ppid[p] # c BY <3>1, <1>2 DEF InWait
      <4>. QED BY <4>2, <4>3, <3>1, <2>1, <1>1, <1>6 DEF InWait
    <3>. QED BY <3>1, <2>0, <2>1, <1>1, <1>2, <1>6 DEF ExitOK
  <2>. QED BY <2>3, <2>4, <2>5, <2>6, <2>7
<1>. QED BY <1>8, <1>10, <1>11, <1>13, <1>14 DEF SInv

\* wait: the caller is left without an answer.
LEMMA SysWaitKeeps ==
  ASSUME SInv, IInv', SysWait
  PROVE  SInv'
<1>s. /\ ThreadsOK /\ TasksOK /\ VfsOK /\ SysOK /\ UsersOK /\ FamilyOK /\ Typed
  BY Types DEF SInv
<1> DEFINE c == d0[SYSTEM]
<1>1. SysGot("wait") BY DEF SysWait
<1>2. /\ c \in Pid /\ Pending(c) /\ User(c) /\ user[c].pc = "wait" /\ state[c] = "blocked"
      /\ c \notin {SYSTEM, VFS, IDLE} /\ user[c].in
      /\ state[SYSTEM] = "ready" /\ ops[SYSTEM] = {} /\ sys.pc = "got"
      /\ SysServed = {c} /\ VfsServed # {SYSTEM} /\ SYSTEM \in Pid /\ c \notin VfsServed
  BY <1>1, Got, Who
<1>3. /\ state' = state /\ d0' = d0 /\ msg' = msg /\ ops' = ops /\ sig_mask' = sig_mask
      /\ uid' = uid /\ ppid' = ppid /\ vfs' = vfs /\ user' = user
      /\ \A p \in Pid : m_from'[p] = IF p = c THEN NONE ELSE m_from[p]
      /\ \A p \in Pid : m_to'[p] = IF p = c THEN NONE ELSE m_to[p]
      /\ sys' = [sys EXCEPT !.pc = "recv"] /\ sys'.pc = "recv"
  BY <1>2, <1>s DEF SysWait, WaitChild, SysGo, Typed, ThreadsOK
<1>4. /\ \A p : User(p)' = User(p) /\ IsTask(p)' = IsTask(p)
      /\ \A p \in Pid : p # c => Untouched(p)
      /\ \A p : Pending(p) /\ p # c => Pending(p)'
      /\ VfsServed' = VfsServed /\ SysServed' = {}
  <2>1. \A p : User(p)' = User(p) /\ IsTask(p)' = IsTask(p) BY <1>3 DEF User, IsTask
  <2>2. \A p \in Pid : p # c => Untouched(p) BY <1>3 DEF Untouched
  <2>3. \A p : Pending(p) /\ p # c => Pending(p)'
    BY <2>1, <2>2, <1>3 DEF Pending, Untouched, User
  <2>. QED BY <2>1, <2>2, <2>3, <1>3 DEF VfsServed, SysServed
<1>5. ThreadsOK' BY <1>s, <1>3 DEF ThreadsOK
<1>6. TasksOK' BY <1>s, <1>2, <1>3, <1>4 DEF TasksOK, TaskOK
<1>7. VfsOK' BY <1>s, <1>2, <1>3, <1>4, Who, VfsFrame DEF Untouched
<1>8. SysOK'
  BY <1>2, <1>3 DEF SysOK, SysIdleOK, SysStartOK, SysGotOK, SysWorkOK, SysCallOK, SysChildOK
<1>9. UsersOK'
  <2> SUFFICES ASSUME NEW p \in Pid, User(p) PROVE UserOK(p)' BY <1>4 DEF UsersOK
  <2>0. UserOK(p) BY <1>s DEF UsersOK
  <2>1. CASE p = c BY <2>1, <1>2, <1>3 DEF UserOK
  <2>2. CASE p # c BY <2>0, <2>2, <1>2, <1>4, UserFrame
  <2>. QED BY <2>1, <2>2
<1>10. FamilyOK' BY <1>s, <1>2, <1>3, <1>4, FamilyFrame
<1>. QED BY <1>5, <1>6, <1>7, <1>8, <1>9, <1>10 DEF SInv

\* exit: the caller stops, and its parent, which waits for that, is told.
LEMMA SysExitKeeps ==
  ASSUME SInv, IInv', SysExit
  PROVE  SInv'
<1>s. /\ ThreadsOK /\ TasksOK /\ VfsOK /\ SysOK /\ UsersOK /\ FamilyOK /\ Typed
  BY Types DEF SInv
<1> DEFINE c == d0[SYSTEM]
           q == ppid[c]
<1>1. SysGot("exit") BY DEF SysExit
<1>2. /\ c \in Pid /\ Pending(c) /\ User(c) /\ user[c].pc = "exit" /\ state[c] = "blocked"
      /\ c \notin {SYSTEM, VFS, IDLE} /\ user[c].in
      /\ state[SYSTEM] = "ready" /\ ops[SYSTEM] = {} /\ sys.pc = "got"
      /\ SysServed = {c} /\ VfsServed # {SYSTEM} /\ SYSTEM \in Pid /\ c \notin VfsServed
  BY <1>1, Got, Who
<1>3. InWait(q) BY <1>2, <1>s DEF FamilyOK, ExitOK
<1>4. /\ User(q) /\ q \in Pid /\ q \notin {SYSTEM, VFS, IDLE} /\ q # c
      /\ state[q] = "blocked" /\ user[q].in /\ user[q].pc = "wait" /\ user[q].kid = c
  <2>1. q # SYSTEM BY <1>2, <1>3 DEF InWait
  <2>2. User(q) /\ KidOf(q, c) BY <2>1, <1>2, <1>s DEF FamilyOK, ParentOK
  <2>3. user[q].kid = c BY <2>2, <1>3 DEF KidOf, InWait
  <2>. QED BY <2>2, <2>3, <1>2, <1>3, <1>s, UserNoTask DEF InWait
<1>5. q \notin VfsServed
  BY <1>4, <1>2, <1>s, Who DEF VfsServed, VfsOK
<1> HIDE DEF q
<1>6. /\ sig_mask' = sig_mask /\ msg' = msg /\ ops' = ops
      /\ uid' = uid /\ ppid' = ppid /\ vfs' = vfs /\ user' = user
      /\ \A p \in Pid : state'[p] = IF p = c THEN "stopped" ELSE IF p = q THEN "ready" ELSE state[p]
      /\ \A p \in Pid : m_from'[p] = IF p = q THEN NONE ELSE m_from[p]
      /\ \A p \in Pid : m_to'[p] = IF p = q THEN NONE ELSE m_to[p]
      /\ \A p \in Pid : d0'[p] = IF p = q THEN EABORT ELSE d0[p]
      /\ sys' = [sys EXCEPT !.pc = "recv"] /\ sys'.pc = "recv"
  <2>1. ProcSig(IF state[c] = "ready" THEN RemoveReady(links, c) ELSE links,
                [state EXCEPT ![c] = "stopped"], q, "child")
        /\ UNCHANGED <<cur, irq, pick, ppid, uid, ops, msg>>
    BY DEF SysExit, Exit, ProcExit, q
  <2> DEFINE st == [state EXCEPT ![c] = "stopped"]
  <2>2. st[q] = "blocked" /\ \A p \in Pid : st[p] = IF p = c THEN "stopped" ELSE state[p]
    BY <1>4, <1>s DEF Typed
  <2>3. DOMAIN st = Pid BY <1>s DEF Typed
  <2> HIDE DEF st
  <2>4. /\ state' = [st EXCEPT ![q] = "ready"] /\ m_from' = [m_from EXCEPT ![q] = NONE]
        /\ m_to' = [m_to EXCEPT ![q] = NONE] /\ d0' = [d0 EXCEPT ![q] = EABORT]
        /\ sig_mask' = sig_mask
    BY <2>1, <2>2 DEF ProcSig, st
  <2>5. \A p \in Pid : state'[p] = IF p = c THEN "stopped" ELSE IF p = q THEN "ready" ELSE state[p]
    BY <2>2, <2>3, <2>4, <1>4
  <2>6. sys'.pc = "recv" BY <1>s DEF SysExit, SysGo, ThreadsOK
  <2>. QED BY <2>1, <2>4, <2>5, <2>6, <1>s DEF Typed, SysExit, SysGo
<1>7. /\ \A p : User(p)' = User(p) /\ IsTask(p)' = IsTask(p)
      /\ \A p \in Pid : p # c /\ p # q => Untouched(p)
      /\ \A p : Pending(p) /\ p # c => Pending(p)'
      /\ VfsServed' = VfsServed /\ SysServed' = {}
  <2>1. \A p : User(p)' = User(p) /\ IsTask(p)' = IsTask(p)
    BY <1>2, <1>4, <1>6 DEF User, IsTask
  <2>2. \A p \in Pid : p # c /\ p # q => Untouched(p) BY <1>6 DEF Untouched
  <2>3. \A p : Pending(p) => p # q
    <3>1. m_from[q] # SYSTEM \/ m_to[q] # NONE
      BY <1>4, <1>2, <1>s, Who DEF UsersOK, UserOK
    <3>. QED BY <3>1, <1>4 DEF Pending, Callee
  <2>4. \A p : Pending(p) /\ p # c => Pending(p)'
    BY <2>1, <2>2, <2>3, <1>6 DEF Pending, Untouched, User
  <2>5. VfsServed' = VfsServed BY <2>2, <1>2, <1>4, <1>6, Who DEF VfsServed, Untouched
  <2>. QED BY <2>1, <2>2, <2>4, <2>5, <1>6 DEF SysServed
<1>8. ThreadsOK' BY <1>s, <1>6 DEF ThreadsOK
<1>9. TasksOK'
  <2>1. ASSUME NEW p \in Pid PROVE TaskOK(p)'
    <3>1. TaskOK(p) BY <1>s DEF TasksOK
    <3>2. state'[p] # "none" => state[p] # "none" BY <1>2, <1>4, <1>6
    <3>. QED BY <3>1, <3>2, <1>6, <1>7 DEF TaskOK
  <2>. QED BY <2>1, <1>s, <1>2, <1>4, <1>6, <1>7, Who DEF TasksOK
<1>10. VfsOK'
  BY <1>s, <1>2, <1>4, <1>6, <1>7, Who, VfsFrame DEF Untouched
<1>11. SysOK'
  BY <1>2, <1>4, <1>6
     DEF SysOK, SysIdleOK, SysStartOK, SysGotOK, SysWorkOK, SysCallOK, SysChildOK
<1>12. UsersOK'
  <2> SUFFICES ASSUME NEW p \in Pid, User(p) PROVE UserOK(p)' BY <1>7 DEF UsersOK
  <2>0. UserOK(p) BY <1>s DEF UsersOK
  <2>1. CASE p = c
    <3>1. state'[p] = "stopped" /\ user'[p].in /\ user'[p].pc = "exit" BY <2>1, <1>2, <1>6
    <3>. QED BY <3>1 DEF UserOK
  <2>2. CASE p = q
    <3>1. state'[p] = "ready" /\ user'[p].in /\ user'[p].pc = "wait" /\ d0'[p] = EABORT
      BY <2>2, <1>4, <1>6
    <3>. QED BY <3>1 DEF UserOK
  <2>3. CASE p # c /\ p # q BY <2>0, <2>3, <1>2, <1>7, UserFrame
  <2>. QED BY <2>1, <2>2, <2>3
<1>13. FamilyOK'
  <2> SUFFICES ASSUME NEW p \in Pid, User(p)
               PROVE  ParentOK(p)' /\ ForkedOK(p)' /\ WaitOK(p)' /\ KillOK(p)' /\ ExitOK(p)'
    BY <1>7 DEF FamilyOK
  <2>0. ParentOK(p) /\ ForkedOK(p) /\ WaitOK(p) /\ KillOK(p) /\ ExitOK(p)
    BY <1>s DEF FamilyOK
  <2>1. \A x : User(x) => /\ x \in Pid /\ (x # c /\ x # q => state'[x] = state[x])
    BY <1>6, <1>s, UserNoTask
  <2>2. state'[c] = "stopped" /\ state'[q] = "ready" BY <1>2, <1>4, <1>6
  <2>3. ParentOK(p)'
    <3>1. ASSUME NEW x, User(x), KidOf(x, p) PROVE KidOf(x, p)'
      BY <3>1, <2>1, <1>2, <1>4, <1>6 DEF KidOf
    <3>. QED BY <3>1, <2>0, <1>6, <1>7 DEF ParentOK
  <2>4. ForkedOK(p)' BY <2>0, <2>1, <2>2, <1>4, <1>6, <1>7 DEF ForkedOK
  <2>5. WaitOK(p)' BY <2>0, <2>1, <2>2, <1>4, <1>6, <1>7 DEF WaitOK
  <2>6. KillOK(p)' BY <2>0, <2>1, <2>2, <1>2, <1>4, <1>6, <1>7 DEF KillOK, Killed
  <2>7. ExitOK(p)'
    <3>1. CASE p = c BY <3>1, <2>2 DEF ExitOK
    <3>2. CASE p # c
      <4>1. ASSUME InWait(ppid[p]) PROVE InWait(ppid[p])'
        <5>1. ppid[p] # SYSTEM BY <4>1, <1>2 DEF InWait
        <5>2. User(ppid[p]) /\ KidOf(ppid[p], p) BY <5>1, <2>0 DEF ParentOK
        <5>3. ppid[p] # q BY <3>2, <5>2, <1>4 DEF KidOf
        <5>4. ppid[p] # c BY <4>1, <1>2 DEF InWait
        <5>. QED BY <5>2, <5>3, <5>4, <4>1, <2>1, <1>6 DEF InWait
      <4>2. state'[p] # "stopped" => state[p] # "stopped"
        BY <3>2, <2>1, <1>4
      <4>. QED BY <4>1, <4>2, <2>0, <1>6 DEF ExitOK
    <3>. QED BY <3>1, <3>2
  <2>. QED BY <2>3, <2>4, <2>5, <2>6, <2>7
<1>. QED BY <1>8, <1>9, <1>10, <1>11, <1>12, <1>13 DEF SInv

\* fork: a free slot becomes a copy of the caller, inside the same call.
LEMMA SysForkKeeps ==
  ASSUME SInv, IInv', SysFork
  PROVE  SInv'
<1>s. /\ ThreadsOK /\ TasksOK /\ VfsOK /\ SysOK /\ UsersOK /\ FamilyOK /\ Typed /\ IInv
  BY Types DEF SInv
<1>0. PICK c, k : c = d0[SYSTEM] /\ k = links.free
  OBVIOUS
<1>1. SysGot("fork") /\ k # NULL BY <1>0 DEF SysFork, Fork
<1>2. /\ c \in Pid /\ Pending(c) /\ User(c) /\ user[c].pc = "fork" /\ state[c] = "blocked"
      /\ c \notin {SYSTEM, VFS, IDLE} /\ user[c].in
      /\ m_to[c] = NONE /\ m_from[c] = SYSTEM /\ uid[c] # KERNEL
      /\ state[SYSTEM] = "ready" /\ ops[SYSTEM] = {} /\ sys.pc = "got"
      /\ SysServed = {c} /\ VfsServed # {SYSTEM} /\ SYSTEM \in Pid /\ c \notin VfsServed
  BY <1>0, <1>1, Got, Who
<1>3. k \in Pid /\ state[k] = "none" BY <1>0, <1>1, <1>s, FreeHead DEF Is
<1>4. k # c /\ k \notin {SYSTEM, VFS, IDLE} /\ ~User(k) /\ ops[k] = {}
  BY <1>2, <1>3, <1>s, Who DEF Typed, TasksOK, TaskOK, User
<1>5. /\ ops' = ops /\ vfs' = vfs
      /\ \A p \in Pid : state'[p] = IF p = k THEN "blocked" ELSE state[p]
      /\ \A p \in Pid : sig_mask'[p] = IF p = k THEN sig_mask[c] ELSE sig_mask[p]
      /\ \A p \in Pid : uid'[p] = IF p = k THEN uid[c] ELSE uid[p]
      /\ \A p \in Pid : ppid'[p] = IF p = k THEN c ELSE ppid[p]
      /\ \A p \in Pid : m_from'[p] = IF p = k THEN m_from[c] ELSE m_from[p]
      /\ \A p \in Pid : m_to'[p] = IF p = k THEN m_to[c] ELSE m_to[p]
      /\ \A p \in Pid : d0'[p] = IF p = k THEN d0[c] ELSE d0[p]
      /\ \A p \in Pid : msg'[p] = IF p = k THEN msg[c] ELSE msg[p]
      /\ \A p \in Pid : user'[p] = IF p = k THEN user[c] ELSE user[p]
  <2>1. Fork(c) /\ user' = [user EXCEPT ![k] = user[c]] /\ vfs' = vfs
    BY <1>0 DEF SysFork
  <2>. QED BY <2>1, <1>0, <1>s DEF Fork, Typed
<1>6. /\ sys' = [pc |-> "vfs", from |-> c, req |-> "fork", child |-> k]
      /\ sys'.pc = "vfs" /\ sys'.from = c /\ sys'.req = "fork" /\ sys'.child = k
  BY <1>0 DEF SysFork, Serve
<1>7. /\ \A p : User(p)' <=> (User(p) \/ p = k)
      /\ \A p \in Pid : p # k => Untouched(p) /\ IsTask(p)' = IsTask(p)
      /\ \A p : Pending(p) => p # k /\ Pending(p)'
      /\ Pending(k)' /\ ~IsTask(k)'
      /\ VfsServed' = VfsServed /\ SysServed' = {c, k}
  <2>1. \A p : User(p)' <=> (User(p) \/ p = k)
    BY <1>2, <1>3, <1>5 DEF User, IsTask
  <2>2. \A p \in Pid : p # k => Untouched(p) /\ IsTask(p)' = IsTask(p)
    BY <1>5 DEF Untouched, IsTask
  <2>3. \A p : Pending(p) => p # k /\ Pending(p)'
    BY <2>1, <2>2, <1>4 DEF Pending, Untouched, User
  <2>0. /\ state'[k] = "blocked" /\ uid'[k] = uid[c] /\ user'[k] = user[c]
        /\ m_to'[k] = NONE /\ m_from'[k] = SYSTEM
    BY <1>2, <1>3, <1>5
  <2>4. Pending(k)' BY <2>0, <2>1, <1>2 DEF Pending, Callee
  <2>5. VfsServed' = VfsServed BY <2>2, <1>4, <1>5, Who DEF VfsServed, Untouched
  <2>6. ~IsTask(k)' BY <2>0, <1>2 DEF IsTask
  <2>7. SysServed' = {c, k} BY <1>6 DEF SysServed
  <2>. QED BY <2>1, <2>2, <2>3, <2>4, <2>5, <2>6, <2>7
<1>8. ThreadsOK'
  <2>1. user' = [user EXCEPT ![k] = user[c]] BY <1>0 DEF SysFork
  <2>2. sys' \in [pc : {"boot", "init", "start", "recv", "got", "vfs", "kill", "answer", "child"},
                  from : Pid \cup {NONE}, req : Requests, child : Pid \cup {NONE}]
    BY <1>2, <1>3, <1>6 DEF Requests
  <2>. QED BY <2>1, <2>2, <1>2, <1>3, <1>5, <1>s DEF ThreadsOK
<1>9. TasksOK'
  <2>1. ASSUME NEW p \in Pid PROVE TaskOK(p)'
    <3>1. TaskOK(p) /\ TaskOK(c) BY <1>2, <1>s DEF TasksOK
    <3>2. CASE p = k
      <4>1. sig_mask'[k] = sig_mask[c] /\ ops'[k] = {} /\ sys'.pc = "vfs"
        BY <1>3, <1>4, <1>5, <1>6
      <4>. QED BY <4>1, <3>1, <3>2, <1>7 DEF TaskOK
    <3>3. CASE p # k
      BY <3>1, <3>3, <1>5, <1>6, <1>7 DEF TaskOK
    <3>. QED BY <3>2, <3>3
  <2>. QED BY <2>1, <1>s, <1>2, <1>4, <1>5, <1>6, <1>7, Who DEF TasksOK
<1>10. VfsOK'
  <2>1. Untouched(VFS) BY <1>4, <1>7, Who
  <2>. QED BY <2>1, <1>s, <1>2, <1>4, <1>5, <1>7, VfsFrame DEF Pending, User, Untouched
<1>11. SysOK'
  <2>1. SysIdleOK' BY <1>2, <1>4, <1>5 DEF SysIdleOK
  <2>2. SysStartOK' /\ SysGotOK' /\ SysCallOK' /\ SysChildOK'
    BY <1>6 DEF SysStartOK, SysGotOK, SysCallOK, SysChildOK
  <2>3. SysWorkOK'
    <3>1. /\ ppid'[k] = c /\ user'[k].pc = "fork" /\ user'[c].pc = "fork" /\ k # NONE
          /\ Pending(c)' /\ Pending(k)'
      BY <1>2, <1>3, <1>4, <1>5, <1>7, Who
    <3>. QED BY <3>1, <1>4, <1>6 DEF SysWorkOK
  <2>. QED BY <2>1, <2>2, <2>3 DEF SysOK
<1>12. UsersOK'
  <2> SUFFICES ASSUME NEW p \in Pid, User(p) \/ p = k PROVE UserOK(p)'
    BY <1>7 DEF UsersOK, User
  <2>1. CASE p = k
    <3>1. /\ state'[p] = "blocked" /\ user'[p].in /\ user'[p].pc = "fork" /\ m_to'[p] = NONE
          /\ m_from'[p] = SYSTEM /\ p \in SysServed'
      BY <2>1, <1>2, <1>3, <1>5, <1>7
    <3>. QED BY <3>1 DEF UserOK
  <2>2. CASE p # k BY <2>2, <1>s, <1>2, <1>7, UserFrame DEF UsersOK
  <2>. QED BY <2>1, <2>2
<1>13. FamilyOK'
  <2> SUFFICES ASSUME NEW p \in Pid, User(p) \/ p = k
               PROVE  ParentOK(p)' /\ ForkedOK(p)' /\ WaitOK(p)' /\ KillOK(p)' /\ ExitOK(p)'
    BY <1>7 DEF FamilyOK, User
  <2>0. User(p) => ParentOK(p) /\ ForkedOK(p) /\ WaitOK(p) /\ KillOK(p) /\ ExitOK(p)
    BY <1>s DEF FamilyOK
  <2>1. \A x : User(x) => /\ x \in Pid /\ x # k
    BY <1>4, <1>s, UserNoTask
  <2>2. CASE p = k
    <3>1. /\ state'[p] = "blocked" /\ user'[p].in /\ user'[p].pc = "fork" /\ ppid'[p] = c
          /\ user'[c].in /\ user'[c].pc = "fork" /\ state'[c] = "blocked"
      BY <2>2, <1>2, <1>3, <1>4, <1>5
    <3>2. ParentOK(p)' BY <3>1, <2>2, <1>2, <1>6, <1>7 DEF ParentOK, KidOf
    <3>. QED BY <3>1, <3>2 DEF ForkedOK, WaitOK, KillOK, Killed, ExitOK
  <2>3. CASE User(p)
    <3>0. p \in Pid /\ p # k /\ Untouched(p) BY <2>1, <2>3, <1>7
    <3>1. ASSUME NEW x, User(x), KidOf(x, p) PROVE KidOf(x, p)'
      BY <3>1, <2>1, <1>2, <1>7 DEF KidOf, Untouched
    <3>2. ParentOK(p)'
      BY <3>0, <3>1, <2>0, <2>3, <1>7 DEF ParentOK, Untouched
    <3>3. ForkedOK(p)' BY <3>0, <2>0, <2>1, <2>3, <1>7 DEF ForkedOK, Untouched
    <3>4. WaitOK(p)' BY <3>0, <2>0, <2>1, <2>3, <1>7 DEF WaitOK, Untouched
    <3>5. KillOK(p)'
      <4>1. user[p].pc = "kill" => p # c BY <1>2
      <4>2. ppid'[k] = c BY <1>3, <1>5
      <4>3. Killed(p)' = Killed(p) BY <3>0, <1>2, <1>6 DEF Killed, Untouched
      <4>. QED BY <4>1, <4>2, <4>3, <3>0, <2>0, <2>1, <2>3, <1>2, <1>7 DEF KillOK, Untouched
    <3>6. ExitOK(p)'
      <4>1. ASSUME InWait(ppid[p]) PROVE InWait(ppid[p])'
        <5>1. ppid[p] # SYSTEM BY <4>1, <1>2 DEF InWait
        <5>2. User(ppid[p]) BY <5>1, <2>0, <2>3 DEF ParentOK
        <5>. QED BY <4>1, <5>2, <3>0, <2>1, <1>7 DEF InWait, Untouched
      <4>. QED BY <4>1, <3>0, <2>0, <2>3 DEF ExitOK, Untouched
    <3>. QED BY <3>2, <3>3, <3>4, <3>5, <3>6
  <2>. QED BY <2>2, <2>3
<1>. QED BY <1>8, <1>9, <1>10, <1>11, <1>12, <1>13 DEF SInv

\* What the process that the system task kills is: a child that has stopped, of
\* the process that asks for it.
LEMMA KillsWaited ==
  ASSUME SInv, sys.pc = "kill"
  PROVE  /\ User(sys.child) /\ ppid[sys.child] = sys.from /\ state[sys.child] = "stopped"
         /\ user[sys.child].pc = "exit" /\ sys.child # sys.from
         /\ Pending(sys.from) /\ user[sys.from].pc = "kill" /\ sys.req = "kill"
         /\ user[sys.from].kid = sys.child
<1>s. SysOK /\ UsersOK /\ FamilyOK BY DEF SInv
<1>1. /\ Pending(sys.from) /\ sys.req = "kill" /\ user[sys.from].pc = "kill"
      /\ sys.child = user[sys.from].kid
  BY <1>s DEF SysOK, SysWorkOK
<1>2. /\ User(sys.child) /\ ppid[sys.child] = sys.from /\ state[sys.child] = "stopped"
  BY <1>1, <1>s DEF FamilyOK, KillOK, Killed, Pending, User
<1>3. user[sys.child].pc = "exit" BY <1>2, <1>s DEF UsersOK, UserOK, User
<1>. QED BY <1>1, <1>2, <1>3 DEF Pending

\* kill: the slot of the child is free.
LEMMA SysKillEndsKeeps ==
  ASSUME SInv, IInv', SysKillEnds
  PROVE  SInv'
<1>s. /\ ThreadsOK /\ TasksOK /\ VfsOK /\ SysOK /\ UsersOK /\ FamilyOK /\ Typed
  BY Types DEF SInv
<1>0. PICK c, k : c = sys.from /\ k = sys.child
  OBVIOUS
<1>1. /\ sys.pc = "kill" /\ state[SYSTEM] = "ready" /\ ops[SYSTEM] = {} /\ Kill(k)
      /\ sys' = [sys EXCEPT !.pc = "answer"] /\ vfs' = vfs /\ user' = user
  BY <1>0 DEF SysKillEnds, SysAt, SysGo, Running
<1>2. /\ User(k) /\ ppid[k] = c /\ state[k] = "stopped" /\ user[k].pc = "exit" /\ k # c
      /\ Pending(c) /\ user[c].pc = "kill" /\ sys.req = "kill" /\ user[c].kid = k
  BY <1>0, <1>1, KillsWaited
<1>3. /\ k \in Pid /\ k \notin {SYSTEM, VFS, IDLE} /\ c \in Pid /\ User(c)
      /\ c \notin {SYSTEM, VFS, IDLE} /\ state[c] = "blocked" /\ user[c].in
  BY <1>2, <1>s, UserNoTask DEF Pending
<1>4. /\ m_from' = m_from /\ m_to' = m_to /\ d0' = d0 /\ msg' = msg /\ ops' = ops
      /\ sig_mask' = sig_mask /\ uid' = uid /\ ppid' = ppid
      /\ \A p \in Pid : state'[p] = IF p = k THEN "none" ELSE state[p]
      /\ sys'.pc = "answer" /\ sys'.from = c /\ sys'.child = k /\ sys'.req = "kill"
  BY <1>0, <1>1, <1>2, <1>3, <1>s DEF Kill, ipc, Typed, ThreadsOK
<1>5. /\ \A p : User(p)' <=> (User(p) /\ p # k)
      /\ \A p : IsTask(p)' = IsTask(p)
      /\ \A p \in Pid : p # k => Untouched(p)
      /\ \A p : Pending(p) => Pending(p)'
      /\ VfsServed' = VfsServed /\ SysServed' = SysServed
  <2>1. \A p : User(p)' <=> (User(p) /\ p # k) BY <1>3, <1>4 DEF User, IsTask
  <2>2. \A p \in Pid : p # k => Untouched(p) BY <1>1, <1>4 DEF Untouched
  <2>3. \A p : Pending(p) => Pending(p)'
    BY <2>1, <2>2, <1>2 DEF Pending, Untouched, User
  <2>4. VfsServed' = VfsServed BY <1>1, <1>3, <1>4, Who DEF VfsServed
  <2>5. SysServed' = SysServed BY <1>0, <1>1, <1>2, <1>4 DEF SysServed
  <2>. QED BY <2>1, <2>2, <2>3, <2>4, <2>5, <1>4 DEF IsTask
<1>6. ThreadsOK' BY <1>s, <1>1 DEF ThreadsOK
<1>7. TasksOK'
  <2>1. ASSUME NEW p \in Pid PROVE TaskOK(p)'
    <3>1. TaskOK(p) BY <1>s DEF TasksOK
    <3>2. state'[p] # "none" => state[p] # "none" BY <1>4
    <3>. QED BY <3>1, <3>2, <1>1, <1>4, <1>5 DEF TaskOK
  <2>. QED BY <2>1, <1>s, <1>1, <1>3, <1>4, <1>5, Who DEF TasksOK
<1>8. VfsOK'
  BY <1>s, <1>1, <1>3, <1>4, <1>5, Who, VfsFrame DEF Untouched
<1>9. SysOK'
  <2>1. SysIdleOK' /\ SysStartOK' /\ SysGotOK' /\ SysChildOK'
    BY <1>4 DEF SysIdleOK, SysStartOK, SysGotOK, SysChildOK
  <2>2. SysWorkOK' BY <1>1, <1>2, <1>4, <1>5 DEF SysWorkOK
  <2>3. SysCallOK' BY <1>s, <1>1, <1>3, <1>4, <1>5, Who DEF SysOK, SysCallOK
  <2>. QED BY <2>1, <2>2, <2>3 DEF SysOK
<1>10. UsersOK'
  <2> SUFFICES ASSUME NEW p \in Pid, User(p), p # k PROVE UserOK(p)'
    BY <1>5 DEF UsersOK
  <2>. QED BY <1>s, <1>1, <1>5, UserFrame DEF UsersOK
<1>11. FamilyOK'
  <2> SUFFICES ASSUME NEW p \in Pid, User(p), p # k
               PROVE  ParentOK(p)' /\ ForkedOK(p)' /\ WaitOK(p)' /\ KillOK(p)' /\ ExitOK(p)'
    BY <1>5 DEF FamilyOK
  <2>0. ParentOK(p) /\ ForkedOK(p) /\ WaitOK(p) /\ KillOK(p) /\ ExitOK(p) /\ Untouched(p)
    BY <1>s, <1>5 DEF FamilyOK
  <2>1. \A x : User(x) => x \in Pid BY <1>s, UserNoTask
  <2>2. ParentOK(p)'
    <3>1. ASSUME NEW x, User(x), KidOf(x, p) PROVE x # k /\ KidOf(x, p)'
      <4>1. x # k BY <3>1, <1>2 DEF KidOf
      <4>. QED BY <3>1, <4>1, <2>1, <1>1, <1>2, <1>4, <1>5 DEF KidOf, Untouched
    <3>. QED BY <3>1, <2>0, <1>4, <1>5 DEF ParentOK
  <2>3. ForkedOK(p)' BY <2>0, <2>1, <1>2, <1>4, <1>5 DEF ForkedOK, Untouched
  <2>4. WaitOK(p)' BY <2>0, <2>1, <1>2, <1>4, <1>5 DEF WaitOK, Untouched
  <2>5. KillOK(p)'
    <3>1. CASE p = c
      <4>1. user'[p].kid = k /\ user'[p].in /\ state'[p] = "blocked" /\ ~User(k)'
        BY <3>1, <1>1, <1>2, <1>3, <1>4, <1>5
      <4>2. ~User(user[p].kid)' BY <4>1, <3>1, <1>1, <1>2
      <4>. QED BY <4>1, <4>2, <3>1, <1>4 DEF KillOK, Killed
    <3>2. CASE p # c
      BY <3>2, <2>0, <2>1, <1>1, <1>2, <1>4, <1>5 DEF KillOK, Killed, Untouched
    <3>. QED BY <3>1, <3>2
  <2>6. ExitOK(p)'
    <3>1. ASSUME InWait(ppid[p]) PROVE InWait(ppid[p])'
      <4>1. ppid[p] # k BY <3>1, <1>2 DEF InWait
      <4>2. ppid[p] \in Pid BY <1>s DEF Typed
      <4>. QED BY <4>1, <4>2, <3>1, <1>1, <1>4 DEF InWait
    <3>. QED BY <3>1, <2>0, <1>4 DEF ExitOK, Untouched
  <2>. QED BY <2>2, <2>3, <2>4, <2>5, <2>6
<1>. QED BY <1>6, <1>7, <1>8, <1>9, <1>10, <1>11 DEF SInv

-----------------------------------------------------------------------------
(* Boot.                                                                   *)

\* Before init is created there are no user processes.
LEMMA NoUsers ==
  ASSUME SInv, sys.pc \in {"boot", "init"}
  PROVE  /\ \A p : ~User(p)
         /\ state[SYSTEM] = "ready" /\ ops[SYSTEM] = {}
         /\ VfsServed = {} /\ (state[VFS] = "ready" => ops[VFS] = {} /\ vfs = "recv")
<1>s. TasksOK /\ VfsOK /\ SysOK BY DEF SInv
<1>1. \A p : ~User(p) BY <1>s DEF TasksOK, TaskOK, User
<1>2. state[VFS] = "ready" => vfs # "got"
  BY <1>1, <1>s DEF VfsOK, Pending
<1>. QED BY <1>1, <1>2, <1>s DEF SysOK, SysIdleOK, VfsOK, VfsServed, SInv, ThreadsOK

LEMMA BootServer ==
  ASSUME SInv, IInv', sys.pc = "boot", CreateTask(VFS), SysGo("init"),
         UNCHANGED <<vfs, user>>
  PROVE  SInv'
<1>s. /\ ThreadsOK /\ TasksOK /\ VfsOK /\ SysOK /\ UsersOK /\ FamilyOK /\ Typed
  BY Types DEF SInv
<1>1. /\ \A p : ~User(p)
      /\ state[SYSTEM] = "ready" /\ ops[SYSTEM] = {}
      /\ state[VFS] = "none" /\ vfs = "recv"
  BY NoUsers, <1>s DEF TasksOK, VfsOK
<1>2. /\ vfs' = vfs /\ user' = user /\ sys' = [sys EXCEPT !.pc = "init"] /\ sys'.pc = "init"
      /\ \A p \in Pid : state'[p] = IF p = VFS THEN "ready" ELSE state[p]
      /\ \A p \in Pid : uid'[p] = IF p = VFS THEN KERNEL ELSE uid[p]
      /\ \A p \in Pid : ops'[p] = IF p = VFS THEN {} ELSE ops[p]
      /\ \A p \in Pid : sig_mask'[p] = IF p = VFS THEN {} ELSE sig_mask[p]
  BY <1>s, Who DEF CreateTask, Fresh, SysGo, Typed, ThreadsOK
<1>3. \A p \in Pid : IsTask(p) /\ IsTask(p)' BY <1>s, <1>2, Who DEF TasksOK, TaskOK, IsTask
<1>4. \A p : ~User(p)' BY <1>3 DEF User
<1>5. ThreadsOK' BY <1>s, <1>2 DEF ThreadsOK
<1>6. TasksOK' BY <1>s, <1>2, <1>3, Who DEF TasksOK, TaskOK
<1>7. VfsOK' BY <1>1, <1>2, Who DEF VfsOK
<1>8. SysOK'
  BY <1>1, <1>2, Who
     DEF SysOK, SysIdleOK, SysStartOK, SysGotOK, SysWorkOK, SysCallOK, SysChildOK
<1>9. UsersOK' /\ FamilyOK' BY <1>4 DEF UsersOK, FamilyOK
<1>. QED BY <1>5, <1>6, <1>7, <1>8, <1>9 DEF SInv

LEMMA BootInit ==
  ASSUME SInv, IInv', sys.pc = "init", CreateInit,
         sys' = [sys EXCEPT !.pc = "start", !.child = links.free],
         UNCHANGED <<vfs, user>>
  PROVE  SInv'
<1>s. /\ ThreadsOK /\ TasksOK /\ VfsOK /\ SysOK /\ UsersOK /\ FamilyOK /\ Typed /\ IInv
  BY Types DEF SInv
<1>0. PICK c : c = links.free OBVIOUS
<1>1. /\ c \in Pid /\ state[c] = "none"
  BY <1>0, <1>s, FreeHead DEF CreateInit, Is
<1>2. /\ \A p : ~User(p) /\ ~Pending(p)
      /\ state[SYSTEM] = "ready" /\ ops[SYSTEM] = {} /\ state[VFS] # "none"
      /\ VfsServed = {} /\ (state[VFS] = "ready" => ops[VFS] = {} /\ vfs = "recv")
      /\ c \notin {SYSTEM, VFS, IDLE}
      /\ IsTask(c) /\ ~user[c].in /\ user[c].pc = "vfs"
  BY NoUsers, <1>1, <1>s DEF TasksOK, TaskOK, Typed, Pending
<1>3. /\ vfs' = vfs /\ user' = user /\ sys'.pc = "start" /\ sys'.child = c
      /\ \A p \in Pid : state'[p] = IF p = c THEN "blocked" ELSE state[p]
      /\ \A p \in Pid : uid'[p] = IF p = c THEN ROOT ELSE uid[p]
      /\ \A p \in Pid : ppid'[p] = IF p = c THEN SYSTEM ELSE ppid[p]
      /\ \A p \in Pid : ops'[p] = IF p = c THEN {} ELSE ops[p]
      /\ \A p \in Pid : sig_mask'[p] = IF p = c THEN {} ELSE sig_mask[p]
      /\ \A p \in Pid : m_from'[p] = IF p = c THEN NONE ELSE m_from[p]
      /\ \A p \in Pid : m_to'[p] = IF p = c THEN NONE ELSE m_to[p]
  BY <1>0, <1>s DEF CreateInit, Fresh, Typed, ThreadsOK
<1>4. /\ \A p \in Pid : IsTask(p) /\ (p # c => IsTask(p)') /\ ROOT # KERNEL
      /\ ~IsTask(c)'
  BY <1>s, <1>1, <1>3 DEF TasksOK, TaskOK, IsTask, ROOT, KERNEL
<1>5. \A p : User(p)' <=> p = c BY <1>1, <1>2, <1>3, <1>4 DEF User
<1>6. ThreadsOK' BY <1>s, <1>0, <1>1 DEF ThreadsOK
<1>7. TasksOK' BY <1>s, <1>2, <1>3, <1>4, Who DEF TasksOK, TaskOK
<1>8. VfsOK' BY <1>s, <1>2, <1>3, Who DEF VfsOK
<1>9. SysOK'
  BY <1>1, <1>2, <1>3, <1>5, Who
     DEF SysOK, SysIdleOK, SysStartOK, SysGotOK, SysWorkOK, SysCallOK, SysChildOK
<1>10. state'[c] = "blocked" /\ ~user'[c].in /\ user'[c].pc = "vfs" /\ ppid'[c] = SYSTEM
  BY <1>1, <1>2, <1>3
<1>11. UserOK(c)' BY <1>3, <1>10 DEF UserOK
<1>12. ParentOK(c)' /\ ForkedOK(c)' /\ WaitOK(c)' /\ KillOK(c)' /\ ExitOK(c)'
  BY <1>10 DEF ParentOK, ForkedOK, WaitOK, KillOK, Killed, ExitOK
<1>13. UsersOK' /\ FamilyOK' BY <1>5, <1>11, <1>12 DEF UsersOK, FamilyOK
<1>. QED BY <1>6, <1>7, <1>8, <1>9, <1>13 DEF SInv

LEMMA BootStart ==
  ASSUME SInv, IInv', sys.pc = "start", StartInit(sys.child), SysGo("recv"),
         UNCHANGED <<vfs, user>>
  PROVE  SInv'
<1>s. /\ ThreadsOK /\ TasksOK /\ VfsOK /\ SysOK /\ UsersOK /\ FamilyOK /\ Typed /\ IInv
  BY Types DEF SInv
<1>0. PICK c : c = sys.child OBVIOUS
<1>1. /\ User(c) /\ state[c] = "blocked" /\ ~user[c].in /\ c \in Pid
      /\ c \notin {SYSTEM, VFS, IDLE} /\ state[SYSTEM] = "ready" /\ ops[SYSTEM] = {}
      /\ \A p : User(p) => p = c
  BY <1>0, <1>s, UserNoTask DEF SysOK, SysStartOK, SysIdleOK, User
<1>2. /\ vfs' = vfs /\ user' = user /\ sys' = [sys EXCEPT !.pc = "recv"] /\ sys'.pc = "recv"
      /\ uid' = uid /\ ppid' = ppid /\ ops' = ops /\ sig_mask' = sig_mask
      /\ \A p \in Pid : state'[p] = IF p = c THEN "ready" ELSE state[p]
      /\ \A p \in Pid : p # c => m_from'[p] = m_from[p] /\ m_to'[p] = m_to[p] /\ d0'[p] = d0[p]
  BY <1>0, <1>1, <1>s DEF StartInit, ProcSig, SysGo, Typed, ThreadsOK
<1>3. /\ \A p : User(p)' = User(p) /\ IsTask(p)' = IsTask(p)
  BY <1>1, <1>2 DEF User, IsTask
<1>4. /\ state[VFS] = "ready" => ops[VFS] = {} /\ vfs = "recv"
  BY <1>1, <1>s DEF VfsOK, Pending, ThreadsOK
<1>5. state'[c] = "ready" /\ ~user'[c].in BY <1>1, <1>2
<1>6. ThreadsOK' BY <1>s, <1>2 DEF ThreadsOK
<1>7. TasksOK'
  <2>1. ASSUME NEW p \in Pid PROVE TaskOK(p)'
    <3>1. TaskOK(p) BY <1>s DEF TasksOK
    <3>2. state'[p] # "none" => state[p] # "none" BY <1>1, <1>2
    <3>. QED BY <3>1, <3>2, <1>2, <1>3 DEF TaskOK
  <2>. QED BY <2>1, <1>s, <1>1, <1>2, <1>3, Who DEF TasksOK
<1>8. VfsOK' BY <1>s, <1>1, <1>2, <1>4, Who DEF VfsOK
<1>9. SysOK'
  BY <1>1, <1>2, Who
     DEF SysOK, SysIdleOK, SysStartOK, SysGotOK, SysWorkOK, SysCallOK, SysChildOK
<1>10. UserOK(c)' BY <1>5 DEF UserOK
<1>11. ParentOK(c)' /\ ForkedOK(c)' /\ WaitOK(c)' /\ KillOK(c)' /\ ExitOK(c)'
  <2>1. ParentOK(c) /\ WaitOK(c) /\ KillOK(c) BY <1>1, <1>s DEF FamilyOK
  <2>2. ForkedOK(c)' /\ ExitOK(c)' BY <1>5 DEF ForkedOK, ExitOK
  <2>3. user[c].pc = "vfs" BY <1>0, <1>s DEF SysOK, SysStartOK
  <2>4. WaitOK(c)' /\ KillOK(c)' BY <2>3, <1>2 DEF WaitOK, KillOK, Killed
  <2>5. ppid[c] = SYSTEM
    BY <2>1, <2>3, <1>1 DEF ParentOK, KidOf
  <2>. QED BY <2>2, <2>4, <2>5, <1>2 DEF ParentOK
<1>12. UsersOK' /\ FamilyOK' BY <1>1, <1>3, <1>10, <1>11 DEF UsersOK, FamilyOK
<1>. QED BY <1>6, <1>7, <1>8, <1>9, <1>12 DEF SInv

-----------------------------------------------------------------------------
(* The programs.                                                           *)

\* A program goes on from one call to the next.
LEMMA Resumes ==
  ASSUME SInv, NEW c \in Pid, UserRuns(c), user[c].in, NEW w \in After(user[c], Value(c))
  PROVE  /\ User(c) /\ state[c] = "ready"
         /\ w \in [prog : {"init", "shell", "leaf"}, pc : Calls, in : BOOLEAN,
                   kid : Pid \cup {NONE}]
         /\ ~w.in
         /\ user[c].pc = "fork" /\ msg[c].val \notin {0, NONE} =>
              w.pc = "wait" /\ w.kid = msg[c].val
         /\ user[c].pc = "wait" => w.pc = "kill" /\ w.kid = user[c].kid
         /\ w.pc = "wait" => user[c].pc = "fork" /\ msg[c].val \notin {0, NONE}
         /\ w.pc = "kill" => user[c].pc = "wait"
<1>s. ThreadsOK /\ TasksOK /\ UsersOK /\ Typed BY Types DEF SInv
<1>1. state[c] = "ready" /\ User(c) BY <1>s DEF UserRuns, Running, User, UserOK
<1>2. /\ user[c].pc \in Calls /\ user[c].prog \in {"init", "shell", "leaf"}
      /\ user[c].kid \in Pid \cup {NONE}
  BY <1>s DEF ThreadsOK
<1>3. UserOK(c) BY <1>1, <1>s DEF UsersOK
<1>4. /\ user[c].pc \in {"vfs", "fork", "wait", "kill", "exec"}
      /\ user[c].pc # "wait" => Value(c) = msg[c].val /\ msg[c].val \in Values(user[c].pc)
  <2>1. user[c].pc \in {"vfs", "fork", "wait", "kill", "exec"}
    BY <1>1, <1>2, <1>3 DEF UserOK, Calls
  <2>2. ASSUME user[c].pc # "wait"
        PROVE  Value(c) = msg[c].val /\ msg[c].val \in Values(user[c].pc)
    <3>1. /\ d0[c] = Callee(user[c].pc)
          /\ \E v \in Values(user[c].pc) : msg[c] = Answer(user[c].pc, v)
      BY <2>2, <1>1, <1>3 DEF UserOK
    <3>2. PICK v \in Values(user[c].pc) : msg[c] = Answer(user[c].pc, v) BY <3>1
    <3>3. msg[c].val = v BY <3>2 DEF Answer
    <3>. QED BY <3>1, <3>2, <3>3 DEF Value
  <2>. QED BY <2>1, <2>2
<1>5. 0 \in Pid /\ 0 # NONE BY Who
<1> DEFINE R(x) == x \in [prog : {"init", "shell", "leaf"}, pc : Calls, in : BOOLEAN,
                          kid : Pid \cup {NONE}]
<1>6. ASSUME NEW g \in {"init", "shell", "leaf"}, NEW l \in Calls, NEW k \in Pid \cup {NONE},
             w = Resume(g, l, k)
      PROVE  R(w) /\ ~w.in /\ w.pc = l /\ w.kid = k
  BY <1>6 DEF Resume
<1> HIDE DEF R
<1>7. CASE user[c].pc = "vfs"
  <2>1. w = Resume(user[c].prog, IF user[c].prog = "leaf" THEN "exit" ELSE "fork", NONE)
    BY <1>7, AfterCall
  <2>2. w = Resume(user[c].prog, "exit", NONE) \/ w = Resume(user[c].prog, "fork", NONE)
    BY <2>1
  <2>3. R(w) /\ ~w.in /\ w.pc \in {"exit", "fork"} BY <2>2, <1>2, <1>6 DEF Calls
  <2>. QED BY <2>3, <1>1, <1>7 DEF R
<1>8. CASE user[c].pc = "fork"
  <2>1. w = IF msg[c].val = NONE THEN Resume(user[c].prog, "vfs", NONE)
            ELSE IF msg[c].val = 0 THEN Resume(user[c].prog, "exec", NONE)
            ELSE Resume(user[c].prog, "wait", msg[c].val)
    BY <1>4, <1>8, AfterCall
  <2>2. msg[c].val \in Pid \cup {NONE} BY <1>4, <1>8 DEF Values
  <2>3. CASE msg[c].val \in {0, NONE}
    <3>1. \/ w = Resume(user[c].prog, "vfs", NONE) \/ w = Resume(user[c].prog, "exec", NONE)
      BY <2>1, <2>3
    <3>2. R(w) /\ ~w.in /\ w.pc \in {"vfs", "exec"} BY <3>1, <1>2, <1>6 DEF Calls
    <3>. QED BY <2>3, <3>2, <1>1, <1>8 DEF R
  <2>4. CASE msg[c].val \notin {0, NONE}
    <3>1. w = Resume(user[c].prog, "wait", msg[c].val) BY <2>1, <2>4
    <3>2. R(w) /\ ~w.in /\ w.pc = "wait" /\ w.kid = msg[c].val
      BY <2>2, <3>1, <1>2, <1>6 DEF Calls
    <3>. QED BY <2>4, <3>2, <1>1, <1>8 DEF R
  <2>. QED BY <2>3, <2>4
<1>9. CASE user[c].pc = "wait"
  <2>1. w = Resume(user[c].prog, "kill", user[c].kid) BY <1>9, AfterCall
  <2>2. R(w) /\ ~w.in /\ w.pc = "kill" /\ w.kid = user[c].kid
    BY <2>1, <1>2, <1>6 DEF Calls
  <2>. QED BY <2>2, <1>1, <1>9 DEF R
<1>10. CASE user[c].pc = "kill"
  <2>1. w = Resume(user[c].prog, "vfs", NONE) BY <1>10, AfterCall
  <2>2. R(w) /\ ~w.in /\ w.pc = "vfs" BY <2>1, <1>2, <1>6 DEF Calls
  <2>. QED BY <2>2, <1>1, <1>10 DEF R
<1>11. CASE user[c].pc = "exec"
  <2>1. Value(c) \in {0, NONE} BY <1>4, <1>11 DEF Values
  <2>2. \/ w = Resume("shell", "vfs", NONE) \/ w = Resume("leaf", "vfs", NONE)
        \/ w = Resume(user[c].prog, "vfs", NONE) \/ w = Resume(user[c].prog, "exit", NONE)
    BY <2>1, <1>5, <1>11, AfterCall
  <2>3. R(w) /\ ~w.in /\ w.pc \in {"vfs", "exit"} BY <2>2, <1>2, <1>6 DEF Calls
  <2>. QED BY <2>3, <1>1, <1>11 DEF R
<1>. QED BY <1>4, <1>7, <1>8, <1>9, <1>10, <1>11

\* A program that is outside a call, or goes on from one: nobody else is
\* concerned, and its children are the same.
LEMMA UserMoves ==
  ASSUME SInv, IInv', NEW c \in Pid, Running(c), ~IsTask(c),
         UNCHANGED <<vars, sys, vfs>>,
         NEW w \in [prog : {"init", "shell", "leaf"}, pc : Calls, in : BOOLEAN,
                    kid : Pid \cup {NONE}],
         user' = [user EXCEPT ![c] = w], ~w.in,
         \A k \in Pid : User(k) /\ k # SYSTEM /\ KidOf(c, k) /\ ppid[k] = c =>
           w.pc \in {"wait", "kill"} /\ w.kid = k,
         w.pc = "wait" => User(w.kid) /\ ppid[w.kid] = c,
         w.pc = "kill" => User(w.kid) /\ ppid[w.kid] = c /\ state[w.kid] = "stopped"
  PROVE  SInv'
<1>s. /\ ThreadsOK /\ TasksOK /\ VfsOK /\ SysOK /\ UsersOK /\ FamilyOK /\ Typed
  BY Types DEF SInv
<1>1. User(c) /\ state[c] = "ready" /\ c \notin {SYSTEM, VFS, IDLE}
  <2>1. User(c) /\ state[c] = "ready" BY DEF Running, User
  <2>. QED BY <2>1, <1>s, UserNoTask
<1>2. /\ state' = state /\ m_from' = m_from /\ m_to' = m_to /\ d0' = d0 /\ msg' = msg
      /\ ops' = ops /\ sig_mask' = sig_mask /\ uid' = uid /\ ppid' = ppid
      /\ vfs' = vfs /\ sys' = sys
      /\ \A p \in Pid : user'[p] = IF p = c THEN w ELSE user[p]
  BY <1>s DEF vars, ipc, ThreadsOK
<1>3. /\ \A p : User(p)' = User(p) /\ IsTask(p)' = IsTask(p)
      /\ \A p \in Pid : p # c => Untouched(p)
      /\ \A p : Pending(p) => p # c /\ Pending(p)'
      /\ VfsServed' = VfsServed /\ SysServed' = SysServed
  <2>1. \A p : User(p)' = User(p) /\ IsTask(p)' = IsTask(p) BY <1>2 DEF User, IsTask
  <2>2. \A p \in Pid : p # c => Untouched(p) BY <1>2 DEF Untouched
  <2>3. \A p : Pending(p) => p # c /\ Pending(p)'
    BY <2>1, <2>2, <1>1, <1>2 DEF Pending, Untouched, User
  <2>. QED BY <2>1, <2>2, <2>3, <1>2 DEF VfsServed, SysServed
<1>4. ThreadsOK' BY <1>s, <1>2 DEF ThreadsOK
<1>5. TasksOK'
  <2>1. ASSUME NEW p \in Pid PROVE TaskOK(p)'
    BY <1>s, <1>2, <1>3 DEF TasksOK, TaskOK
  <2>. QED BY <2>1, <1>s, <1>2, <1>3 DEF TasksOK
<1>6. VfsOK' BY <1>s, <1>1, <1>2, <1>3, Who, VfsFrame DEF Untouched, Pending, User
<1>7. SysOK'
  <2>1. SysStartOK' BY <1>s, <1>1, <1>2, <1>3 DEF SysOK, SysStartOK, Untouched, User
  <2>. QED BY <2>1, <1>s, <1>1, <1>2, <1>3, Who, SysFrame DEF Untouched, Pending, User
<1>8. UsersOK'
  <2> SUFFICES ASSUME NEW p \in Pid, User(p) PROVE UserOK(p)' BY <1>3 DEF UsersOK
  <2>1. CASE p = c
    <3>1. state'[p] = "ready" /\ ~user'[p].in BY <2>1, <1>1, <1>2
    <3>. QED BY <3>1 DEF UserOK
  <2>2. CASE p # c
    BY <2>2, <1>s, <1>2, <1>3, UserFrame DEF UsersOK
  <2>. QED BY <2>1, <2>2
<1>9. FamilyOK'
  <2> SUFFICES ASSUME NEW p \in Pid, User(p)
               PROVE  ParentOK(p)' /\ ForkedOK(p)' /\ WaitOK(p)' /\ KillOK(p)' /\ ExitOK(p)'
    BY <1>3 DEF FamilyOK
  <2>0. ParentOK(p) /\ ForkedOK(p) /\ WaitOK(p) /\ KillOK(p) /\ ExitOK(p)
    BY <1>s DEF FamilyOK
  <2>1. \A x : User(x) => x \in Pid /\ (x # c => user'[x] = user[x])
    BY <1>2 DEF User
  <2>2. user'[c] = w BY <1>2
  <2>3. ParentOK(p)'
    <3>1. ASSUME ppid[p] # SYSTEM PROVE User(ppid[p])' /\ KidOf(ppid[p], p)'
      <4>1. User(ppid[p]) /\ KidOf(ppid[p], p) BY <3>1, <2>0 DEF ParentOK
      <4>2. CASE ppid[p] = c
        <5>1. p # SYSTEM BY <1>s, UserNoTask
        <5>2. w.pc \in {"wait", "kill"} /\ w.kid = p BY <4>1, <4>2, <5>1
        <5>3. KidOf(c, p)' BY <5>2, <2>2 DEF KidOf
        <5>. QED BY <4>1, <4>2, <5>3, <1>2, <1>3
      <4>3. CASE ppid[p] # c
        <5>1. user'[ppid[p]] = user[ppid[p]] BY <4>1, <4>3, <2>1
        <5>. QED BY <4>1, <5>1, <1>2, <1>3 DEF KidOf
      <4>. QED BY <4>2, <4>3
    <3>. QED BY <3>1, <1>2 DEF ParentOK
  <2>4. ExitOK(p)'
    <3>1. ASSUME InWait(ppid[p]) PROVE InWait(ppid[p])'
      <4>1. ppid[p] # c BY <3>1, <1>1 DEF InWait
      <4>2. ppid[p] \in Pid BY <1>s DEF Typed
      <4>. QED BY <3>1, <4>1, <4>2, <1>2 DEF InWait
    <3>2. user'[p].in => user'[p] = user[p] BY <2>1, <2>2
    <3>. QED BY <3>1, <3>2, <2>0, <1>2 DEF ExitOK
  <2>5. CASE p = c
    <3>1. user'[p] = w /\ ~user'[p].in /\ state'[p] = "ready" BY <2>5, <2>2, <1>1, <1>2
    <3>2. ForkedOK(p)' BY <3>1 DEF ForkedOK
    <3>3. WaitOK(p)' BY <2>5, <3>1, <1>2, <1>3 DEF WaitOK
    <3>4. KillOK(p)' BY <2>5, <3>1, <1>2, <1>3 DEF KillOK, Killed
    <3>. QED BY <2>3, <2>4, <3>2, <3>3, <3>4
  <2>6. CASE p # c
    <3>1. user'[p] = user[p] BY <2>1, <2>6
    <3>2. ForkedOK(p)' BY <2>0, <3>1, <1>2, <1>3 DEF ForkedOK
    <3>3. WaitOK(p)' BY <2>0, <3>1, <1>2, <1>3 DEF WaitOK
    <3>4. KillOK(p)' BY <2>0, <3>1, <1>2, <1>3 DEF KillOK, Killed
    <3>. QED BY <2>3, <2>4, <3>2, <3>3, <3>4
  <2>. QED BY <2>5, <2>6
<1>. QED BY <1>4, <1>5, <1>6, <1>7, <1>8, <1>9 DEF SInv

LEMMA UserReturnsKeeps ==
  ASSUME SInv, IInv', NEW c \in Pid, UserReturns(c)
  PROVE  SInv'
<1>s. FamilyOK BY DEF SInv
<1>1. PICK w \in After(user[c], Value(c)) : user' = [user EXCEPT ![c] = w]
  BY DEF UserReturns
<1>2. /\ UserRuns(c) /\ user[c].in /\ UNCHANGED <<vars, sys, vfs>>
      /\ Running(c) /\ ~IsTask(c)
  BY DEF UserReturns, UserRuns
<1>3. /\ User(c) /\ state[c] = "ready"
      /\ w \in [prog : {"init", "shell", "leaf"}, pc : Calls, in : BOOLEAN,
                kid : Pid \cup {NONE}]
      /\ ~w.in
      /\ user[c].pc = "fork" /\ msg[c].val \notin {0, NONE} =>
           w.pc = "wait" /\ w.kid = msg[c].val
      /\ user[c].pc = "wait" => w.pc = "kill" /\ w.kid = user[c].kid
      /\ w.pc = "wait" => user[c].pc = "fork" /\ msg[c].val \notin {0, NONE}
      /\ w.pc = "kill" => user[c].pc = "wait"
  BY <1>1, <1>2, Resumes
<1>4. ForkedOK(c) /\ WaitOK(c) /\ KillOK(c) BY <1>3, <1>s DEF FamilyOK
<1>5. ASSUME NEW k \in Pid, User(k), k # SYSTEM, KidOf(c, k), ppid[k] = c
      PROVE  w.pc \in {"wait", "kill"} /\ w.kid = k
  <2>1. k # 0 /\ k # NONE BY <1>5, Who
  <2>2. user[c].pc # "kill" \/ user[c].kid # k
    BY <1>2, <1>3, <1>4, <1>5 DEF KillOK, Killed
  <2>. QED BY <2>1, <2>2, <1>3, <1>5 DEF KidOf
<1>6. w.pc = "wait" => User(w.kid) /\ ppid[w.kid] = c
  BY <1>2, <1>3, <1>4 DEF ForkedOK
<1>7. w.pc = "kill" => User(w.kid) /\ ppid[w.kid] = c /\ state[w.kid] = "stopped"
  BY <1>2, <1>3, <1>4 DEF WaitOK
<1>. QED BY <1>1, <1>2, <1>3, <1>5, <1>6, <1>7, UserMoves

LEMMA ShellEndsKeeps ==
  ASSUME SInv, IInv', NEW c \in Pid, ShellEnds(c)
  PROVE  SInv'
<1>s. ThreadsOK BY DEF SInv
<1> DEFINE w == [user[c] EXCEPT !.pc = "exit"]
<1>1. /\ Running(c) /\ ~IsTask(c) /\ UNCHANGED <<vars, sys, vfs>>
      /\ ~user[c].in /\ user[c].pc = "fork"
      /\ user' = [user EXCEPT ![c] = w]
  BY DEF ShellEnds, UserRuns
<1>2. /\ w \in [prog : {"init", "shell", "leaf"}, pc : Calls, in : BOOLEAN,
                kid : Pid \cup {NONE}]
      /\ ~w.in /\ w.pc = "exit"
  BY <1>1, <1>s DEF ThreadsOK, Calls
<1>3. \A k : ~KidOf(c, k) BY <1>1 DEF KidOf
<1> HIDE DEF w
<1>. QED BY <1>1, <1>2, <1>3, UserMoves

-----------------------------------------------------------------------------
(* Every step is a step of the kernel.                                     *)

\* The server answers the process whose request it took, which waits for that.
LEMMA VfsSends ==
  ASSUME SInv, Running(VFS), vfs = "got"
  PROVE  /\ d0[VFS] \in Pid /\ d0[VFS] # VFS /\ d0[VFS] # IDLE
         /\ Accepts(d0[VFS], VFS)
<1>s. /\ VfsOK /\ SysOK /\ Typed
  BY Types DEF SInv
<1>1. \/ Pending(d0[VFS]) /\ user[d0[VFS]].pc = "vfs"
      \/ /\ d0[VFS] = SYSTEM /\ sys.pc \in {"kill", "answer"}
         /\ state[SYSTEM] = "blocked"
  BY <1>s DEF VfsOK, Running
<1>2. CASE Pending(d0[VFS]) /\ user[d0[VFS]].pc = "vfs"
  BY <1>2, <1>s, UserNoTask DEF Pending, Callee, Accepts
<1>3. CASE d0[VFS] = SYSTEM /\ sys.pc \in {"kill", "answer"} /\ state[SYSTEM] = "blocked"
  BY <1>3, <1>s, Who DEF SysOK, SysCallOK, Accepts
<1>. QED BY <1>1, <1>2, <1>3

LEMMA InitSInv == SystemInit => SInv
<1> SUFFICES ASSUME SystemInit PROVE SInv
  OBVIOUS
<1>1. IInv BY InitIInv DEF SystemInit
<1>2. /\ sys = [pc |-> "boot", from |-> NONE, req |-> "none", child |-> NONE]
      /\ vfs = "recv"
      /\ user = [p \in Pid |-> Resume("init", "vfs", NONE)]
      /\ \A p \in Pid : /\ state[p] = IF p \in {SYSTEM, IDLE} THEN "ready" ELSE "none"
                        /\ uid[p] = KERNEL /\ sig_mask[p] = {} /\ ops[p] = {}
  BY DEF SystemInit, Init
<1>3. \A p : ~User(p) BY <1>2 DEF User, IsTask
<1>4. ThreadsOK BY <1>2 DEF ThreadsOK, Resume, Requests, Calls
<1>5. TasksOK
  <2>1. \A p \in Pid : ~user[p].in /\ user[p].pc = "vfs" BY <1>2 DEF Resume
  <2>2. sys.pc = "boot" BY <1>2
  <2>. QED BY <1>2, <2>1, <2>2, Who DEF TasksOK, TaskOK, IsTask
<1>6. VfsOK BY <1>2, Who DEF VfsOK
<1>7. SysOK
  BY <1>2, Who DEF SysOK, SysIdleOK, SysStartOK, SysGotOK, SysWorkOK, SysCallOK, SysChildOK
<1>8. UsersOK /\ FamilyOK BY <1>3 DEF UsersOK, FamilyOK
<1>. QED BY <1>1, <1>4, <1>5, <1>6, <1>7, <1>8 DEF SInv

LEMMA SystemTaskKeeps ==
  ASSUME SInv, IInv', SystemTask
  PROVE  SInv'
<1>s. /\ SysOK /\ Typed
  BY Types DEF SInv
<1>1. CASE SysBoot
  <2>1. UNCHANGED <<vfs, user>> BY <1>1 DEF SysBoot
  <2>2. CASE SysAt("boot") /\ CreateTask(VFS) /\ SysGo("init")
    BY <2>1, <2>2, BootServer DEF SysAt
  <2>3. CASE SysAt("init") /\ CreateInit /\ sys' = [sys EXCEPT !.pc = "start", !.child = links.free]
    BY <2>1, <2>3, BootInit DEF SysAt
  <2>4. CASE SysAt("start") /\ StartInit(sys.child) /\ SysGo("recv")
    BY <2>1, <2>4, BootStart DEF SysAt
  <2>. QED BY <1>1, <2>2, <2>3, <2>4 DEF SysBoot
<1>2. CASE SysReceive
  <2>1. /\ Receive(SYSTEM) /\ sys.pc = "recv" /\ sys' = [sys EXCEPT !.pc = "got"]
        /\ vfs' = vfs /\ user' = user
    BY <1>2 DEF SysReceive, SysAt, SysGo
  <2>2. CASE RecvNow(SYSTEM) BY <2>1, <2>2, ServerTakes
  <2>3. CASE Wait(SYSTEM, ANY, {RECV}, NoMsg) BY <2>1, <2>3, ServerListens
  <2>. QED BY <2>1, <2>2, <2>3 DEF Receive
<1>3. CASE SysReset
  <2>1. SysAt("got") /\ d0[SYSTEM] < 0 BY <1>3 DEF SysReset
  <2>2. SysGot(msg[SYSTEM].type) \/ ~(d0[SYSTEM] >= 0) BY <2>1 DEF SysGot
  <2>3. Pending(d0[SYSTEM]) BY <2>1, <1>s DEF SysAt, Running, SysOK, SysGotOK
  <2>4. d0[SYSTEM] \in Nat BY <2>3, ProcCountAssumption DEF Pending, User, Pid
  <2>. QED BY <2>1, <2>4
<1>4. CASE SysIllegal
  <2>1. PICK t \in {"answer", "vfs", "none"} : SysGot(t) BY <1>4 DEF SysIllegal
  <2>2. t # "vfs" /\ t \in Calls BY <2>1, Got
  <2>. QED BY <2>2 DEF Calls
<1>5. CASE SysForkFails \/ SysExec \/ SysKill BY <1>5, SysDecides
<1>6. CASE SysExit BY <1>6, SysExitKeeps
<1>7. CASE SysWait BY <1>7, SysWaitKeeps
<1>8. CASE SysFork BY <1>8, SysForkKeeps
<1>9. CASE SysCallVfs BY <1>9, SysCallVfsKeeps
<1>10. CASE SysKillEnds BY <1>10, SysKillEndsKeeps
<1>11. CASE SysAnswer BY <1>11, SysAnswerKeeps
<1>12. CASE SysAnswerChild BY <1>12, SysAnswerChildKeeps
<1>. QED
  BY <1>1, <1>2, <1>3, <1>4, <1>5, <1>6, <1>7, <1>8, <1>9, <1>10, <1>11, <1>12 DEF SystemTask

LEMMA VfsTaskKeeps ==
  ASSUME SInv, IInv', VfsTask
  PROVE  SInv'
<1>1. Running(VFS) /\ sys' = sys /\ user' = user BY DEF VfsTask
<1>2. CASE vfs = "recv" /\ Receive(VFS) /\ vfs' = "got"
  BY <1>1, <1>2, ServerTakes, ServerListens DEF Receive
<1>3. CASE vfs = "got" /\ vfs' = "recv" /\ Send(VFS, d0[VFS], Answer("vfs", 0))
  <2>1. d0[VFS] \in Pid /\ Accepts(d0[VFS], VFS) BY <1>1, <1>3, VfsSends
  <2>2. SendNow(VFS, d0[VFS], Answer("vfs", 0))
    BY <1>3, <2>1 DEF Send, SendLocked, Wait, SEND
  <2>. QED BY <1>1, <1>3, <2>1, <2>2, VfsAnswersUser, VfsAnswersSystem
<1>. QED BY <1>2, <1>3 DEF VfsTask

LEMMA NextSInv ==
  ASSUME SInv, IInv', Quiet, [SystemNext]_svars
  PROVE  SInv'
<1>1. CASE UNCHANGED svars
  BY <1>1, Idles DEF svars, vars, ipc, proto
<1>2. CASE Interrupt
  BY <1>2, Idles DEF Interrupt, SysIrq, SysIrqEnd, ipc, proto
<1>3. CASE SystemTask BY <1>3, SystemTaskKeeps
<1>4. CASE VfsTask BY <1>4, VfsTaskKeeps
<1>5. CASE CtrlAltDel BY <1>5 DEF CtrlAltDel, Alarm, Quiet
<1>6. ASSUME NEW p \in Pid, TaskBack(p) PROVE SInv'
  BY <1>6, ServerReturns DEF TaskBack
<1>7. ASSUME NEW p \in Pid, UserProgram(p) PROVE SInv'
  BY <1>7, UserCallsKeeps, UserReturnsKeeps, ShellEndsKeeps DEF UserProgram
<1>8. ASSUME NEW p \in Pid, LeafFaults(p) PROVE FALSE BY <1>8 DEF LeafFaults, Quiet
<1>. QED BY <1>1, <1>2, <1>3, <1>4, <1>5, <1>6, <1>7, <1>8 DEF SystemNext

\* The inductive invariant holds of the system, when no device signals a task,
\* no program takes an exception and the parent is in wait before the child
\* ends: what follows rests on it.
THEOREM SystemInvariance == ASSUME Quiet PROVE SystemSpec => []SInv
<1>1. RInv => IInv BY DEF RInv
<1>2. SInv /\ IInv' /\ [SystemNext]_svars => SInv' BY NextSInv
<1>. QED BY <1>1, <1>2, InitSInv, DisturbedInvariance, PTL DEF SystemSpec

\* A process that comes back from a call has the answer to that call, from the
\* process it called; only wait comes back without one.
THEOREM AnswersMatchTheorem == ASSUME Quiet PROVE SystemSpec => []AnswersMatch
<1>1. ASSUME SInv PROVE AnswersMatch
  <2>s. /\ ThreadsOK /\ TasksOK /\ UsersOK /\ SysOK /\ Typed BY <1>1, Types DEF SInv
  <2>1. ASSUME NEW p \in Pid, UserRuns(p), user[p].in
        PROVE  IF user[p].pc = "wait" THEN d0[p] = EABORT
               ELSE d0[p] = Callee(user[p].pc) /\ msg[p] \in
                    [type : {"answer"}, re : {user[p].pc}, val : Pid \cup {NONE}]
    <3>1. state[p] = "ready" /\ User(p) BY <2>1 DEF UserRuns, Running, User
    <3>2. UserOK(p) BY <3>1, <2>s DEF UsersOK
    <3>3. CASE user[p].pc = "wait" BY <2>1, <3>1, <3>2, <3>3 DEF UserOK
    <3>4. CASE user[p].pc # "wait"
      <4>1. /\ d0[p] = Callee(user[p].pc)
            /\ \E v \in Values(user[p].pc) : msg[p] = Answer(user[p].pc, v)
        BY <2>1, <3>1, <3>2, <3>4 DEF UserOK
      <4>2. Values(user[p].pc) \subseteq Pid \cup {NONE} BY Who DEF Values
      <4>. QED BY <3>4, <4>1, <4>2 DEF Answer
    <3>. QED BY <3>3, <3>4
  <2>2. ASSUME SysAt("kill") PROVE d0[SYSTEM] = VFS /\ msg[SYSTEM] = Answer("vfs", 0)
    BY <2>2, <2>s DEF SysAt, Running, SysOK, SysCallOK
  <2>. QED BY <2>1, <2>2 DEF AnswersMatch
<1>. QED BY <1>1, SystemInvariance, PTL

\* A server that blocks listens to everybody, or is the system task that calls
\* the file system server: no client can hold a server.
THEOREM ServersServeTheorem == ASSUME Quiet PROVE SystemSpec => []ServersServe
<1>1. ASSUME SInv PROVE ServersServe
  <2>s. /\ ThreadsOK /\ VfsOK /\ SysOK BY <1>1 DEF SInv
  <2>1. state[VFS] = "blocked" => m_to[VFS] = NONE /\ m_from[VFS] = ANY
    BY <2>s DEF VfsOK
  <2>2. ASSUME state[SYSTEM] = "blocked" PROVE m_from[SYSTEM] \in {ANY, VFS}
    <3>1. sys.pc \in {"got", "kill", "answer"}
      BY <2>2, <2>s DEF SysOK, SysIdleOK, ThreadsOK
    <3>. QED BY <3>1, <2>2, <2>s DEF SysOK, SysGotOK, SysCallOK
  <2>. QED BY <2>1, <2>2 DEF ServersServe
<1>. QED BY <1>1, SystemInvariance, PTL

\* wait returns when the child has stopped, and that child, still stopped, is
\* the one that is then killed.
THEOREM WaitedForTheorem == ASSUME Quiet PROVE SystemSpec => []WaitedFor
<1>1. ASSUME SInv PROVE WaitedFor
  <2>s. FamilyOK BY <1>1 DEF SInv
  <2>1. ASSUME NEW p \in Pid, ~IsTask(p), state[p] = "ready",
               \/ user[p].pc = "wait" /\ user[p].in
               \/ user[p].pc = "kill" /\ ~user[p].in
        PROVE  state[user[p].kid] = "stopped" /\ ppid[user[p].kid] = p
    <3>1. WaitOK(p) /\ KillOK(p) BY <2>1, <2>s DEF FamilyOK, User
    <3>. QED BY <2>1, <3>1 DEF WaitOK, KillOK, Killed
  <2>. QED BY <2>1 DEF WaitedFor
<1>. QED BY <1>1, SystemInvariance, PTL
=============================================================================
