------------------------------ MODULE ProcList ------------------------------
(***************************************************************************)
(* The two intrusive lists of kernel/proc.c.  Every slot of the process    *)
(* table carries one next and one prev pointer; the same pair links the    *)
(* slot into the ready list or into the free list, never into both.  Both  *)
(* lists are circular and doubly linked, and each is entered through one   *)
(* pointer: _proc_ready (the process that runs) and _proc_free.            *)
(*                                                                         *)
(* The operations are functions of a record [next, prev, ready, free],     *)
(* because one kernel entry runs several of them in one critical section.  *)
(*                                                                         *)
(* A definition introduced as a faulty variant is used by no               *)
(* specification: put in the place of the one after it, it shows that a    *)
(* property tells the two apart (see README).                              *)
(***************************************************************************)
EXTENDS Integers

CONSTANT K_PROC_COUNT      \* slots of the process table

ASSUME ProcCountAssumption == K_PROC_COUNT \in Nat /\ K_PROC_COUNT > 2

NULL == -1
Pid  == 0..(K_PROC_COUNT - 1)

LinksType == [next  : [Pid -> Pid \cup {NULL}],
              prev  : [Pid -> Pid \cup {NULL}],
              ready : Pid \cup {NULL},
              free  : Pid \cup {NULL}]

-----------------------------------------------------------------------------
(* Pointer surgery shared by the four operations.                          *)

\* p is linked just after h in the circular list that h belongs to.
LinkAfter(L, h, p) ==
  [L EXCEPT !.next = [L.next EXCEPT ![p] = L.next[h], ![h] = p],
            !.prev = [L.prev EXCEPT ![p] = h, ![L.next[h]] = p]]

\* p becomes the only member of a circular list.
LinkAlone(L, p) ==
  [L EXCEPT !.next = [L.next EXCEPT ![p] = p],
            !.prev = [L.prev EXCEPT ![p] = p]]

\* The neighbours of p are linked to each other; p's own pointers stay.
Unlink(L, p) ==
  [L EXCEPT !.next = [L.next EXCEPT ![L.prev[p]] = L.next[p]],
            !.prev = [L.prev EXCEPT ![L.next[p]] = L.prev[p]]]

-----------------------------------------------------------------------------
(* The operations.                                                         *)

\* A process that becomes ready is put second: it runs next, unless the
\* running process leaves the list by blocking (see RemoveReady).
AddReady(L, p) ==
  IF L.ready = NULL
  THEN [LinkAlone(L, p) EXCEPT !.ready = p]
  ELSE LinkAfter(L, L.ready, p)

\* If the head leaves, its successor becomes the head.  The last process is
\* never removed (the code panics there): idle never leaves, see IdleReady of
\* SystemProofs.
RemoveReady(L, p) ==
  LET U == Unlink(L, p) IN
  [U EXCEPT !.next  = [U.next EXCEPT ![p] = NULL],
            !.prev  = [U.prev EXCEPT ![p] = NULL],
            !.ready = IF L.ready = p THEN L.next[p] ELSE L.ready]

AddFree(L, p) ==
  IF L.free = NULL
  THEN [LinkAlone(L, p) EXCEPT !.free = p]
  ELSE LinkAfter(L, L.free, p)

\* Faulty variant: the neighbours keep pointing to the slot that leaves.
RemoveFreeHeadOnly(L, p) ==
  [L EXCEPT !.free = IF L.prev[p] = p THEN NULL ELSE L.next[p]]

\* The pointers of the slot that leaves are not cleared, and the head moves
\* to its successor whether or not it was the head.
RemoveFree(L, p) ==
  IF L.prev[p] = p
  THEN [L EXCEPT !.free = NULL]
  ELSE [Unlink(L, p) EXCEPT !.free = L.next[p]]

-----------------------------------------------------------------------------
(* What a well-formed list is.                                             *)

\* S is closed under the pointers, which are inverse to each other on S.
Linked(L, S) ==
  \A p \in S : /\ L.next[p] \in S
               /\ L.prev[p] \in S
               /\ L.prev[L.next[p]] = p
               /\ L.next[L.prev[p]] = p

\* S is one cycle: no proper part of it is closed under next.
OneCycle(L, S) ==
  \A T \in SUBSET S :
    (T # {} /\ \A p \in T : L.next[p] \in T) => T = S

\* The list entered at head holds exactly the members of S, once each.
Ring(L, head, S) ==
  /\ IF S = {} THEN head = NULL ELSE head \in S
  /\ Linked(L, S)
  /\ OneCycle(L, S)
=============================================================================
