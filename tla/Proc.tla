-------------------------------- MODULE Proc --------------------------------
(***************************************************************************)
(* The process table of the kernel (kernel/proc.c) with the paths that     *)
(* enter it: the system call trap, the system interrupt that reschedules,  *)
(* the device interrupts that post signals, and the calls the system task  *)
(* makes to create, fork, stop and free processes.                         *)
(*                                                                         *)
(* A process communicates by rendezvous only: sendreceive copies one       *)
(* message from a sender to a receiver when both are there, and blocks the *)
(* caller otherwise.  User processes always send and receive (scall.c);    *)
(* tasks also send only or receive only.                                   *)
(*                                                                         *)
(* What the processes do with the messages is left open here: whichever    *)
(* process runs may make any call its kind can make.  The message itself   *)
(* is the pid of the process that wrote it.                                *)
(***************************************************************************)
EXTENDS ProcList

CONSTANTS TaskPids,     \* tasks created at boot next to the system task
          Signalled,    \* processes a device interrupt may post SIGALRM to
          Msg, NoMsg    \* contents of a message; an unused buffer

SYSTEM == 0
IDLE   == K_PROC_COUNT - 1

ASSUME ProcAssumption ==
  /\ TaskPids \subseteq 1..(K_PROC_COUNT - 2)
  /\ Signalled \subseteq 0..(K_PROC_COUNT - 2)
  /\ NoMsg \in Msg

NONE   == -1            \* PROC_PID_NONE
ANY    == -2            \* PROC_PID_ANY
ELOCK  == -1            \* results of sendreceive that are no pid
EABORT == -2
SEND   == "send"        \* the operations of sendreceive
RECV   == "recv"
KERNEL == "kernel"      \* owners: a task, or root (and so every user process)
ROOT   == "root"

VARIABLES
  links,      \* list pointers, _proc_ready and _proc_free
  cur,        \* _proc_ptr: the process whose context is on the CPU
  irq,        \* progress of the system interrupt handler
  pick,       \* the process the handler has read from the ring
  state, m_from, m_to, sig_mask, ppid, uid,    \* fields of proc_desc_t
  d0,         \* result of the last call of each process
  ops,        \* operations of a task's call that has blocked and not returned
  msg         \* content of the message buffer of each process

ipc   == <<m_from, m_to, d0, msg>>
vars  == <<links, cur, irq, pick, state, sig_mask, ppid, uid, ops, ipc>>

States == {"none", "blocked", "ready", "stopped"}

TypeOK ==
  /\ links \in LinksType
  /\ cur \in Pid
  /\ irq \in {"off", "yield", "pick", "idle", "pick2"}
  /\ pick \in Pid \cup {NULL}
  /\ state \in [Pid -> States]
  /\ m_from \in [Pid -> Pid \cup {NONE, ANY}]
  /\ m_to \in [Pid -> Pid \cup {NONE}]
  /\ sig_mask \in [Pid -> SUBSET {"alrm", "child"}]
  /\ ppid \in [Pid -> Pid]
  /\ uid \in [Pid -> {KERNEL, ROOT}]
  /\ d0 \in [Pid -> Pid \cup {ELOCK, EABORT}]
  /\ ops \in [Pid -> SUBSET {SEND, RECV}]
  /\ msg \in [Pid -> Msg]

Is(s)     == {p \in Pid : state[p] = s}
IsTask(p) == uid[p] = KERNEL

\* p executes, outside any kernel entry.
Running(p) == cur = p /\ irq = "off" /\ state[p] = "ready" /\ ops[p] = {}

-----------------------------------------------------------------------------
(* Boot: proc_init, then the system task is created and scheduled.         *)

\* Faulty variant: the next pointer of the last slot is not brought round.
BootLinksOpen ==
  LET all  == [next  |-> [p \in Pid |-> p + 1],
               prev  |-> [p \in Pid |-> IF p = 0 THEN IDLE ELSE p - 1],
               ready |-> NULL,
               free  |-> 0]
      idle == AddReady(RemoveFree(all, IDLE), IDLE)
      sys  == AddReady(RemoveFree(idle, SYSTEM), SYSTEM)
  IN  [sys EXCEPT !.ready = SYSTEM]

BootLinks ==
  LET all  == [next  |-> [p \in Pid |-> IF p = IDLE THEN 0 ELSE p + 1],
               prev  |-> [p \in Pid |-> IF p = 0 THEN IDLE ELSE p - 1],
               ready |-> NULL,
               free  |-> 0]
      idle == AddReady(RemoveFree(all, IDLE), IDLE)
      sys  == AddReady(RemoveFree(idle, SYSTEM), SYSTEM)
  IN  [sys EXCEPT !.ready = SYSTEM]

Init ==
  /\ links = BootLinks
  /\ cur = SYSTEM
  /\ irq = "off"
  /\ pick = NULL
  /\ state = [p \in Pid |-> IF p \in {SYSTEM, IDLE} THEN "ready" ELSE "none"]
  /\ m_from = [p \in Pid |-> 0]
  /\ m_to = [p \in Pid |-> 0]
  /\ sig_mask = [p \in Pid |-> {}]
  /\ ppid = [p \in Pid |-> 0]
  /\ uid = [p \in Pid |-> KERNEL]
  /\ d0 = [p \in Pid |-> 0]
  /\ ops = [p \in Pid |-> {}]
  /\ msg = [p \in Pid |-> NoMsg]

-----------------------------------------------------------------------------
(* Rescheduling.                                                           *)

\* proc_schedule(ANY), with the second chance given when it finds idle.
RunNext(L) ==
  LET n == L.next[L.ready] IN IF n = IDLE THEN L.next[n] ELSE n

\* Faulty variant: the rotation does not advance.
SysIrqSamePick ==
  /\ irq \in {"off", "yield", "idle"}
  /\ irq' = IF irq = "idle" THEN "pick2" ELSE "pick"
  /\ pick' = links.ready
  /\ UNCHANGED <<links, cur, state, sig_mask, ppid, uid, ops, ipc>>

\* The system interrupt (timer, or the self interrupt of k_yield) saves the
\* context of cur.  proc_schedule reads the ring and then updates it; that a
\* signal may be posted in between is more than srt0.s allows, which leaves
\* the device interrupts masked.
SysIrq ==
  /\ irq \in {"off", "yield", "idle"}
  /\ irq' = IF irq = "idle" THEN "pick2" ELSE "pick"
  /\ pick' = links.next[links.ready]
  /\ UNCHANGED <<links, cur, state, sig_mask, ppid, uid, ops, ipc>>

\* Faulty variant: the context is switched, the head of the ring is not.
SysIrqEndHeadStays ==
  /\ irq \in {"pick", "pick2"}
  /\ cur' = pick
  /\ irq' = IF irq = "pick" /\ pick = IDLE THEN "idle" ELSE "off"
  /\ pick' = NULL
  /\ UNCHANGED <<links, state, sig_mask, ppid, uid, ops, ipc>>

SysIrqEnd ==
  /\ irq \in {"pick", "pick2"}
  /\ links' = [links EXCEPT !.ready = pick]
  /\ cur' = pick
  /\ irq' = IF irq = "pick" /\ pick = IDLE THEN "idle" ELSE "off"
  /\ pick' = NULL
  /\ UNCHANGED <<state, sig_mask, ppid, uid, ops, ipc>>

-----------------------------------------------------------------------------
(* sendreceive, called by p.                                               *)

\* Faulty variant: only a receiver that names p accepts.
AcceptsNamed(q, p) == state[q] = "blocked" /\ m_from[q] = p

\* q is blocked and will take a message from p.
Accepts(q, p) == state[q] = "blocked" /\ m_from[q] \in {p, ANY}

\* Who is blocked sending to p.
Senders(p) == {q \in Pid : state[q] = "blocked" /\ m_to[q] = p}

\* Send only, and q is waiting for it.
SendNow(p, q, m) ==
  /\ Running(p) /\ Accepts(q, p)
  /\ links' = AddReady(links, q)
  /\ state' = [state EXCEPT ![q] = "ready"]
  /\ m_from' = [m_from EXCEPT ![q] = p, ![p] = NONE]
  /\ m_to' = [m_to EXCEPT ![p] = NONE]
  /\ d0' = [d0 EXCEPT ![q] = p, ![p] = q]
  /\ msg' = [msg EXCEPT ![q] = m, ![p] = m]
  /\ UNCHANGED <<cur, irq, pick, sig_mask, ppid, uid, ops>>

\* q is itself blocked sending to p: the call fails, m_to stays set.
SendLocked(p, q, m) ==
  /\ Running(p) /\ ~Accepts(q, p) /\ q \in Senders(p)
  /\ m_to' = [m_to EXCEPT ![p] = q]
  /\ d0' = [d0 EXCEPT ![p] = ELOCK]
  /\ msg' = [msg EXCEPT ![p] = m]
  /\ UNCHANGED <<links, cur, irq, pick, state, sig_mask, ppid, uid, ops, m_from>>

\* Faulty variant: a sender is released when its message is taken, whatever it
\* has still to receive.
OnlySendsAlways(s) == TRUE

\* s has no answer to wait for.
OnlySends(s) == m_from[s] = NONE

\* Receive only, and somebody is blocked sending: the lowest pid is served.
\* The sender stays blocked if it still has an answer to wait for.
RecvNow(p) ==
  \E s \in Senders(p) :
    /\ Running(p)
    /\ \A r \in Senders(p) : s <= r
    /\ links' = IF OnlySends(s) THEN AddReady(links, s) ELSE links
    /\ state' = IF OnlySends(s) THEN [state EXCEPT ![s] = "ready"] ELSE state
    /\ m_from' = [m_from EXCEPT ![p] = NONE]
    /\ m_to' = [m_to EXCEPT ![s] = NONE, ![p] = NONE]
    /\ d0' = [d0 EXCEPT ![s] = p, ![p] = s]
    /\ msg' = [msg EXCEPT ![p] = msg[s]]
    /\ UNCHANGED <<cur, irq, pick, sig_mask, ppid, uid, ops>>

\* Something is left to do: p blocks, or, with a signal pending, gives up.
\* SIGALRM is consumed by this, SIGCHILD is not.  A user process is replaced
\* on the CPU at once; a task raises the self interrupt and returns later.
Wait(p, q, o, m) ==
  LET now  == SEND \in o /\ Accepts(q, p)     \* the send part is done here
      L    == IF now THEN AddReady(links, q) ELSE links
      st   == IF now THEN [state EXCEPT ![q] = "ready"] ELSE state
      mf   == IF now THEN [m_from EXCEPT ![q] = p] ELSE m_from
      r    == IF now THEN [d0 EXCEPT ![q] = p] ELSE d0
      left == IF SEND \in o /\ ~now THEN q ELSE NONE
      quit == sig_mask[p] # {}
      K    == IF quit THEN L ELSE RemoveReady(L, p)
      n    == IF IsTask(p) THEN K.ready ELSE RunNext(K)
  IN
  /\ Running(p)
  /\ SEND \in o => now \/ q \notin Senders(p)
  /\ o = {SEND} => ~now
  /\ o = {RECV} => q = ANY /\ Senders(p) = {}
  /\ links' = [K EXCEPT !.ready = n]
  /\ state' = IF quit THEN st ELSE [st EXCEPT ![p] = "blocked"]
  /\ m_from' = [mf EXCEPT ![p] = IF quit \/ RECV \notin o THEN NONE ELSE q]
  /\ m_to' = [m_to EXCEPT ![p] = IF quit THEN NONE ELSE left]
  /\ d0' = IF quit THEN [r EXCEPT ![p] = EABORT] ELSE r
  /\ msg' = IF SEND \notin o THEN msg
            ELSE IF now THEN [msg EXCEPT ![p] = m, ![q] = m]
            ELSE [msg EXCEPT ![p] = m]
  /\ sig_mask' = [sig_mask EXCEPT ![p] = @ \ {"alrm"}]
  /\ IF IsTask(p)
     THEN irq' = "yield" /\ ops' = [ops EXCEPT ![p] = o] /\ cur' = cur
     ELSE irq' = "off" /\ ops' = ops /\ cur' = n
  /\ UNCHANGED <<pick, ppid, uid>>

\* A task that had blocked (or given up) runs again and computes its result.
TaskReturn(p) ==
  /\ cur = p /\ irq = "off" /\ ops[p] # {}
  /\ LET peer == IF RECV \in ops[p] THEN m_from[p] ELSE m_to[p]
     IN  d0' = [d0 EXCEPT ![p] = IF peer # NONE THEN peer ELSE EABORT]
  /\ ops' = [ops EXCEPT ![p] = {}]
  /\ UNCHANGED <<links, cur, irq, pick, state, sig_mask, ppid, uid,
                 m_from, m_to, msg>>

-----------------------------------------------------------------------------
(* Signals.                                                                *)

\* proc_sig(p, s) in a critical section that starts from links L and states
\* st.  A blocked process is released with EABORT and the signal is not kept;
\* a ready one keeps it; the others lose it.
ProcSig(L, st, p, s) ==
  /\ links' = IF st[p] = "blocked" THEN AddReady(L, p) ELSE L
  /\ state' = IF st[p] = "blocked" THEN [st EXCEPT ![p] = "ready"] ELSE st
  /\ m_from' = IF st[p] = "blocked" THEN [m_from EXCEPT ![p] = NONE] ELSE m_from
  /\ m_to' = IF st[p] = "blocked" THEN [m_to EXCEPT ![p] = NONE] ELSE m_to
  /\ d0' = IF st[p] = "blocked" THEN [d0 EXCEPT ![p] = EABORT] ELSE d0
  /\ sig_mask' = IF st[p] = "ready" THEN [sig_mask EXCEPT ![p] = @ \cup {s}]
                                    ELSE sig_mask

\* A device interrupt (timer, keyboard, mouse) posts SIGALRM.  It nests in
\* everything that is not masked, the system interrupt handler included.
Alarm(p) ==
  /\ p \in Signalled /\ state[p] # "none"
  /\ ProcSig(links, state, p, "alrm")
  /\ UNCHANGED <<cur, irq, pick, ppid, uid, ops, msg>>

\* Faulty variants: the process that stops stays linked in the ready ring; it
\* is not stopped; its parent is not told.
ProcExitLinked(p) ==
  /\ ProcSig(links, [state EXCEPT ![p] = "stopped"], ppid[p], "child")
  /\ UNCHANGED <<cur, irq, pick, ppid, uid, ops, msg>>

ProcExitSignals(p) ==
  /\ ProcSig(links, state, ppid[p], "child")
  /\ UNCHANGED <<cur, irq, pick, ppid, uid, ops, msg>>

ProcExitSilent(p) ==
  /\ links' = IF state[p] = "ready" THEN RemoveReady(links, p) ELSE links
  /\ state' = [state EXCEPT ![p] = "stopped"]
  /\ UNCHANGED <<cur, irq, pick, sig_mask, ppid, uid, ops, ipc>>

\* proc_exit: p stops and its parent is told.
ProcExit(p) ==
  /\ ProcSig(IF state[p] = "ready" THEN RemoveReady(links, p) ELSE links,
             [state EXCEPT ![p] = "stopped"], ppid[p], "child")
  /\ UNCHANGED <<cur, irq, pick, ppid, uid, ops, msg>>

\* A user process takes an exception: the handler stops it and calls
\* proc_schedule(PROC_PID_NONE), which selects nobody.  The process stays on
\* the CPU, and faults again, until the next system interrupt.
Fault(p) ==
  /\ cur = p /\ irq = "off" /\ ~IsTask(p)
  /\ ProcExit(p)

-----------------------------------------------------------------------------
(* Life cycle: calls of the system task.                                   *)

Fresh(p, owner, st) ==
  /\ state' = [state EXCEPT ![p] = st]
  /\ uid' = [uid EXCEPT ![p] = owner]
  /\ ppid' = [ppid EXCEPT ![p] = SYSTEM]
  /\ sig_mask' = [sig_mask EXCEPT ![p] = {}]
  /\ d0' = [d0 EXCEPT ![p] = 0]
  /\ ops' = [ops EXCEPT ![p] = {}]
  /\ msg' = [msg EXCEPT ![p] = NoMsg]
  /\ UNCHANGED <<cur, irq, pick>>

CreateTask(p) ==
  /\ Running(SYSTEM) /\ state[p] = "none"
  /\ links' = AddReady(RemoveFree(links, p), p)
  /\ m_from' = [m_from EXCEPT ![p] = 0]
  /\ m_to' = [m_to EXCEPT ![p] = 0]
  /\ Fresh(p, KERNEL, "ready")

\* init is created when every task is there, blocked until it is signalled.
CreateInit ==
  LET p == links.free IN
  /\ Running(SYSTEM) /\ p # NULL
  /\ \A t \in TaskPids : state[t] # "none"
  /\ \A q \in Pid : IsTask(q)
  /\ links' = RemoveFree(links, p)
  /\ m_from' = [m_from EXCEPT ![p] = NONE]
  /\ m_to' = [m_to EXCEPT ![p] = NONE]
  /\ Fresh(p, ROOT, "blocked")

\* The start of init: its image is loaded, then it is signalled.
StartInit(p) ==
  /\ Running(SYSTEM) /\ ~IsTask(p) /\ ppid[p] = SYSTEM /\ state[p] = "blocked"
  /\ ProcSig(links, state, p, "alrm")
  /\ UNCHANGED <<cur, irq, pick, ppid, uid, ops, msg>>

\* The child is a copy of the parent, whatever state the parent is in, except
\* that it is blocked.  (Running out of memory: see
\* Mem.)
Fork(p) ==
  LET c == links.free IN
  /\ Running(SYSTEM) /\ ~IsTask(p) /\ state[p] # "none" /\ c # NULL
  /\ links' = RemoveFree(links, c)
  /\ state' = [state EXCEPT ![c] = "blocked"]
  /\ ppid' = [ppid EXCEPT ![c] = p]
  /\ uid' = [uid EXCEPT ![c] = uid[p]]
  /\ sig_mask' = [sig_mask EXCEPT ![c] = sig_mask[p]]
  /\ m_from' = [m_from EXCEPT ![c] = m_from[p]]
  /\ m_to' = [m_to EXCEPT ![c] = m_to[p]]
  /\ d0' = [d0 EXCEPT ![c] = d0[p]]
  /\ msg' = [msg EXCEPT ![c] = msg[p]]
  /\ UNCHANGED <<cur, irq, pick, ops>>

Exit(p) ==
  /\ Running(SYSTEM) /\ ~IsTask(p) /\ state[p] # "none"
  /\ ProcExit(p)

WaitChild(p) ==
  /\ Running(SYSTEM) /\ ~IsTask(p) /\ state[p] # "none"
  /\ m_from' = [m_from EXCEPT ![p] = NONE]
  /\ m_to' = [m_to EXCEPT ![p] = NONE]
  /\ UNCHANGED <<links, cur, irq, pick, state, sig_mask, ppid, uid, ops, d0, msg>>

\* Processes blocked on p are not told.  The code does not refuse a pid that is
\* not in use; that no program kills one is KillsOnce of System.
Kill(p) ==
  /\ Running(SYSTEM) /\ ~IsTask(p) /\ state[p] # "none"
  /\ links' = AddFree(IF state[p] = "ready" THEN RemoveReady(links, p)
                                            ELSE links, p)
  /\ state' = [state EXCEPT ![p] = "none"]
  /\ UNCHANGED <<cur, irq, pick, sig_mask, ppid, uid, ops, ipc>>

-----------------------------------------------------------------------------

\* Send and wait for the answer; send only.
Call(p, q, m) == SendLocked(p, q, m) \/ Wait(p, q, {SEND, RECV}, m)
Send(p, q, m) == SendNow(p, q, m) \/ SendLocked(p, q, m) \/ Wait(p, q, {SEND}, m)

\* The calls of a user process go to the system task or to a named task.
Trap(p, q, m)  == ~IsTask(p) /\ Call(p, q, m)
UserCall(p, m) == \E q \in TaskPids \cup {SYSTEM} : Trap(p, q, m)

\* A task answers anybody, calls other tasks, and listens to everybody.
Receive(p)     == RecvNow(p) \/ Wait(p, ANY, {RECV}, NoMsg)
TaskCall(p, m) ==
  /\ IsTask(p) /\ p # IDLE
  /\ \/ \E q \in Pid \ {p, IDLE} : Send(p, q, m)
     \/ \E q \in TaskPids \ {p} : Call(p, q, m)
     \/ Receive(p)

Lifecycle(p) ==
  \/ Fork(p) \/ Exit(p) \/ WaitChild(p) \/ Kill(p) \/ StartInit(p)

Next ==
  \/ SysIrq \/ SysIrqEnd
  \/ CreateInit
  \/ \E p \in TaskPids : CreateTask(p)
  \/ \E p \in Pid : \/ Alarm(p) \/ Fault(p)
                    \/ \E m \in Msg : UserCall(p, m) \/ TaskCall(p, m)
                    \/ TaskReturn(p) \/ Lifecycle(p)

Spec == Init /\ [][Next]_vars

-----------------------------------------------------------------------------
(* Properties.                                                             *)

\* The ready list is one well-formed ring that holds every READY process and
\* nothing else, at every point where the kernel can be interrupted.
ReadyRing == Ring(links, links.ready, Is("ready"))

\* The free list is one well-formed ring that holds every unused slot and
\* nothing else.
FreeRing == Ring(links, links.free, Is("none"))

\* The process on the CPU is the head of the ready ring, so that it is the one
\* that RemoveReady and the rotation take it for.  Two exceptions: a user
\* process that has taken an exception, and a task between the end of
\* sendreceive's critical section and the self interrupt.  While the handler
\* works, what it has read from the ring stays ready whatever signals arrive.
OnCpu ==
  /\ irq = "off" => \/ cur = links.ready
                    \/ state[cur] = "stopped" /\ ~IsTask(cur)
  /\ irq = "yield" => IsTask(cur) /\ ops[cur] # {}
  /\ irq \in {"pick", "pick2"} => pick \in Is("ready")

\* No missed rendezvous: a process blocked sending to q and q blocked with
\* nothing to send and willing to take it never coexist.
NoMissedRendezvous ==
  \A p, q \in Pid : q # p /\ p \in Senders(q) /\ m_to[q] = NONE =>
    ~(state[q] = "blocked" /\ m_from[q] \in {p, ANY})
=============================================================================
