------------------------------- MODULE System -------------------------------
(***************************************************************************)
(* The kernel with the processes that run on it: the system task           *)
(* (kernel/system.c), the file system server as the others see it          *)
(* (kernel/vfs.c: one request at a time, one answer each), and user        *)
(* processes that run the programs bin/init.c and bin/sh.c, or a program   *)
(* that makes one file system call and exits.  Every step is a step of     *)
(* Proc; this module says who calls whom, when, with which message, and    *)
(* what a process does with the answer.                                    *)
(***************************************************************************)
EXTENDS Proc

CONSTANTS VFS,      \* pid of the file system server
          Faults,   \* may a program take an exception
          Prompt    \* a program outlives the call of its parent to wait

ASSUME SystemAssumption == VFS \in TaskPids /\ {Faults, Prompt} \subseteq BOOLEAN

VARIABLES
  sys,     \* system_task: its pc, the process it serves, the request, the child
  vfs,     \* vfs_task: its pc
  user     \* user programs: the program, its pc, inside the call?, the child

threads == <<sys, vfs, user>>
svars   == <<vars, threads>>

-----------------------------------------------------------------------------
(* Messages.  KILL and VFS_KILL name a process; an answer is taken for the *)
(* answer to whatever the receiver asked: re is what it does answer.       *)

Requests == {"vfs", "fork", "exec", "wait", "kill", "exit", "none"}

Message == [type : Requests, pid : Pid \cup {NONE}] \cup
           [type : {"answer"}, re : Requests, val : Pid \cup {NONE}]

Request(t, p) == [type |-> t, pid |-> p]
Answer(t, v)  == [type |-> "answer", re |-> t, val |-> v]

ASSUME MessageAssumption == Msg = Message /\ NoMsg = Request("none", NONE)

-----------------------------------------------------------------------------
(* The system task.                                                        *)

SysAt(l)        == Running(SYSTEM) /\ sys.pc = l
SysGo(l)        == sys' = [sys EXCEPT !.pc = l]
Serve(l, t, c)  == sys' = [pc |-> l, from |-> d0[SYSTEM], req |-> t, child |-> c]

\* Boot: the server is created; once it listens (the system task yields until
\* then), init is created, loaded and signalled.
SysBoot ==
  /\ \/ SysAt("boot") /\ CreateTask(VFS) /\ SysGo("init")
     \/ /\ SysAt("init") /\ state[VFS] = "blocked"
        /\ CreateInit
        /\ sys' = [sys EXCEPT !.pc = "start", !.child = links.free]
     \/ SysAt("start") /\ StartInit(sys.child) /\ SysGo("recv")
  /\ UNCHANGED <<vfs, user>>

SysReceive ==
  /\ SysAt("recv") /\ Receive(SYSTEM) /\ SysGo("got")
  /\ UNCHANGED <<vfs, user>>

\* The receive has returned a message of type t.
SysGot(t) == SysAt("got") /\ d0[SYSTEM] >= 0 /\ msg[SYSTEM].type = t

\* A receive that a signal interrupts resets the machine.
SysReset ==
  /\ SysAt("got") /\ d0[SYSTEM] < 0 /\ SysGo("reset")
  /\ UNCHANGED <<vars, vfs, user>>

SysIllegal ==
  /\ \E t \in {"answer", "vfs", "none"} : SysGot(t)
  /\ SysGo("recv") /\ UNCHANGED <<vars, vfs, user>>

\* Faulty variant: it stops the process on the CPU, as an exception does.
SysExitRunning ==
  /\ SysGot("exit") /\ ProcExit(cur) /\ SysGo("recv")
  /\ UNCHANGED <<vfs, user>>

SysExit ==
  /\ SysGot("exit") /\ Exit(d0[SYSTEM]) /\ SysGo("recv")
  /\ UNCHANGED <<vfs, user>>

SysWait ==
  /\ SysGot("wait") /\ WaitChild(d0[SYSTEM]) /\ SysGo("recv")
  /\ UNCHANGED <<vfs, user>>

\* The child is inside the same call, at the same point of the same program.
SysFork ==
  /\ SysGot("fork") /\ Fork(d0[SYSTEM])
  /\ Serve("vfs", "fork", links.free)
  /\ user' = [user EXCEPT ![links.free] = user[d0[SYSTEM]]]
  /\ UNCHANGED vfs

SysForkFails ==
  /\ SysGot("fork") /\ links.free = NULL
  /\ Serve("answer", "fork", NONE)
  /\ UNCHANGED <<vars, vfs, user>>

\* The image is read through the server (open, read, seek and close: one call
\* stands for them) unless the arguments are refused first.
SysExec ==
  /\ SysGot("exec")
  /\ Serve("vfs", "exec", d0[SYSTEM]) \/ Serve("answer", "exec", NONE)
  /\ UNCHANGED <<vars, vfs, user>>

\* The process has its files closed, then goes.
SysKill ==
  /\ SysGot("kill") /\ Serve("vfs", "kill", msg[SYSTEM].pid)
  /\ UNCHANGED <<vars, vfs, user>>

SysCallVfs ==
  /\ SysAt("vfs") /\ Call(SYSTEM, VFS, Request("vfs", sys.child))
  /\ SysGo(IF sys.req = "kill" THEN "kill" ELSE "answer")
  /\ UNCHANGED <<vfs, user>>

\* Faulty variant: the call to the server is made again when a signal has cut
\* it short, after the process is gone.
SysKillEndsRetry ==
  /\ SysAt("kill") /\ Kill(sys.child)
  /\ SysGo(IF d0[SYSTEM] = VFS THEN "answer" ELSE "vfs")
  /\ UNCHANGED <<vfs, user>>

SysKillEnds ==
  /\ SysAt("kill") /\ Kill(sys.child) /\ SysGo("answer")
  /\ UNCHANGED <<vfs, user>>

\* The answer: the child's pid to the parent, 0 to the child; 0 or an error.
SysAnswer ==
  /\ SysAt("answer")
  /\ \E v \in CASE sys.req = "fork" -> {sys.child}
                [] sys.req = "exec" -> IF sys.child = NONE THEN {NONE} ELSE {0, NONE}
                [] sys.req = "kill" -> {0} :
       Send(SYSTEM, sys.from, Answer(sys.req, v))
  /\ SysGo(IF sys.req = "fork" /\ sys.child # NONE THEN "child" ELSE "recv")
  /\ UNCHANGED <<vfs, user>>

SysAnswerChild ==
  /\ SysAt("child") /\ Send(SYSTEM, sys.child, Answer("fork", 0)) /\ SysGo("recv")
  /\ UNCHANGED <<vfs, user>>

SystemTask ==
  \/ SysBoot \/ SysReceive \/ SysReset \/ SysIllegal
  \/ SysExit \/ SysWait \/ SysFork \/ SysForkFails \/ SysExec \/ SysKill
  \/ SysCallVfs \/ SysKillEnds \/ SysAnswer \/ SysAnswerChild

-----------------------------------------------------------------------------
(* The file system server: receive, serve, answer.                         *)

\* Faulty variants: the server waits for the client to call again when it
\* answers; it does not answer.
VfsTaskWaits ==
  /\ Running(VFS)
  /\ \/ vfs = "recv" /\ Receive(VFS) /\ vfs' = "got"
     \/ vfs = "got" /\ d0[VFS] >= 0 /\ vfs' = "got"
        /\ Call(VFS, d0[VFS], Answer("vfs", 0))
  /\ UNCHANGED <<sys, user>>

VfsTaskSilent ==
  /\ Running(VFS)
  /\ \/ vfs = "recv" /\ Receive(VFS) /\ vfs' = "got"
     \/ vfs = "got" /\ d0[VFS] >= 0 /\ vfs' = "recv" /\ UNCHANGED vars
  /\ UNCHANGED <<sys, user>>

VfsTask ==
  /\ Running(VFS)
  /\ \/ vfs = "recv" /\ Receive(VFS) /\ vfs' = "got"
     \/ vfs = "got" /\ d0[VFS] >= 0 /\ vfs' = "recv"
        /\ Send(VFS, d0[VFS], Answer("vfs", 0))
  /\ UNCHANGED <<sys, user>>

-----------------------------------------------------------------------------
(* User programs.  pc is the call to make or, inside, the call being made. *)

UserRuns(p) == Running(p) /\ ~IsTask(p)

\* p calls wait and has not been woken.
InWait(p) == state[p] = "blocked" /\ user[p].in /\ user[p].pc = "wait"

MayEnd(p) == Prompt => InWait(ppid[p])

Callee(call) == IF call = "vfs" THEN VFS ELSE SYSTEM

UserCalls(p) ==
  /\ UserRuns(p) /\ ~user[p].in /\ user[p].pc # "none"
  /\ user[p].pc = "exit" => MayEnd(p)
  /\ Trap(p, Callee(user[p].pc), Request(user[p].pc, user[p].kid))
  /\ user' = [user EXCEPT ![p].in = TRUE]
  /\ UNCHANGED <<sys, vfs>>

\* What the libc wrapper returns: an error unless the callee has answered.
Value(p) == IF d0[p] = Callee(user[p].pc) THEN msg[p].val ELSE NONE

\* init and the shell print (a file system call), fork, and in the parent
\* wait for the child and kill it.  The child execs the shell or a program;
\* if that fails, the shell's child exits and init's starts over as init.
Resume(prog, call, k) == [prog |-> prog, pc |-> call, in |-> FALSE, kid |-> k]

After(u, v) ==
  CASE u.pc = "vfs"  -> {Resume(u.prog, IF u.prog = "leaf" THEN "exit" ELSE "fork", NONE)}
    [] u.pc = "fork" -> {IF v = NONE THEN Resume(u.prog, "vfs", NONE)
                         ELSE IF v = 0 THEN Resume(u.prog, "exec", NONE)
                         ELSE Resume(u.prog, "wait", v)}
    [] u.pc = "wait" -> {Resume(u.prog, "kill", u.kid)}
    [] u.pc = "kill" -> {Resume(u.prog, "vfs", NONE)}
    [] u.pc = "exec" /\ v = 0    -> {Resume("shell", "vfs", NONE),
                                     Resume("leaf", "vfs", NONE)}
    [] u.pc = "exec" /\ v = NONE -> {Resume(u.prog, IF u.prog = "init" THEN "vfs"
                                                    ELSE "exit", NONE)}
    [] u.pc = "exit" -> {Resume(u.prog, "none", NONE)}    \* while(1)

UserReturns(p) ==
  /\ UserRuns(p) /\ user[p].in
  /\ \E u \in After(user[p], Value(p)) : user' = [user EXCEPT ![p] = u]
  /\ UNCHANGED <<vars, sys, vfs>>

\* The user types exit instead of a command.
ShellEnds(p) ==
  /\ UserRuns(p) /\ ~user[p].in /\ user[p].prog = "shell" /\ user[p].pc = "fork"
  /\ user' = [user EXCEPT ![p].pc = "exit"]
  /\ UNCHANGED <<vars, sys, vfs>>

\* The program takes an exception, and takes it again until it is replaced.
LeafFaults(p) ==
  /\ Faults /\ user[p].prog = "leaf" /\ ~user[p].in
  /\ state[p] = "ready" => MayEnd(p)
  /\ Fault(p)
  /\ UNCHANGED threads

UserProgram(p) == UserCalls(p) \/ UserReturns(p) \/ ShellEnds(p)

-----------------------------------------------------------------------------

SystemInit ==
  /\ Init
  /\ sys = [pc |-> "boot", from |-> NONE, req |-> "none", child |-> NONE]
  /\ vfs = "recv"
  /\ user = [p \in Pid |-> Resume("init", "vfs", NONE)]

Interrupt    == (SysIrq \/ SysIrqEnd) /\ UNCHANGED threads
TaskBack(p)  == TaskReturn(p) /\ UNCHANGED threads
CtrlAltDel   == Alarm(SYSTEM) /\ UNCHANGED threads

SystemNext ==
  \/ Interrupt \/ SystemTask \/ VfsTask \/ CtrlAltDel
  \/ \E p \in Pid : TaskBack(p) \/ UserProgram(p) \/ LeafFaults(p)

SystemSpec == SystemInit /\ [][SystemNext]_svars

\* What process p does when it has the CPU.
Step(p) ==
  \/ TaskBack(p) \/ UserProgram(p)
  \/ p = SYSTEM /\ SystemTask
  \/ p = VFS /\ VfsTask

\* Interrupts keep coming.  A time slice is longer than any one step, so a
\* process that is dispatched over and over takes its step.
Fairness == WF_svars(Interrupt) /\ \A p \in Pid \ {IDLE} : SF_svars(Step(p))

FairSpec == SystemSpec /\ Fairness

-----------------------------------------------------------------------------
(* Properties.                                                             *)

\* A process that comes back from a call has the answer to that very call,
\* from the process it called; only wait comes back without an answer.  The
\* same holds for the system task as a client of the server.
AnswersMatch ==
  /\ \A p \in Pid : UserRuns(p) /\ user[p].in =>
       IF user[p].pc = "wait" THEN d0[p] = EABORT
       ELSE d0[p] = Callee(user[p].pc) /\ msg[p] \in
              [type : {"answer"}, re : {user[p].pc}, val : Pid \cup {NONE}]
  /\ SysAt("kill") => d0[SYSTEM] = VFS /\ msg[SYSTEM] = Answer("vfs", 0)

\* A server never blocks on its clients: it waits to receive from anybody, or
\* the system task calls the server.  (One client that does not come back
\* for its answer would stop every other.)
ServersServe ==
  /\ state[VFS] = "blocked" => m_to[VFS] = NONE /\ m_from[VFS] = ANY
  /\ state[SYSTEM] = "blocked" => m_from[SYSTEM] \in {ANY, VFS}

\* wait returns when the child has stopped and not before, and it is that
\* child, still stopped, that is then killed.
WaitedFor ==
  \A p \in Pid :
    ( /\ ~IsTask(p) /\ state[p] = "ready"
      /\ \/ user[p].pc = "wait" /\ user[p].in
         \/ user[p].pc = "kill" /\ ~user[p].in )
      => state[user[p].kid] = "stopped" /\ ppid[user[p].kid] = p

\* The system task never frees a slot that is free already: the code does not
\* refuse a pid that is not in use, only the programs see to it.  This must
\* hold even when signals cut calls short.
KillsOnce == SysAt("kill") => sys.child # NONE /\ state[sys.child] # "none"

\* Every call other than wait and exit comes back.
CallsReturn ==
  \A p \in Pid : user[p].in /\ user[p].pc \notin {"wait", "exit"} ~> ~user[p].in

\* A stopped process is removed from the table in the end.
ZombiesGo == \A p \in Pid : state[p] = "stopped" ~> state[p] = "none"

\* Round robin: a process that is ready gets the CPU.  (The rotation can pass
\* over the process behind one that blocks, so this is not immediate.)
ReadyRuns == \A p \in Pid \ {IDLE} : state[p] = "ready" ~> cur = p
=============================================================================
