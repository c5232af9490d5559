------------------------------- MODULE Clock -------------------------------
(***************************************************************************)
(* The clock task (kernel/clock.c) and what its clients, the tasks of the  *)
(* terminal and of the mouse, do with it: each posts a SLEEP message with  *)
(* send(), goes back to receive(), and is woken by the timer interrupt     *)
(* with a SIGALRM, which proc_sig turns into an aborted rendezvous or, if  *)
(* the task is not blocked, into a pending signal.  Interrupts may hit     *)
(* between any two steps of a task.                                        *)
(*                                                                         *)
(* The clock compares wake times with its time for equality and never      *)
(* clears them.  Here due[p] counts the timer periods until the two are    *)
(* equal; 0 is a wake time that is not ahead (reached again only when the  *)
(* 32-bit time wraps, after 49 days, which is not modelled).               *)
(***************************************************************************)
EXTENDS Integers, FiniteSets, FiniteSetsExt

CONSTANTS Tty, Mouse,   \* pids of the two tasks that sleep
          Periods       \* timer periods each of them asks for

Clients == {Tty, Mouse}

ASSUME ClockAssumption ==
    /\ Tty \in Nat /\ Mouse \in Nat /\ Tty # Mouse
    /\ Periods \in [Clients -> Nat]

VARIABLES
    st,     \* where each client is: "recv" and "send" are blocked in the kernel
    sig,    \* SIGALRM pending in sig_mask
    due,    \* timer periods until the clock signals a client, 0: none ahead
    clk,    \* the clock task: "start", "listen", "recv" (blocked) or "got"
    from,   \* the client whose SLEEP the clock has in hand
    lost    \* history: a SLEEP was dropped while the clock served no SLEEP of p

clockvars == <<st, sig, due, clk, from, lost>>

ClockInit ==
    /\ st = [p \in Clients |-> "post"]
    /\ sig = [p \in Clients |-> FALSE]
    /\ due = [p \in Clients |-> 0]
    /\ clk = "start"
    /\ from = Tty
    /\ lost = [p \in Clients |-> FALSE]

(* A client's SLEEP that is not delivered: the clock has none of it only if *)
(* the message in its hand is not the client's own earlier one.             *)
Drops(p) == ~(clk = "got" /\ from = p)

(* proc_sig(p, SIGALRM) for every p of S at once: receive returns EABORT, a *)
(* blocked send returns with its message undelivered, and a task that is    *)
(* not blocked keeps the signal for its next blocking call.                 *)
SignalMissed(S) ==
    /\ st' = [p \in Clients |-> IF p \in S /\ st[p] = "recv" THEN "event"
                                ELSE IF p \in S /\ st[p] = "send" THEN "listen"
                                ELSE st[p]]
    /\ sig' = sig
    /\ lost' = [p \in Clients |-> lost[p] \/ (p \in S /\ st[p] = "send" /\ Drops(p))]

Signal(S) ==
    /\ st' = [p \in Clients |-> IF p \in S /\ st[p] = "recv" THEN "event"
                                ELSE IF p \in S /\ st[p] = "send" THEN "listen"
                                ELSE st[p]]
    /\ sig' = [p \in Clients |-> sig[p] \/ (p \in S /\ st[p] \notin {"recv", "send"})]
    /\ lost' = [p \in Clients |-> lost[p] \/ (p \in S /\ st[p] = "send" /\ Drops(p))]

-----------------------------------------------------------------------------
(* send(clock_pid, SLEEP) by client p. *)

PostNow(p) ==
    /\ st[p] = "post" /\ clk = "recv"
    /\ clk' = "got" /\ from' = p
    /\ st' = [st EXCEPT ![p] = "listen"]
    /\ lost' = [lost EXCEPT ![p] = FALSE]
    /\ UNCHANGED <<sig, due>>

PostAborts(p) ==
    /\ st[p] = "post" /\ clk # "recv" /\ sig[p]
    /\ sig' = [sig EXCEPT ![p] = FALSE]
    /\ st' = [st EXCEPT ![p] = "listen"]
    /\ lost' = [lost EXCEPT ![p] = @ \/ Drops(p)]
    /\ UNCHANGED <<due, clk, from>>

PostWaits(p) ==
    /\ st[p] = "post" /\ clk # "recv" /\ ~sig[p]
    /\ st' = [st EXCEPT ![p] = "send"]
    /\ UNCHANGED <<sig, due, clk, from, lost>>

Post(p) == PostNow(p) \/ PostAborts(p) \/ PostWaits(p)

(* receive(ANY) by client p when nobody sends to it. *)
ListenBlocks(p) ==
    /\ st[p] = "listen"
    /\ st' = [st EXCEPT ![p] = "recv"]
    /\ sig' = [sig EXCEPT ![p] = FALSE]
    /\ UNCHANGED <<due, clk, from, lost>>

Listen(p) ==
    /\ st[p] = "listen"
    /\ st' = [st EXCEPT ![p] = IF sig[p] THEN "event" ELSE "recv"]
    /\ sig' = [sig EXCEPT ![p] = FALSE]
    /\ UNCHANGED <<due, clk, from, lost>>

-----------------------------------------------------------------------------
(* The clock task and the timer interrupt. *)

ClockStart ==
    /\ clk = "start"
    /\ clk' = "listen"
    /\ due' = [p \in Clients |-> 0]
    /\ UNCHANGED <<st, sig, from, lost>>

Sending == {p \in Clients : st[p] = "send"}

(* receive(ANY) of the clock: the waiting sender with the lowest pid. *)
ClockListen ==
    /\ clk = "listen" /\ Sending = {}
    /\ clk' = "recv"
    /\ UNCHANGED <<st, sig, due, from, lost>>

ClockTake ==
    /\ clk = "listen" /\ Sending # {}
    /\ clk' = "got" /\ from' = Min(Sending)
    /\ st' = [st EXCEPT ![from'] = "listen"]
    /\ lost' = [lost EXCEPT ![from'] = FALSE]
    /\ UNCHANGED <<sig, due>>

(* The SLEEP case: the new wake time replaces the old one. *)
ClockSleep ==
    /\ clk = "got"
    /\ clk' = "listen"
    /\ due' = [due EXCEPT ![from] = Periods[from]]
    /\ UNCHANGED <<st, sig, from, lost>>

(* _irq_timer_handler, enabled once the clock task has started. *)
Tick ==
    /\ clk # "start"
    /\ due' = [p \in Clients |-> IF due[p] = 0 THEN 0 ELSE due[p] - 1]
    /\ Signal({p \in Clients : due[p] = 1})
    /\ UNCHANGED <<clk, from>>

ClockTask == ClockStart \/ ClockListen \/ ClockTake \/ ClockSleep

-----------------------------------------------------------------------------
(* A wake-up of p is on its way: the task runs, or its signal, its SLEEP or *)
(* its wake time is still to come.                                          *)
Awaited(p) ==
    \/ st[p] # "recv"
    \/ sig[p] \/ due[p] > 0
    \/ clk = "got" /\ from = p

(* A task blocked in receive() has a wake-up on its way, unless the last    *)
(* SLEEP it posted was thrown away by a signal while the clock was not      *)
(* serving it: no order of posts, ticks and signals forgets a sleeper.      *)
(* A second SLEEP may overtake and replace the first (clock.c:67-74), a     *)
(* tick may fall between receive and the assignment (clock.c:62-71).        *)
NoneForgotten == \A p \in Clients : Periods[p] > 0 => Awaited(p) \/ lost[p]
=============================================================================
