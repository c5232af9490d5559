------------------------------ MODULE Terminal ------------------------------
(***************************************************************************)
(* The terminal task (kernel/tty.c): its main loop, the ring of typed      *)
(* characters it shares with the keyboard interrupt, the lines the file    *)
(* system server reads from it, and the cursor, which lives on the clock.  *)
(* The mouse task is here as the clock's other client.  The screen is in   *)
(* module Screen, the decoding of key codes in module Keyboard: here a key *)
(* is a character of the ring.                                             *)
(*                                                                         *)
(* buf, i_wp, i_rp and i_dp are as in the code, with N in the place of     *)
(* 256: an index is an N-valued byte, and the full test is on integers.    *)
(***************************************************************************)
EXTENDS Clock, Sequences

CONSTANTS N,        \* entries of the ring
          Chars,    \* characters a key can give, Newline among them
          Newline,
          Counts,   \* counts a reader asks for
          MaxKeys   \* bound: keys typed

ASSUME TerminalAssumption ==
    /\ N \in Nat \ {0, 1} /\ Newline \in Chars
    /\ Counts \subseteq Nat /\ MaxKeys \in Nat

VARIABLES
    ring,     \* [buf, wp, rp, dp, nline]: i_buf, i_wp, i_rp, i_dp, i_nline
    ask,      \* the request the server is blocked with, NoAsk if none
    keys,     \* bound: keys typed so far
    unread,   \* history: accepted keys no read has returned
    overrun   \* history: a key was accepted that made the full ring look empty

vars == <<clockvars, ring, ask, keys, unread, overrun>>
ttyvars == <<ring, ask, keys, unread, overrun>>

NoAsk == [op |-> "none", n |-> 0]
Asks == {[op |-> "write", n |-> 0], [op |-> "open", n |-> 0], [op |-> "stray", n |-> 0]}
        \cup {[op |-> "read", n |-> n] : n \in Counts}

(* tty_task up to its first SLEEP; the banner is the Screen's. *)
Init ==
    /\ ClockInit
    /\ ring = [buf |-> [i \in 0..N-1 |-> Newline], wp |-> 0, rp |-> 0, dp |-> 0, nline |-> 0]
    /\ ask = NoAsk /\ keys = 0 /\ unread = <<>> /\ overrun = FALSE

Inc(i) == (i + 1) % N

(* The characters from index i up to index j. *)
Slice(i, j) == [k \in 1..((j - i) % N) |-> ring.buf[(i + k - 1) % N]]

-----------------------------------------------------------------------------
(* The keyboard interrupt, for a code that gives a character. *)

FullWraps == Inc(ring.wp) = ring.rp
Full      == ring.wp + 1 = ring.rp

KeyAcceptedLate(c) ==
    /\ ring' = [ring EXCEPT !.buf[Inc(ring.wp)] = c, !.wp = Inc(@)]
    /\ unread' = Append(unread, c)
    /\ overrun' = (overrun \/ FullWraps)
    /\ Signal({Tty})

KeyAccepted(c) ==
    /\ ring' = [ring EXCEPT !.buf[ring.wp] = c, !.wp = Inc(@)]
    /\ unread' = Append(unread, c)
    /\ overrun' = (overrun \/ FullWraps)
    /\ Signal({Tty})

KeyDropped(c) == UNCHANGED <<ring, unread, overrun, st, sig, lost>>

Key(c) ==
    /\ keys < MaxKeys /\ keys' = keys + 1
    /\ IF Full THEN KeyDropped(c) ELSE KeyAccepted(c)
    /\ UNCHANGED <<due, clk, from, ask>>

-----------------------------------------------------------------------------
(* The server, and any process that sends to the task. *)

Ask(r) ==
    /\ ask = NoAsk /\ st[Tty] # "gone"
    /\ ask' = r
    /\ st' = IF st[Tty] = "recv" THEN [st EXCEPT ![Tty] = "serve"] ELSE st
    /\ UNCHANGED <<sig, due, clk, from, lost, ring, keys, unread, overrun>>

(* receive(ANY): a sender that waits comes before a pending signal. *)
TtyReceive ==
    /\ IF ask # NoAsk
       THEN /\ st[Tty] = "listen" /\ st' = [st EXCEPT ![Tty] = "serve"]
            /\ UNCHANGED <<sig, due, clk, from, lost>>
       ELSE Listen(Tty)
    /\ UNCHANGED <<ring, ask, keys, unread, overrun>>

Serving(op) == st[Tty] = "serve" /\ ask.op = op

(* The loop of DEV_READ: with n > 0 and a whole line there, characters from *)
(* i_rp up to the end of the line, of the count or of the ring.             *)
LineEnds(s) == {k \in DOMAIN s : s[k] = Newline}
ReadLength(n) ==
    LET s == Slice(ring.rp, ring.wp)
    IN IF ring.nline = 0 \/ n = 0 THEN 0 ELSE Min({n, Len(s)} \cup LineEnds(s))

(* A read that counts the line off only when the whole line fitted. *)
TakenShort(len) ==
    LET s == Slice(ring.rp, ring.wp)
    IN [ring EXCEPT !.rp = (@ + len) % N,
                    !.nline = @ - IF len > 0 THEN 1 ELSE 0]

Taken(len) ==
    LET s == Slice(ring.rp, ring.wp)
    IN [ring EXCEPT !.rp = (@ + len) % N,
                    !.nline = @ - IF len > 0 /\ s[len] = Newline THEN 1 ELSE 0]

Read ==
    /\ Serving("read")
    /\ LET len == ReadLength(ask.n)
       IN /\ ring' = Taken(len)
          /\ unread' = IF len > Len(unread) THEN <<>> ELSE SubSeq(unread, len + 1, Len(unread))
    /\ ask' = NoAsk
    /\ st' = [st EXCEPT ![Tty] = "listen"]
    /\ UNCHANGED <<sig, due, clk, from, lost, keys, overrun>>

(* DEV_OPEN, DEV_CLOSE and DEV_IOCTL change nothing of this module. *)
Open ==
    /\ Serving("open")
    /\ ask' = NoAsk
    /\ st' = [st EXCEPT ![Tty] = "listen"]
    /\ UNCHANGED <<sig, due, clk, from, lost, ring, keys, unread, overrun>>

(* DEV_WRITE resets the cursor, which posts the next SLEEP. *)
Write ==
    /\ Serving("write")
    /\ ask' = NoAsk
    /\ st' = [st EXCEPT ![Tty] = "post"]
    /\ UNCHANGED <<sig, due, clk, from, lost, ring, keys, unread, overrun>>

(* A message of a user process: the break of tty.c:506 leaves the main loop. *)
Stray ==
    /\ Serving("stray")
    /\ ask' = NoAsk
    /\ st' = [st EXCEPT ![Tty] = "gone"]
    /\ UNCHANGED <<sig, due, clk, from, lost, ring, keys, unread, overrun>>

-----------------------------------------------------------------------------
(* The event branch: display what was typed, a character a step, then blink. *)

Drain ==
    /\ st[Tty] = "event" /\ ring.dp # ring.wp
    /\ ring' = [ring EXCEPT !.dp = Inc(@),
                            !.nline = @ + IF ring.buf[ring.dp] = Newline THEN 1 ELSE 0]
    /\ UNCHANGED <<clockvars, ask, keys, unread, overrun>>

Blink ==
    /\ st[Tty] = "event" /\ ring.dp = ring.wp
    /\ st' = [st EXCEPT ![Tty] = "post"]
    /\ UNCHANGED <<sig, due, clk, from, lost, ring, ask, keys, unread, overrun>>

TtyPost == Post(Tty) /\ UNCHANGED ttyvars

(* The clock and its other client. *)
Others ==
    /\ \/ ClockTask \/ Tick
       \/ Post(Mouse) \/ Listen(Mouse)
       \/ st[Mouse] = "event" /\ st' = [st EXCEPT ![Mouse] = "post"]
          /\ UNCHANGED <<sig, due, clk, from, lost>>
    /\ UNCHANGED ttyvars

TtyTask == TtyReceive \/ Read \/ Open \/ Write \/ Stray \/ Drain \/ Blink \/ TtyPost

Next ==
    \/ \E c \in Chars : Key(c)
    \/ \E r \in Asks : Ask(r)
    \/ TtyTask \/ Others

(* The scheduler gives each ready task its turn, and the timer ticks. *)
Spec == /\ Init /\ [][Next]_vars
        /\ WF_vars(TtyTask)
        /\ WF_vars(ClockTask /\ UNCHANGED ttyvars)
        /\ WF_vars(Tick /\ UNCHANGED ttyvars)

-----------------------------------------------------------------------------
(* Until a key overruns the ring, the interrupt that fills it (tty.c:639-   *)
(* 646) and the task that empties it (tty.c:433-450), with no lock between  *)
(* them, lose no key, repeat none and keep their order.                     *)
InOrder == overrun \/ Slice(ring.rp, ring.wp) = unread

(* i_nline is the number of whole lines that are displayed and not read     *)
(* (tty.c:438, 541), so a reader is never given part of a line that is not  *)
(* on the screen yet, and no line is left behind uncounted.                 *)
LinesCounted ==
    \/ overrun
    \/ /\ (ring.dp - ring.rp) % N <= (ring.wp - ring.rp) % N
       /\ ring.nline = Cardinality(LineEnds(Slice(ring.rp, ring.dp)))

(* A line that was typed can be read in the end, unless the ring overran or *)
(* a SLEEP was thrown away: the key's own signal may be spent on a send     *)
(* (tty.c:563), but then the cursor's next wake-up displays it.  A server   *)
(* that polls has to let the task listen now and then; one that writes for  *)
(* ever may have every wake-up spent on the SLEEP its writes post.          *)
LinesArrive ==
    []<>(st[Tty] \in {"recv", "event"}) /\ <>[](ask.op # "write")
    => (LineEnds(unread) # {} ~> ring.nline > 0 \/ overrun \/ lost[Tty])
=============================================================================
