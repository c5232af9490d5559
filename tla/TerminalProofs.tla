--------------------------- MODULE TerminalProofs ---------------------------
(***************************************************************************)
(* Proofs about Clock and Terminal, for every size of the ring, every set  *)
(* of characters, every count a reader asks for and every period: no       *)
(* sleeper is forgotten, and between two overruns the ring hands over the  *)
(* keys in their order and counts its lines.                               *)
(*                                                                         *)
(* Clock: a client that is on its way to receive() must already have what  *)
(* will wake it, in one of the places a wake-up can be (Watched).  Ring:   *)
(* the arithmetic is that of indices modulo N; Seg is what the ring holds  *)
(* between two of them.                                                    *)
(***************************************************************************)
EXTENDS Terminal, FiniteSetTheorems, WellFoundedInduction, TLAPS

\* A non-empty set of numbers has a least one.
LEMMA LeastNat ==
  ASSUME NEW S \in SUBSET Nat, S # {}
  PROVE  \E x \in S : \A y \in S : x <= y
<1> DEFINE T == {0..x : x \in S}
<1>1. T \subseteq FiniteSubsetsOf(Nat) /\ T # {}
  <2>1. ASSUME NEW x \in S PROVE 0..x \in FiniteSubsetsOf(Nat)
    <3>1. IsFiniteSet(0..x) BY FS_Interval, x \in Int, 0 \in Int
    <3>2. 0..x \in SUBSET Nat OBVIOUS
    <3>. QED BY <3>1, <3>2 DEF FiniteSubsetsOf
  <2>. QED BY <2>1
<1>2. IsWellFoundedOn(StrictSubsetOrdering(Nat), FiniteSubsetsOf(Nat))
  BY FS_StrictSubsetOrderingWellFounded
<1> HIDE DEF T
<1>3. PICK t \in T : \A u \in T : <<u, t>> \notin StrictSubsetOrdering(Nat)
  BY <1>1, <1>2, WFMin
<1> USE DEF T
<1>4. PICK x \in S : t = 0..x BY <1>3
<1>5. ASSUME NEW y \in S PROVE x <= y
  <2>1. 0..y \in T /\ 0..y \subseteq Nat /\ t \subseteq Nat BY <1>4
  <2>2. ~(0..y \subseteq t /\ 0..y # t)
    BY <1>3, <2>1 DEF StrictSubsetOrdering
  <2>3. ASSUME y < x PROVE FALSE
    <3>1. 0..y \subseteq t BY <1>4, <2>3
    <3>2. x \in t /\ x \notin 0..y BY <1>4, <2>3
    <3>. QED BY <2>2, <3>1, <3>2
  <2>. QED BY <2>3
<1>. QED BY <1>5

LEMMA MinFacts ==
  ASSUME NEW S \in SUBSET Nat, S # {}
  PROVE  Min(S) \in S /\ \A y \in S : Min(S) <= y
<1>1. \E x \in S : \A y \in S : x =< y BY LeastNat
<1>. QED BY <1>1 DEF Min

-----------------------------------------------------------------------------
(* The clock and its clients.                                              *)

ClockTyped ==
  /\ st \in [Clients -> {"post", "send", "listen", "recv", "event", "serve", "gone"}]
  /\ sig \in [Clients -> BOOLEAN] /\ lost \in [Clients -> BOOLEAN]
  /\ due \in [Clients -> Nat] /\ from \in Clients
  /\ clk \in {"start", "listen", "recv", "got"}

\* p posts a SLEEP before it listens again, or what wakes it is on its way.
Watched(p) ==
  \/ st[p] \in {"post", "send", "event", "gone"}
  \/ sig[p] \/ due[p] > 0 \/ lost[p]
  \/ clk = "got" /\ from = p

CInv ==
  /\ ClockTyped
  /\ clk = "start" => \A p \in Clients : due[p] = 0
  /\ \A p \in Clients : Periods[p] > 0 => Watched(p)

LEMMA SignalFacts ==
  ASSUME ClockTyped, NEW S, Signal(S)
  PROVE  /\ \A p \in Clients :
              /\ st'[p] = IF p \in S /\ st[p] = "recv" THEN "event"
                          ELSE IF p \in S /\ st[p] = "send" THEN "listen" ELSE st[p]
              /\ sig'[p] = (sig[p] \/ (p \in S /\ st[p] \notin {"recv", "send"}))
              /\ lost'[p] = (lost[p] \/ (p \in S /\ st[p] = "send" /\ Drops(p)))
         /\ st' \in [Clients -> {"post", "send", "listen", "recv", "event", "serve", "gone"}]
         /\ sig' \in [Clients -> BOOLEAN] /\ lost' \in [Clients -> BOOLEAN]
BY DEF Signal, ClockTyped

\* A signal wakes whom it is for, or is kept, or spends a SLEEP that counts as
\* lost unless the clock has the one before it.
LEMMA SignalWatched ==
  ASSUME CInv, NEW S, Signal(S), NEW p \in Clients, clk' = clk, from' = from,
         Periods[p] > 0, due'[p] = due[p] \/ p \in S
  PROVE  Watched(p)'
<1>1. Watched(p) /\ ClockTyped BY DEF CInv
<1>2. CASE p \notin S
  BY <1>1, <1>2, SignalFacts DEF Watched
<1>3. CASE p \in S
  <2>1. st[p] \in {"post", "send", "listen", "recv", "event", "serve", "gone"}
    BY <1>1 DEF ClockTyped
  <2>2. CASE st[p] \notin {"recv", "send"}
    <3>1. sig'[p] BY <1>1, <1>3, <2>2, SignalFacts
    <3>. QED BY <3>1 DEF Watched
  <2>3. CASE st[p] = "recv"
    <3>1. st'[p] = "event" BY <1>1, <1>3, <2>3, SignalFacts
    <3>. QED BY <3>1 DEF Watched
  <2>4. CASE st[p] = "send"
    <3>1. lost'[p] \/ ~Drops(p) BY <1>1, <1>3, <2>4, SignalFacts
    <3>. QED BY <3>1 DEF Watched, Drops
  <2>. QED BY <2>2, <2>3, <2>4
<1>. QED BY <1>2, <1>3

LEMMA PostKeeps ==
  ASSUME CInv, NEW p \in Clients, Post(p)
  PROVE  CInv'
<1>1. ClockTyped BY DEF CInv
<1>2. ClockTyped' BY <1>1 DEF Post, PostNow, PostAborts, PostWaits, ClockTyped
<1>3. (clk' = "start" => clk = "start") /\ due' = due
  BY DEF Post, PostNow, PostAborts, PostWaits
<1>4. ASSUME NEW q \in Clients, Periods[q] > 0 PROVE Watched(q)'
  <2>1. Watched(q) BY <1>4 DEF CInv
  <2>2. CASE PostNow(p) BY <1>1, <2>1, <2>2 DEF PostNow, Watched, ClockTyped
  <2>3. CASE PostAborts(p)
    <3>1. CASE q = p
      <4>1. lost'[p] = (lost[p] \/ Drops(p)) /\ clk' = clk /\ from' = from
        BY <1>1, <2>3 DEF PostAborts, ClockTyped
      <4>. QED BY <3>1, <4>1 DEF Watched, Drops
    <3>2. CASE q # p BY <1>1, <2>1, <2>3, <3>2 DEF PostAborts, Watched, ClockTyped
    <3>. QED BY <3>1, <3>2
  <2>4. CASE PostWaits(p) BY <1>1, <2>1, <2>4 DEF PostWaits, Watched, ClockTyped
  <2>. QED BY <2>2, <2>3, <2>4 DEF Post
<1>. QED BY <1>2, <1>3, <1>4 DEF CInv

LEMMA ListenKeeps ==
  ASSUME CInv, NEW p \in Clients, Listen(p)
  PROVE  CInv'
<1>1. ClockTyped BY DEF CInv
<1>2. ClockTyped' BY <1>1 DEF Listen, ClockTyped
<1>3. ASSUME NEW q \in Clients, Periods[q] > 0 PROVE Watched(q)'
  <2>1. Watched(q) BY <1>3 DEF CInv
  <2>. QED BY <1>1, <2>1 DEF Listen, Watched, ClockTyped
<1>. QED BY <1>2, <1>3 DEF CInv, Listen

LEMMA ClockTaskKeeps ==
  ASSUME CInv, ClockTask
  PROVE  CInv'
<1>1. ClockTyped BY DEF CInv
<1>2. CASE ClockStart
  <2>1. ClockTyped' BY <1>1, <1>2 DEF ClockStart, ClockTyped
  <2>2. ASSUME NEW q \in Clients, Periods[q] > 0 PROVE Watched(q)'
    <3>1. Watched(q) /\ due[q] = 0 /\ clk = "start" BY <1>2, <2>2 DEF CInv, ClockStart
    <3>. QED BY <1>2, <3>1 DEF ClockStart, Watched
  <2>. QED BY <1>2, <2>1, <2>2 DEF CInv, ClockStart
<1>3. CASE ClockListen
  <2>1. ClockTyped' BY <1>1, <1>3 DEF ClockListen, ClockTyped
  <2>2. ASSUME NEW q \in Clients, Periods[q] > 0 PROVE Watched(q)'
    <3>1. Watched(q) BY <2>2 DEF CInv
    <3>. QED BY <1>3, <3>1 DEF ClockListen, Watched
  <2>. QED BY <1>3, <2>1, <2>2 DEF CInv, ClockListen
<1>4. CASE ClockTake
  <2>1. Min(Sending) \in Clients
    <3>1. Sending \in SUBSET Nat BY ClockAssumption DEF Sending, Clients
    <3>. QED BY <3>1, <1>4, MinFacts DEF ClockTake, Sending
  <2>2. /\ from' = Min(Sending) /\ from' \in Clients /\ clk' = "got" /\ sig' = sig /\ due' = due
        /\ st' = [st EXCEPT ![from'] = "listen"] /\ lost' = [lost EXCEPT ![from'] = FALSE]
    BY <1>4, <2>1 DEF ClockTake
  <2>3. ClockTyped' BY <1>1, <2>2 DEF ClockTyped
  <2>4. ASSUME NEW q \in Clients, Periods[q] > 0 PROVE Watched(q)'
    <3>1. Watched(q) BY <2>4 DEF CInv
    <3>2. clk = "listen" BY <1>4 DEF ClockTake
    <3>. QED BY <1>1, <2>2, <3>1, <3>2 DEF Watched, ClockTyped
  <2>. QED BY <2>2, <2>3, <2>4 DEF CInv
<1>5. CASE ClockSleep
  <2>1. ClockTyped' BY <1>1, <1>5, ClockAssumption DEF ClockSleep, ClockTyped
  <2>2. ASSUME NEW q \in Clients, Periods[q] > 0 PROVE Watched(q)'
    <3>1. Watched(q) BY <2>2 DEF CInv
    <3>. QED BY <1>1, <1>5, <2>2, <3>1 DEF ClockSleep, Watched, ClockTyped
  <2>. QED BY <1>5, <2>1, <2>2 DEF CInv, ClockSleep
<1>. QED BY <1>2, <1>3, <1>4, <1>5 DEF ClockTask

LEMMA TickKeeps ==
  ASSUME CInv, Tick
  PROVE  CInv'
<1> DEFINE S == {p \in Clients : due[p] = 1}
<1>1. /\ ClockTyped /\ Signal(S) /\ clk' = clk /\ from' = from /\ clk # "start"
      /\ due' = [p \in Clients |-> IF due[p] = 0 THEN 0 ELSE due[p] - 1]
  BY DEF CInv, Tick
<1>2. ClockTyped'
  <2>1. due' \in [Clients -> Nat] BY <1>1 DEF ClockTyped
  <2>. QED BY <1>1, <2>1, SignalFacts DEF ClockTyped
<1>3. ASSUME NEW q \in Clients, Periods[q] > 0 PROVE Watched(q)'
  <2>1. CASE due[q] \in {0, 1}
    <3>1. due'[q] = due[q] \/ q \in S BY <1>1, <2>1
    <3>. QED BY <1>1, <1>3, <3>1, SignalWatched
  <2>2. CASE due[q] \notin {0, 1}
    <3>1. due'[q] > 0 BY <1>1, <2>2 DEF ClockTyped
    <3>. QED BY <3>1 DEF Watched
  <2>. QED BY <2>1, <2>2
<1>. QED BY <1>1, <1>2, <1>3 DEF CInv

\* A step of a client between its calls.
LEMMA MovesKeep ==
  ASSUME CInv, NEW p \in Clients, NEW l \in {"serve", "listen", "post", "gone"},
         st' = [st EXCEPT ![p] = l], UNCHANGED <<sig, due, clk, from, lost>>,
         st[p] \in {"recv", "listen", "serve"} \/ l = "post"
  PROVE  CInv'
<1>1. ClockTyped BY DEF CInv
<1>2. ClockTyped' BY <1>1 DEF ClockTyped
<1>3. ASSUME NEW q \in Clients, Periods[q] > 0 PROVE Watched(q)'
  <2>1. Watched(q) BY <1>3 DEF CInv
  <2>. QED BY <1>1, <2>1 DEF Watched, ClockTyped
<1>. QED BY <1>2, <1>3 DEF CInv

LEMMA StaysKeep ==
  ASSUME CInv, UNCHANGED clockvars
  PROVE  CInv'
<1>1. ClockTyped' /\ \A p \in Clients : Watched(p)' = Watched(p)
  BY DEF CInv, clockvars, ClockTyped, Watched
<1>. QED BY <1>1 DEF CInv, clockvars

LEMMA NextCInv ==
  ASSUME CInv, [Next]_vars
  PROVE  CInv'
<1>0. Tty \in Clients /\ Mouse \in Clients /\ ClockTyped BY DEF Clients, CInv
<1>1. CASE UNCHANGED vars BY <1>1, StaysKeep DEF vars
<1>2. ASSUME NEW c \in Chars, Key(c) PROVE CInv'
  <2>1. CASE Full
    <3>1. UNCHANGED clockvars BY <1>2, <2>1 DEF Key, KeyDropped, clockvars
    <3>. QED BY <3>1, StaysKeep
  <2>2. CASE ~Full
    <3>1. Signal({Tty}) /\ UNCHANGED <<due, clk, from>>
      BY <1>2, <2>2 DEF Key, KeyAccepted
    <3>2. ClockTyped' BY <1>0, <3>1, SignalFacts DEF ClockTyped
    <3>3. ASSUME NEW q \in Clients, Periods[q] > 0 PROVE Watched(q)'
      BY <3>1, <3>3, SignalWatched
    <3>. QED BY <3>1, <3>2, <3>3 DEF CInv
  <2>. QED BY <2>1, <2>2
<1>3. ASSUME NEW r \in Asks, Ask(r) PROVE CInv'
  <2>1. CASE st[Tty] = "recv"
    <3>1. st' = [st EXCEPT ![Tty] = "serve"] /\ UNCHANGED <<sig, due, clk, from, lost>>
      BY <1>3, <2>1 DEF Ask
    <3>. QED BY <1>0, <2>1, <3>1, MovesKeep
  <2>2. CASE st[Tty] # "recv"
    <3>1. UNCHANGED clockvars BY <1>3, <2>2 DEF Ask, clockvars
    <3>. QED BY <3>1, StaysKeep
  <2>. QED BY <2>1, <2>2
<1>4. CASE TtyReceive
  <2>1. CASE ask # NoAsk
    <3>1. /\ st[Tty] = "listen" /\ st' = [st EXCEPT ![Tty] = "serve"]
          /\ UNCHANGED <<sig, due, clk, from, lost>>
      BY <1>4, <2>1 DEF TtyReceive
    <3>. QED BY <1>0, <3>1, MovesKeep
  <2>2. CASE ask = NoAsk
    <3>1. Listen(Tty) BY <1>4, <2>2 DEF TtyReceive
    <3>. QED BY <1>0, <3>1, ListenKeeps
  <2>. QED BY <2>1, <2>2
<1>5. CASE Read \/ Open \/ Write \/ Stray
  <2>1. PICK l \in {"listen", "post", "gone"} :
        st[Tty] = "serve" /\ st' = [st EXCEPT ![Tty] = l] /\ UNCHANGED <<sig, due, clk, from, lost>>
    BY <1>5 DEF Read, Open, Write, Stray, Serving
  <2>. QED BY <1>0, <2>1, MovesKeep
<1>6. CASE Drain BY <1>6, StaysKeep DEF Drain
<1>7. CASE Blink
  <2>1. st' = [st EXCEPT ![Tty] = "post"] /\ UNCHANGED <<sig, due, clk, from, lost>>
    BY <1>7 DEF Blink
  <2>. QED BY <1>0, <2>1, MovesKeep
<1>8. CASE TtyPost BY <1>0, <1>8, PostKeeps DEF TtyPost
<1>9. CASE Others
  <2>1. CASE ClockTask BY <2>1, ClockTaskKeeps
  <2>2. CASE Tick BY <2>2, TickKeeps
  <2>3. CASE Post(Mouse) BY <1>0, <2>3, PostKeeps
  <2>4. CASE Listen(Mouse) BY <1>0, <2>4, ListenKeeps
  <2>5. CASE st[Mouse] = "event" /\ st' = [st EXCEPT ![Mouse] = "post"]
             /\ UNCHANGED <<sig, due, clk, from, lost>>
    BY <1>0, <2>5, MovesKeep
  <2>. QED BY <1>9, <2>1, <2>2, <2>3, <2>4, <2>5 DEF Others
<1>. QED BY <1>1, <1>2, <1>3, <1>4, <1>5, <1>6, <1>7, <1>8, <1>9 DEF Next, TtyTask

LEMMA InitCInv == Init => CInv
<1> SUFFICES ASSUME Init PROVE CInv OBVIOUS
<1>1. ClockInit BY DEF Init
<1>2. ClockTyped BY <1>1 DEF ClockInit, ClockTyped, Clients
<1>3. \A p \in Clients : due[p] = 0 /\ st[p] = "post" BY <1>1 DEF ClockInit
<1>. QED BY <1>2, <1>3 DEF CInv, Watched

\* No order of posts, ticks, keys and signals forgets a sleeper: a client that
\* is blocked in receive() has a wake-up on its way, or its last SLEEP was
\* thrown away while the clock did not serve it.
THEOREM NoneForgottenAlways == Spec => []NoneForgotten
<1>1. CInv /\ [Next]_vars => CInv' BY NextCInv
<1>2. CInv => NoneForgotten BY DEF CInv, NoneForgotten, Watched, Awaited
<1>. QED BY <1>1, <1>2, InitCInv, PTL DEF Spec

-----------------------------------------------------------------------------
(* The ring.  Indices are counted from i_rp modulo N.                      *)

Ix == 0..(N - 1)

LEMMA Mod ==
  /\ N \in Nat /\ N > 1
  /\ \A i, j \in Ix : (j - i) % N = IF i <= j THEN j - i ELSE j - i + N
  /\ \A i, j \in Ix : (j - i) % N \in Ix
  /\ \A i \in Ix : \A k \in 0..N : (i + k) % N = IF i + k < N THEN i + k ELSE i + k - N
  /\ \A i \in Ix : Inc(i) = IF i = N - 1 THEN 0 ELSE i + 1
<1>1. N \in Nat /\ N > 1 BY TerminalAssumption
<1>2. \A x \in 0..(N - 1) : x % N = x BY <1>1
<1>3. \A x \in N..(2 * N - 1) : x % N = x - N BY <1>1
<1>4. \A x \in -N..-1 : x % N = x + N BY <1>1
<1>5. ASSUME NEW i \in Ix, NEW j \in Ix
      PROVE  (j - i) % N = IF i <= j THEN j - i ELSE j - i + N
  <2>1. CASE i <= j
    <3>1. j - i \in 0..(N - 1) BY <1>1, <2>1 DEF Ix
    <3>. QED BY <2>1, <3>1, <1>2
  <2>2. CASE ~(i <= j)
    <3>1. j - i \in -N..-1 BY <1>1, <2>2 DEF Ix
    <3>. QED BY <2>2, <3>1, <1>4
  <2>. QED BY <2>1, <2>2
<1>6. ASSUME NEW i \in Ix, NEW k \in 0..N
      PROVE  (i + k) % N = IF i + k < N THEN i + k ELSE i + k - N
  <2>1. CASE i + k < N
    <3>1. i + k \in 0..(N - 1) BY <1>1, <2>1 DEF Ix
    <3>. QED BY <2>1, <3>1, <1>2
  <2>2. CASE ~(i + k < N)
    <3>1. i + k \in N..(2 * N - 1) BY <1>1, <2>2 DEF Ix
    <3>. QED BY <2>2, <3>1, <1>1, <1>3 DEF Ix
  <2>. QED BY <2>1, <2>2
<1>7. \A i, j \in Ix : (j - i) % N \in Ix BY <1>1, <1>5 DEF Ix
<1>8. ASSUME NEW i \in Ix PROVE Inc(i) = IF i = N - 1 THEN 0 ELSE i + 1
  <2>1. 1 \in 0..N /\ i \in 0..(N - 1) BY <1>1 DEF Ix
  <2>2. (i + 1) % N = IF i + 1 < N THEN i + 1 ELSE i + 1 - N BY <2>1, <1>6
  <2>. QED BY <1>1, <2>1, <2>2 DEF Inc
<1>. QED BY <1>1, <1>5, <1>6, <1>7, <1>8

Dist(i, j) == (j - i) % N
Seg(b, i, j) == [k \in 1..Dist(i, j) |-> b[(i + k - 1) % N]]

\* Where the k-th character from i is.
LEMMA At ==
  ASSUME NEW i \in Ix, NEW j \in Ix, NEW k \in 1..Dist(i, j)
  PROVE  /\ (i + k - 1) % N = IF i + k <= N THEN i + k - 1 ELSE i + k - 1 - N
         /\ (i + k - 1) % N \in Ix
         /\ Dist(i, (i + k - 1) % N) = k - 1
<1>1. N \in Nat /\ N > 1 /\ Dist(i, j) \in Ix BY Mod DEF Dist
<1>2. k - 1 \in 0..N /\ i + k - 1 = i + (k - 1) BY <1>1 DEF Ix
<1>3. (i + k - 1) % N = IF i + k <= N THEN i + k - 1 ELSE i + k - 1 - N
  <2>1. (i + (k - 1)) % N = IF i + (k - 1) < N THEN i + (k - 1) ELSE i + (k - 1) - N
    BY <1>2, Mod
  <2>. QED BY <1>1, <1>2, <2>1 DEF Ix
<1>4. (i + k - 1) % N \in Ix BY <1>1, <1>3 DEF Ix
<1>5. PICK x \in Ix : x = (i + k - 1) % N BY <1>4
<1>6. (x - i) % N = IF i <= x THEN x - i ELSE x - i + N BY Mod
<1>7. (x - i) % N = k - 1 BY <1>1, <1>3, <1>5, <1>6 DEF Ix
<1>. QED BY <1>3, <1>4, <1>5, <1>7 DEF Dist

LEMMA DistIn ==
  ASSUME NEW i \in Ix, NEW j \in Ix
  PROVE  Dist(i, j) \in Ix /\ Dist(i, j) \in Nat
<1>1. Dist(i, j) \in Ix BY Mod DEF Dist
<1>. QED BY <1>1 DEF Ix

LEMMA SegSeq ==
  ASSUME NEW b \in [Ix -> Chars], NEW i \in Ix, NEW j \in Ix
  PROVE  /\ Seg(b, i, j) \in Seq(Chars) /\ Len(Seg(b, i, j)) = Dist(i, j)
         /\ Dist(i, j) \in Ix
<1>1. Dist(i, j) \in Ix /\ Dist(i, j) \in Nat BY Mod DEF Dist, Ix
<1>2. \A k \in 1..Dist(i, j) : b[(i + k - 1) % N] \in Chars BY At
<1>. QED BY <1>1, <1>2 DEF Seg

\* One index further.
LEMMA Further ==
  ASSUME NEW i \in Ix, NEW j \in Ix, Inc(j) # i
  PROVE  Inc(j) \in Ix /\ Dist(i, Inc(j)) = Dist(i, j) + 1
<1>1. Inc(j) \in Ix
  <2>1. Inc(j) = (IF j = N - 1 THEN 0 ELSE j + 1) /\ N \in Nat /\ N > 1 BY Mod
  <2>. QED BY <2>1 DEF Ix
<1>2. PICK x \in Ix : x = Inc(j) BY <1>1
<1>3. /\ (x - i) % N = IF i <= x THEN x - i ELSE x - i + N
      /\ (j - i) % N = IF i <= j THEN j - i ELSE j - i + N
      /\ x = IF j = N - 1 THEN 0 ELSE j + 1
      /\ N \in Nat /\ N > 1
  BY <1>2, Mod
<1>4. (x - i) % N = ((j - i) % N) + 1 BY <1>2, <1>3 DEF Ix
<1>. QED BY <1>1, <1>2, <1>4 DEF Dist

LEMMA SegGrows ==
  ASSUME NEW b \in [Ix -> Chars], NEW i \in Ix, NEW j \in Ix, Inc(j) # i
  PROVE  Seg(b, i, Inc(j)) = Append(Seg(b, i, j), b[j])
<1>1. /\ Inc(j) \in Ix /\ Dist(i, Inc(j)) = Dist(i, j) + 1
      /\ Seg(b, i, j) \in Seq(Chars) /\ Len(Seg(b, i, j)) = Dist(i, j)
      /\ Dist(i, j) \in Nat
  BY Further, SegSeq DEF Ix
<1>2. b[(i + (Dist(i, j) + 1) - 1) % N] = b[j]
  <2>1. /\ (j - i) % N = IF i <= j THEN j - i ELSE j - i + N
        /\ N \in Nat /\ N > 1
    BY Mod
  <2>2. PICK k \in 1..Dist(i, Inc(j)) : k = Dist(i, j) + 1 BY <1>1
  <2>3. (i + k - 1) % N = IF i + k <= N THEN i + k - 1 ELSE i + k - 1 - N
    BY <1>1, At
  <2>4. (i + k - 1) % N = j BY <2>1, <2>2, <2>3 DEF Dist, Ix
  <2>. QED BY <2>2, <2>4
<1>3. Seg(b, i, Inc(j)) = [k \in 1..(Dist(i, j) + 1) |->
                             IF k = Dist(i, j) + 1 THEN b[j] ELSE Seg(b, i, j)[k]]
  <2>1. ASSUME NEW k \in 1..(Dist(i, j) + 1)
        PROVE  b[(i + k - 1) % N] = IF k = Dist(i, j) + 1 THEN b[j] ELSE Seg(b, i, j)[k]
    <3>1. CASE k = Dist(i, j) + 1 BY <1>2, <3>1
    <3>2. CASE k # Dist(i, j) + 1
      <4>1. k \in 1..Dist(i, j) BY <1>1, <3>2
      <4>. QED BY <3>2, <4>1 DEF Seg
    <3>. QED BY <3>1, <3>2
  <2>. QED BY <1>1, <2>1 DEF Seg
<1>4. Append(Seg(b, i, j), b[j]) =
        [k \in 1..(Dist(i, j) + 1) |-> IF k = Dist(i, j) + 1 THEN b[j] ELSE Seg(b, i, j)[k]]
  <2>1. PICK s \in Seq(Chars), n \in Nat : s = Seg(b, i, j) /\ n = Dist(i, j) /\ Len(s) = n
    BY <1>1
  <2>2. Append(s, b[j]) = [k \in 1..(n + 1) |-> IF k = n + 1 THEN b[j] ELSE s[k]]
    BY <2>1
  <2>. QED BY <2>1, <2>2
<1>. QED BY <1>3, <1>4

\* What is written at w is not between i and a j that is no further than w.
LEMMA SegSame ==
  ASSUME NEW b, NEW g, NEW i \in Ix, NEW j \in Ix, NEW w \in Ix,
         \A m \in Ix : m # w => g[m] = b[m], Dist(i, j) <= Dist(i, w)
  PROVE  Seg(g, i, j) = Seg(b, i, j)
<1>1. Dist(i, j) \in Nat /\ Dist(i, w) \in Nat BY Mod DEF Dist, Ix
<1>2. ASSUME NEW k \in 1..Dist(i, j)
      PROVE  g[(i + k - 1) % N] = b[(i + k - 1) % N]
  <2>1. (i + k - 1) % N \in Ix /\ Dist(i, (i + k - 1) % N) = k - 1 BY At
  <2>2. (i + k - 1) % N # w
    <3>1. k - 1 # Dist(i, w) BY <1>1
    <3>. QED BY <2>1, <3>1
  <2>. QED BY <2>1, <2>2
<1>. QED BY <1>2 DEF Seg

\* The first n characters are passed.
LEMMA Passed ==
  ASSUME NEW i \in Ix, NEW j \in Ix, NEW n \in 0..Dist(i, j)
  PROVE  (i + n) % N \in Ix /\ Dist((i + n) % N, j) = Dist(i, j) - n
<1>1. /\ (j - i) % N = IF i <= j THEN j - i ELSE j - i + N
      /\ N \in Nat /\ N > 1 /\ (j - i) % N \in Ix
  BY Mod
<1>2. n \in 0..N BY <1>1 DEF Dist, Ix
<1>3. (i + n) % N = IF i + n < N THEN i + n ELSE i + n - N BY <1>2, Mod
<1>4. (i + n) % N \in Ix BY <1>1, <1>2, <1>3 DEF Ix
<1>5. PICK x \in Ix : x = (i + n) % N BY <1>4
<1>6. (j - x) % N = IF x <= j THEN j - x ELSE j - x + N BY Mod
<1>7. (j - x) % N = ((j - i) % N) - n BY <1>1, <1>3, <1>5, <1>6 DEF Ix, Dist
<1>. QED BY <1>4, <1>5, <1>7 DEF Dist

LEMMA SegRest ==
  ASSUME NEW b \in [Ix -> Chars], NEW i \in Ix, NEW j \in Ix, NEW n \in 0..Dist(i, j)
  PROVE  /\ Len(Seg(b, (i + n) % N, j)) = Dist(i, j) - n
         /\ \A k \in 1..(Dist(i, j) - n) : Seg(b, (i + n) % N, j)[k] = Seg(b, i, j)[k + n]
<1>1. PICK x \in Ix : x = (i + n) % N /\ Dist(x, j) = Dist(i, j) - n BY Passed
<1>2. Dist(i, j) \in Ix /\ N \in Nat /\ N > 1 BY Mod DEF Dist
<1>3. ASSUME NEW k \in 1..(Dist(i, j) - n) PROVE (x + k - 1) % N = (i + (k + n) - 1) % N
  <2>1. n \in 0..N /\ k + n \in 1..Dist(i, j) /\ k \in 1..Dist(x, j) BY <1>1, <1>2 DEF Ix
  <2>2. x = IF i + n < N THEN i + n ELSE i + n - N BY <1>1, <2>1, Mod
  <2>3. (x + k - 1) % N = IF x + k <= N THEN x + k - 1 ELSE x + k - 1 - N
    BY <2>1, At
  <2>4. PICK h \in 1..Dist(i, j) : h = k + n BY <2>1
  <2>5. (i + h - 1) % N = IF i + h <= N THEN i + h - 1 ELSE i + h - 1 - N
    BY At
  <2>6. (x + k - 1) % N = (i + h - 1) % N BY <1>2, <2>1, <2>2, <2>3, <2>4, <2>5 DEF Ix
  <2>. QED BY <2>4, <2>6
<1>4. Len(Seg(b, x, j)) = Dist(i, j) - n
  <2>1. Dist(x, j) \in Nat BY Mod DEF Dist, Ix
  <2>. QED BY <1>1, <2>1 DEF Seg
<1>5. ASSUME NEW k \in 1..(Dist(i, j) - n) PROVE Seg(b, x, j)[k] = Seg(b, i, j)[k + n]
  <2>1. k \in 1..Dist(x, j) /\ k + n \in 1..Dist(i, j) BY <1>1, <1>2 DEF Ix
  <2>. QED BY <2>1, <1>3 DEF Seg
<1>. QED BY <1>1, <1>4, <1>5

-----------------------------------------------------------------------------
(* Lines.                                                                  *)

LEMMA LinesFinite ==
  ASSUME NEW s \in Seq(Chars)
  PROVE  IsFiniteSet(LineEnds(s)) /\ LineEnds(s) \subseteq 1..Len(s)
<1>1. LineEnds(s) \subseteq 1..Len(s) BY DEF LineEnds
<1>2. IsFiniteSet(1..Len(s)) BY FS_Interval, Len(s) \in Int, 1 \in Int
<1>. QED BY <1>1, <1>2, FS_Subset

LEMMA LinesAppend ==
  ASSUME NEW s \in Seq(Chars), NEW c \in Chars
  PROVE  Cardinality(LineEnds(Append(s, c))) =
           Cardinality(LineEnds(s)) + (IF c = Newline THEN 1 ELSE 0)
<1>1. LineEnds(Append(s, c)) = IF c = Newline THEN LineEnds(s) \cup {Len(s) + 1}
                               ELSE LineEnds(s)
  <2>1. DOMAIN Append(s, c) = DOMAIN s \cup {Len(s) + 1} OBVIOUS
  <2>2. /\ \A k \in DOMAIN s : Append(s, c)[k] = s[k]
        /\ Append(s, c)[Len(s) + 1] = c /\ Len(s) + 1 \notin DOMAIN s
    OBVIOUS
  <2>. QED BY <2>1, <2>2 DEF LineEnds
<1>2. /\ IsFiniteSet(LineEnds(s)) /\ Len(s) + 1 \notin LineEnds(s)
      /\ Cardinality(LineEnds(s)) \in Nat
  BY LinesFinite, FS_CardinalityType DEF LineEnds
<1>3. Cardinality(LineEnds(s) \cup {Len(s) + 1}) = Cardinality(LineEnds(s)) + 1
  BY <1>2, FS_AddElement
<1>. QED BY <1>1, <1>2, <1>3

\* Without its first n characters, of which at most the last ends a line.
LEMMA LinesDropped ==
  ASSUME NEW s \in Seq(Chars), NEW t \in Seq(Chars), NEW n \in 1..Len(s),
         Len(t) = Len(s) - n, \A k \in 1..Len(t) : t[k] = s[k + n],
         \A k \in LineEnds(s) : n <= k
  PROVE  Cardinality(LineEnds(t)) =
           Cardinality(LineEnds(s)) - (IF s[n] = Newline THEN 1 ELSE 0)
<1> DEFINE R == LineEnds(s) \ {n}
           f == [k \in LineEnds(t) |-> k + n]
<1>1. \A k \in LineEnds(t) : k \in 1..Len(t) /\ k + n \in R
  BY DEF LineEnds
<1>2. \A h \in R : h - n \in LineEnds(t) /\ h \in Nat
  <2>1. ASSUME NEW h \in R PROVE h - n \in LineEnds(t) /\ h \in Nat
    <3>1. h \in 1..Len(s) /\ s[h] = Newline /\ n <= h /\ h # n BY DEF LineEnds
    <3>2. h - n \in 1..Len(t) /\ h - n + n = h BY <3>1
    <3>3. t[h - n] = s[h] BY <3>2
    <3>. QED BY <3>1, <3>2, <3>3 DEF LineEnds
  <2>. QED BY <2>1
<1>3. f \in Bijection(LineEnds(t), R)
  <2>1. f \in [LineEnds(t) -> R] BY <1>1
  <2>2. \A j, k \in LineEnds(t) : f[j] = f[k] => j = k BY <1>1
  <2>3. \A h \in R : \E k \in LineEnds(t) : f[k] = h
    <3>1. ASSUME NEW h \in R PROVE h - n \in LineEnds(t) /\ f[h - n] = h
      BY <1>2
    <3>. QED BY <3>1
  <2> HIDE DEF f, R
  <2>4. f \in Injection(LineEnds(t), R) BY <2>1, <2>2 DEF Injection, IsInjective
  <2>5. f \in Surjection(LineEnds(t), R) BY <2>1, <2>3 DEF Surjection
  <2>. QED BY <2>4, <2>5 DEF Bijection
<1>4. IsFiniteSet(LineEnds(s)) /\ IsFiniteSet(LineEnds(t)) BY LinesFinite
<1>5. Cardinality(R) = Cardinality(LineEnds(t))
  BY <1>3, <1>4, FS_Bijection DEF ExistsBijection
<1>6. /\ Cardinality(R) = IF n \in LineEnds(s) THEN Cardinality(LineEnds(s)) - 1
                          ELSE Cardinality(LineEnds(s))
      /\ Cardinality(LineEnds(s)) \in Nat
  BY <1>4, FS_RemoveElement, FS_CardinalityType
<1>7. n \in LineEnds(s) <=> s[n] = Newline BY DEF LineEnds
<1>. QED BY <1>5, <1>6, <1>7

-----------------------------------------------------------------------------
(* The invariant of the ring.                                              *)

RingTyped ==
  /\ ring \in [buf : [Ix -> Chars], wp : Ix, rp : Ix, dp : Ix, nline : Int]
  /\ unread \in Seq(Chars) /\ overrun \in BOOLEAN

RInv == RingTyped /\ InOrder /\ LinesCounted

LEMMA SliceIsSeg == \A i, j : Slice(i, j) = Seg(ring.buf, i, j)
BY DEF Slice, Seg, Dist

LEMMA RingSame ==
  ASSUME RInv, UNCHANGED <<ring, unread, overrun>>
  PROVE  RInv'
<1>1. \A i, j : Slice(i, j)' = Slice(i, j) BY DEF Slice
<1>. QED BY <1>1 DEF RInv, RingTyped, InOrder, LinesCounted

\* A key is written behind the last one; without an overrun nothing else is
\* there.
LEMMA KeyKeeps ==
  ASSUME RInv, NEW c \in Chars, KeyAccepted(c)
  PROVE  RInv'
<1> DEFINE b == ring.buf
           w == ring.wp
           r == ring.rp
           d == ring.dp
<1>1. /\ b \in [Ix -> Chars] /\ w \in Ix /\ r \in Ix /\ d \in Ix /\ ring.nline \in Int
      /\ unread \in Seq(Chars)
  BY DEF RInv, RingTyped
<1>2. Inc(w) \in Ix
  <2>1. Inc(w) = (IF w = N - 1 THEN 0 ELSE w + 1) /\ N \in Nat /\ N > 1 BY <1>1, Mod
  <2>. QED BY <1>1, <2>1 DEF Ix
<1>3. /\ ring' = [ring EXCEPT !.buf[w] = c, !.wp = Inc(w)]
      /\ unread' = Append(unread, c) /\ overrun' = (overrun \/ Inc(w) = r)
  BY DEF KeyAccepted, FullWraps
<1>4. /\ ring'.buf = [b EXCEPT ![w] = c] /\ ring'.wp = Inc(w) /\ ring'.rp = r
      /\ ring'.dp = d /\ ring'.nline = ring.nline
  BY <1>1, <1>3 DEF RInv, RingTyped
<1>5. RingTyped'
  <2>1. ring' \in [buf : [Ix -> Chars], wp : Ix, rp : Ix, dp : Ix, nline : Int]
    BY <1>1, <1>2, <1>3 DEF RInv, RingTyped
  <2>2. overrun' \in BOOLEAN BY <1>3 DEF RInv, RingTyped
  <2>. QED BY <1>1, <1>3, <2>1, <2>2 DEF RingTyped
<1>6. CASE overrun'
  BY <1>5, <1>6 DEF RInv, InOrder, LinesCounted
<1>7. CASE ~overrun'
  <2>1. ~overrun /\ Inc(w) # r BY <1>3, <1>7
  <2>2. /\ Seg(b, r, w) = unread /\ Dist(r, d) <= Dist(r, w)
        /\ ring.nline = Cardinality(LineEnds(Seg(b, r, d)))
    BY <2>1, SliceIsSeg DEF RInv, InOrder, LinesCounted, Dist
  <2>3. Seg(ring'.buf, r, d) = Seg(b, r, d) /\ Seg(ring'.buf, r, w) = Seg(b, r, w)
    <3>1. PICK h : h = ring'.buf OBVIOUS
    <3>2. Dist(r, w) <= Dist(r, w) BY <1>1, DistIn
    <3>3. \A m \in Ix : m # w => h[m] = b[m] BY <1>1, <1>4, <3>1
    <3>4. Seg(h, r, d) = Seg(b, r, d) BY <1>1, <2>2, <3>3, SegSame
    <3>5. Seg(h, r, w) = Seg(b, r, w) BY <1>1, <3>2, <3>3, SegSame
    <3>. QED BY <3>1, <3>4, <3>5
  <2>4. ring'.buf \in [Ix -> Chars] /\ ring'.buf[w] = c BY <1>1, <1>4
  <2>5. Seg(ring'.buf, r, Inc(w)) = Append(unread, c)
    BY <1>1, <2>1, <2>2, <2>3, <2>4, SegGrows
  <2>6. InOrder'
    <3>1. ring'.rp = r /\ ring'.wp = Inc(w) /\ unread' = Append(unread, c) BY <1>3, <1>4
    <3>. QED BY <3>1, <2>5 DEF InOrder, Slice, Seg, Dist
  <2>7. Dist(r, d) <= Dist(r, Inc(w))
    <3>1. Dist(r, Inc(w)) = Dist(r, w) + 1 BY <1>1, <2>1, Further
    <3>2. Dist(r, d) \in Nat /\ Dist(r, w) \in Nat BY <1>1, DistIn
    <3>. QED BY <3>1, <3>2, <2>2
  <2>8. LinesCounted'
    BY <1>4, <2>2, <2>3, <2>7 DEF LinesCounted, Slice, Seg, Dist
  <2>. QED BY <1>5, <2>6, <2>8 DEF RInv
<1>. QED BY <1>6, <1>7

\* The task displays one more character.
LEMMA DrainKeeps ==
  ASSUME RInv, Drain
  PROVE  RInv'
<1> DEFINE b == ring.buf
           w == ring.wp
           r == ring.rp
           d == ring.dp
<1>1. /\ b \in [Ix -> Chars] /\ w \in Ix /\ r \in Ix /\ d \in Ix /\ ring.nline \in Int
      /\ b[d] \in Chars
  BY DEF RInv, RingTyped
<1>2. Inc(d) \in Ix
  <2>1. Inc(d) = (IF d = N - 1 THEN 0 ELSE d + 1) /\ N \in Nat /\ N > 1 BY <1>1, Mod
  <2>. QED BY <1>1, <2>1 DEF Ix
<1>3. /\ d # w /\ unread' = unread /\ overrun' = overrun
      /\ ring' = [ring EXCEPT !.dp = Inc(d),
                              !.nline = @ + IF b[d] = Newline THEN 1 ELSE 0]
  BY DEF Drain
<1>4. /\ ring'.buf = b /\ ring'.wp = w /\ ring'.rp = r /\ ring'.dp = Inc(d)
      /\ ring'.nline = ring.nline + (IF b[d] = Newline THEN 1 ELSE 0)
  BY <1>1, <1>3 DEF RInv, RingTyped
<1>5. RingTyped'
  <2>1. PICK x, nl : x = Inc(d) /\ nl = ring.nline + (IF b[d] = Newline THEN 1 ELSE 0)
    OBVIOUS
  <2>2. x \in Ix /\ nl \in Int BY <1>1, <1>2, <2>1
  <2>3. ring' = [ring EXCEPT !.dp = x, !.nline = nl] BY <1>3, <2>1
  <2>4. ring' \in [buf : [Ix -> Chars], wp : Ix, rp : Ix, dp : Ix, nline : Int]
    BY <2>2, <2>3 DEF RInv, RingTyped
  <2>. QED BY <1>3, <2>4 DEF RInv, RingTyped
<1>6. InOrder'
  BY <1>3, <1>4 DEF RInv, InOrder, Slice
<1>7. ASSUME ~overrun PROVE LinesCounted'
  <2>1. /\ Dist(r, d) <= Dist(r, w)
        /\ ring.nline = Cardinality(LineEnds(Seg(b, r, d)))
    BY <1>7, SliceIsSeg DEF RInv, LinesCounted, Dist
  <2>2. Inc(d) # r /\ Dist(r, Inc(d)) <= Dist(r, w)
    <3>0. PICK x \in Ix, y \in Ix, z \in Ix : x = r /\ y = w /\ z = d BY <1>1
    <3>1. /\ (z - x) % N = IF x <= z THEN z - x ELSE z - x + N
          /\ (y - x) % N = IF x <= y THEN y - x ELSE y - x + N
          /\ Inc(z) = IF z = N - 1 THEN 0 ELSE z + 1
          /\ N \in Nat /\ N > 1
      BY Mod
    <3>2. Dist(x, z) < Dist(x, y)
      <4>1. z # y /\ Dist(x, z) <= Dist(x, y) BY <3>0, <1>3, <2>1
      <4>. QED BY <3>1, <4>1 DEF Ix, Dist
    <3>3. Inc(z) # x BY <3>1, <3>2 DEF Ix, Dist
    <3>4. Dist(x, Inc(z)) = Dist(x, z) + 1 BY <3>3, Further
    <3>5. Dist(r, d) \in Nat /\ Dist(r, w) \in Nat BY <1>1, DistIn
    <3>. QED BY <3>0, <3>2, <3>3, <3>4, <3>5
  <2>3. Seg(b, r, Inc(d)) = Append(Seg(b, r, d), b[d]) BY <1>1, <2>2, SegGrows
  <2>4. Cardinality(LineEnds(Seg(b, r, Inc(d)))) = ring'.nline
    BY <1>1, <1>4, <2>1, <2>3, SegSeq, LinesAppend
  <2>. QED BY <1>4, <2>2, <2>4 DEF LinesCounted, Slice, Seg, Dist
<1>8. LinesCounted' BY <1>3, <1>7 DEF LinesCounted
<1>. QED BY <1>5, <1>6, <1>8 DEF RInv

\* How many characters a read takes.
LEMMA ReadLengthFacts ==
  ASSUME RingTyped, NEW n \in Nat
  PROVE  LET s == Slice(ring.rp, ring.wp)
             len == ReadLength(n)
         IN  /\ s \in Seq(Chars) /\ Len(s) = Dist(ring.rp, ring.wp)
             /\ len \in 0..Len(s)
             /\ len > 0 => ring.nline # 0 /\ \A k \in LineEnds(s) : len <= k
<1> DEFINE s == Slice(ring.rp, ring.wp)
           M == {n, Len(s)} \cup LineEnds(s)
<1>1. s \in Seq(Chars) /\ Len(s) = Dist(ring.rp, ring.wp) /\ Len(s) \in Nat
  BY SliceIsSeg, SegSeq DEF RingTyped, Ix
<1>2. M \in SUBSET Nat /\ M # {}
  <2>1. LineEnds(s) \subseteq 1..Len(s) BY <1>1, LinesFinite
  <2>. QED BY <1>1, <2>1
<1>3. Min(M) \in M /\ \A y \in M : Min(M) <= y BY <1>2, MinFacts
<1>4. ReadLength(n) = IF ring.nline = 0 \/ n = 0 THEN 0 ELSE Min(M) BY DEF ReadLength
<1>5. Min(M) \in Nat /\ Min(M) <= Len(s) /\ \A k \in LineEnds(s) : Min(M) <= k
  BY <1>2, <1>3
<1> HIDE DEF s, M
<1>6. /\ ReadLength(n) \in 0..Len(s)
      /\ ReadLength(n) > 0 => ring.nline # 0 /\ \A k \in LineEnds(s) : ReadLength(n) <= k
  BY <1>1, <1>4, <1>5
<1>. QED BY <1>1, <1>6 DEF s

LEMMA ReadKeeps ==
  ASSUME RInv, ask \in Asks, Read
  PROVE  RInv'
<1> DEFINE b == ring.buf
           w == ring.wp
           r == ring.rp
           d == ring.dp
           s == Slice(r, w)
<1>1. /\ b \in [Ix -> Chars] /\ w \in Ix /\ r \in Ix /\ d \in Ix /\ ring.nline \in Int
      /\ unread \in Seq(Chars) /\ ask.n \in Nat
  BY TerminalAssumption DEF RInv, RingTyped, Asks
<1>2. PICK len : len = ReadLength(ask.n) OBVIOUS
<1>3. /\ s \in Seq(Chars) /\ Len(s) = Dist(r, w) /\ len \in 0..Len(s)
      /\ len > 0 => ring.nline # 0 /\ \A k \in LineEnds(s) : len <= k
  BY <1>1, <1>2, ReadLengthFacts DEF RInv
<1>4. /\ ring' = Taken(len) /\ overrun' = overrun
      /\ unread' = IF len > Len(unread) THEN <<>> ELSE SubSeq(unread, len + 1, Len(unread))
  BY <1>2 DEF Read
<1>5. PICK z : z = IF len > 0 /\ s[len] = Newline THEN 1 ELSE 0 OBVIOUS
<1>6. z \in {0, 1} BY <1>5
<1>7. /\ ring' = [ring EXCEPT !.rp = (r + len) % N, !.nline = @ - z]
  BY <1>4, <1>5 DEF Taken
<1>8. PICK q \in Ix : q = (r + len) % N /\ Dist(q, w) = Dist(r, w) - len
  BY <1>1, <1>3, Passed
<1>9. /\ ring'.buf = b /\ ring'.wp = w /\ ring'.rp = q /\ ring'.dp = d
      /\ ring'.nline = ring.nline - z
  BY <1>1, <1>7, <1>8 DEF RInv, RingTyped
<1>10. RingTyped'
  <2>1. unread' \in Seq(Chars)
    <3>1. CASE len > Len(unread) BY <1>4, <3>1
    <3>2. CASE ~(len > Len(unread))
      <4>1. len \in Nat BY <1>3
      <4>. QED BY <1>1, <1>4, <3>2, <4>1
    <3>. QED BY <3>1, <3>2
  <2>2. ring' \in [buf : [Ix -> Chars], wp : Ix, rp : Ix, dp : Ix, nline : Int]
    <3>1. PICK nl : nl = ring.nline - z OBVIOUS
    <3>2. nl \in Int BY <1>1, <1>6, <3>1
    <3>3. ring' = [ring EXCEPT !.rp = q, !.nline = nl] BY <1>7, <1>8, <3>1
    <3>. QED BY <1>8, <3>2, <3>3 DEF RInv, RingTyped
  <2>. QED BY <1>4, <2>1, <2>2 DEF RInv, RingTyped
<1>11. CASE overrun
  BY <1>4, <1>10, <1>11 DEF RInv, InOrder, LinesCounted
<1>12. CASE ~overrun
  <2>1. /\ s = unread /\ Seg(b, r, w) = unread /\ Dist(r, d) <= Dist(r, w)
        /\ ring.nline = Cardinality(LineEnds(Seg(b, r, d)))
    BY <1>12, SliceIsSeg DEF RInv, InOrder, LinesCounted, Dist
  <2>2. Seg(b, q, w) = unread'
    <3>1. len \in 0..Dist(r, w) /\ Len(unread) = Dist(r, w) /\ len \in Nat BY <1>3, <2>1
    <3>2. /\ Len(Seg(b, q, w)) = Dist(r, w) - len
          /\ \A k \in 1..(Dist(r, w) - len) : Seg(b, q, w)[k] = unread[k + len]
          /\ Seg(b, q, w) \in Seq(Chars)
      <4>1. PICK x \in Ix, y \in Ix, g \in [Ix -> Chars] : x = r /\ y = w /\ g = b
        BY <1>1
      <4>2. len \in 0..Dist(x, y) /\ q = (x + len) % N BY <1>8, <3>1, <4>1
      <4>3. /\ Len(Seg(g, (x + len) % N, y)) = Dist(x, y) - len
            /\ \A k \in 1..(Dist(x, y) - len) :
                 Seg(g, (x + len) % N, y)[k] = Seg(g, x, y)[k + len]
        BY <4>2, SegRest
      <4>4. Seg(g, q, y) \in Seq(Chars) BY SegSeq
      <4>. QED BY <2>1, <4>1, <4>2, <4>3, <4>4
    <3>3. unread' = SubSeq(unread, len + 1, Len(unread)) BY <1>4, <3>1
    <3>4. /\ Len(unread') = Len(unread) - len
          /\ \A k \in 1..(Len(unread) - len) : unread'[k] = unread[k + len]
          /\ unread' \in Seq(Chars)
      <4>1. PICK un \in Seq(Chars) : un = unread BY <1>1
      <4>2. PICK a : a = len + 1 OBVIOUS
      <4>3. len \in 0..Len(un) /\ a \in 1..(Len(un) + 1) /\ Len(un) \in Nat /\ a = len + 1
        BY <3>1, <4>1, <4>2
      <4>4. /\ SubSeq(un, a, Len(un)) \in Seq(Chars)
            /\ Len(SubSeq(un, a, Len(un))) = Len(un) - a + 1
            /\ \A k \in 1..(Len(un) - a + 1) : SubSeq(un, a, Len(un))[k] = un[k + a - 1]
        BY <4>3
      <4>5. Len(un) - a + 1 = Len(un) - len /\ \A k \in Nat : k + a - 1 = k + len BY <4>3
      <4>6. Len(un) \in Nat /\ len \in Nat /\ Len(un) - len \in Int BY <4>3
      <4>7. ASSUME NEW k \in 1..(Len(un) - len)
            PROVE  SubSeq(un, a, Len(un))[k] = un[k + len]
        <5>1. k \in Nat BY <4>6
        <5>. QED BY <4>4, <4>5, <5>1
      <4>8. unread' = SubSeq(un, a, Len(un)) BY <3>3, <4>1, <4>2
      <4>. QED BY <4>1, <4>4, <4>5, <4>7, <4>8
    <3>5. Len(Seg(b, q, w)) = Len(unread') BY <3>1, <3>2, <3>4
    <3>6. \A k \in 1..Len(unread') : Seg(b, q, w)[k] = unread'[k]
      BY <3>1, <3>2, <3>4
    <3>. QED BY <3>2, <3>4, <3>5, <3>6
  <2>3. InOrder' BY <1>9, <2>2 DEF InOrder, Slice, Seg, Dist
  <2>4. CASE len = 0
    <3>1. q = r
      <4>1. 0 \in 0..N /\ r + 0 = r /\ r < N BY <1>1, Mod DEF Ix
      <4>. QED BY <1>1, <1>8, <2>4, <4>1, Mod
    <3>2. z = 0 BY <1>5, <2>4
    <3>3. ring'.nline = ring.nline BY <1>1, <1>9, <3>2
    <3>. QED BY <1>9, <1>10, <2>1, <2>3, <3>1, <3>3 DEF RInv, LinesCounted, Slice, Seg, Dist
  <2>5. CASE len # 0
    <3>0. len \in Nat /\ len > 0 /\ Dist(r, d) \in Nat /\ Dist(r, w) \in Nat
      BY <1>1, <1>3, <2>5, DistIn
    <3>1. PICK t, u : t = Seg(b, r, d) /\ u = Seg(b, q, d) OBVIOUS
    <3>2. t \in Seq(Chars) /\ Len(t) = Dist(r, d) /\ \A k \in 1..Len(t) : t[k] = s[k]
      <4>1. t \in Seq(Chars) /\ Len(t) = Dist(r, d) BY <1>1, <3>1, SegSeq
      <4>2. ASSUME NEW k \in 1..Len(t) PROVE t[k] = s[k]
        <5>1. k \in 1..Dist(r, d) /\ k \in 1..Dist(r, w) BY <4>1, <2>1, <3>0
        <5>. QED BY <5>1, <2>1, <3>1 DEF Seg
      <4>. QED BY <4>1, <4>2
    <3>3. LineEnds(t) \subseteq LineEnds(s)
      BY <1>3, <2>1, <3>0, <3>2 DEF LineEnds
    <3>4. LineEnds(t) # {}
      <4>1. ring.nline # 0 BY <1>3, <3>0
      <4>. QED BY <4>1, <2>1, <3>1, FS_EmptySet
    <3>5. len \in 1..Len(t) /\ \A k \in LineEnds(t) : len <= k
      <4>1. \A k \in LineEnds(t) : len <= k BY <1>3, <3>0, <3>3
      <4>2. LineEnds(t) \subseteq 1..Len(t) BY <3>2, LinesFinite
      <4>3. PICK k \in LineEnds(t) : k \in 1..Len(t) BY <3>4, <4>2
      <4>4. len <= k /\ Len(t) \in Nat BY <3>0, <3>2, <4>1, <4>3
      <4>. QED BY <3>0, <4>1, <4>3, <4>4
    <3>6. u \in Seq(Chars) /\ Len(u) = Len(t) - len /\ Dist(q, d) = Dist(r, d) - len
          /\ \A k \in 1..Len(u) : u[k] = t[k + len]
      <4>1. len \in 0..Dist(r, d) BY <3>0, <3>2, <3>5
      <4>2. Dist(q, d) = Dist(r, d) - len BY <1>1, <1>8, <4>1, Passed
      <4>3. PICK x \in Ix, y \in Ix, g \in [Ix -> Chars] : x = r /\ y = d /\ g = b
        BY <1>1
      <4>4. len \in 0..Dist(x, y) /\ q = (x + len) % N BY <1>8, <4>1, <4>3
      <4>5. /\ Len(Seg(g, (x + len) % N, y)) = Dist(x, y) - len
            /\ \A k \in 1..(Dist(x, y) - len) :
                 Seg(g, (x + len) % N, y)[k] = Seg(g, x, y)[k + len]
        BY <4>4, SegRest
      <4>6. Seg(g, q, y) \in Seq(Chars) BY SegSeq
      <4>. QED BY <3>1, <3>2, <4>2, <4>3, <4>4, <4>5, <4>6
    <3>7. Cardinality(LineEnds(u)) =
            Cardinality(LineEnds(t)) - (IF t[len] = Newline THEN 1 ELSE 0)
      BY <3>2, <3>5, <3>6, LinesDropped
    <3>8. t[len] = s[len] BY <3>2, <3>5
    <3>9. ring'.nline = Cardinality(LineEnds(u))
      BY <1>5, <1>9, <2>1, <3>0, <3>1, <3>7, <3>8
    <3>10. Dist(q, d) <= Dist(q, w) BY <1>8, <2>1, <3>0, <3>6
    <3>11. LinesCounted' BY <1>9, <3>1, <3>9, <3>10 DEF LinesCounted, Slice, Seg, Dist
    <3>. QED BY <1>10, <2>3, <3>11 DEF RInv
  <2>. QED BY <2>4, <2>5
<1>. QED BY <1>11, <1>12

AskOK == ask \in Asks \cup {NoAsk}

LEMMA NextRInv ==
  ASSUME RInv, AskOK, [Next]_vars
  PROVE  RInv' /\ AskOK'
<1>1. CASE (UNCHANGED vars) \/ TtyReceive \/ Blink \/ TtyPost \/ Others
  <2>1. UNCHANGED <<ring, unread, overrun, ask>>
    BY <1>1 DEF vars, TtyReceive, Blink, TtyPost, Others, ttyvars
  <2>. QED BY <2>1, RingSame DEF AskOK
<1>2. ASSUME NEW c \in Chars, Key(c) PROVE RInv' /\ AskOK'
  <2>1. ask' = ask /\ (KeyDropped(c) \/ KeyAccepted(c)) BY <1>2 DEF Key
  <2>. QED BY <2>1, KeyKeeps, RingSame DEF AskOK, KeyDropped
<1>3. ASSUME NEW r \in Asks, Ask(r) PROVE RInv' /\ AskOK'
  BY <1>3, RingSame DEF Ask, AskOK
<1>4. CASE Read
  <2>1. ask.op = "read" /\ ask' = NoAsk BY <1>4 DEF Read, Serving
  <2>2. ask \in Asks BY <2>1 DEF AskOK, NoAsk
  <2>. QED BY <1>4, <2>1, <2>2, ReadKeeps DEF AskOK
<1>5. CASE Open \/ Write \/ Stray
  <2>1. ask' = NoAsk /\ UNCHANGED <<ring, unread, overrun>>
    BY <1>5 DEF Open, Write, Stray
  <2>. QED BY <2>1, RingSame DEF AskOK
<1>6. CASE Drain
  <2>1. ask' = ask BY <1>6 DEF Drain
  <2>. QED BY <1>6, <2>1, DrainKeeps DEF AskOK
<1>. QED BY <1>1, <1>2, <1>3, <1>4, <1>5, <1>6 DEF Next, TtyTask

LEMMA InitRInv == Init => RInv /\ AskOK
<1> SUFFICES ASSUME Init PROVE RInv /\ AskOK OBVIOUS
<1>1. /\ ring = [buf |-> [i \in Ix |-> Newline], wp |-> 0, rp |-> 0, dp |-> 0, nline |-> 0]
      /\ unread = <<>> /\ overrun = FALSE /\ ask = NoAsk
  BY DEF Init, Ix
<1>2. 0 \in Ix /\ Newline \in Chars /\ N \in Nat /\ N > 1 BY TerminalAssumption, Mod DEF Ix
<1>3. RingTyped BY <1>1, <1>2 DEF RingTyped
<1>4. Dist(0, 0) = 0 BY <1>2, Mod DEF Dist
<1>5. Slice(0, 0) = <<>>
  <2>1. Seg(ring.buf, 0, 0) \in Seq(Chars) /\ Len(Seg(ring.buf, 0, 0)) = 0
    BY <1>2, <1>3, <1>4, SegSeq DEF RingTyped
  <2>. QED BY <2>1, SliceIsSeg
<1>6. LineEnds(<<>>) = {} BY DEF LineEnds
<1>7. Cardinality(LineEnds(<<>>)) = 0 BY <1>6, FS_EmptySet
<1>8. InOrder BY <1>1, <1>5 DEF InOrder
<1>9. LinesCounted BY <1>1, <1>4, <1>5, <1>7 DEF LinesCounted, Dist
<1>. QED BY <1>1, <1>3, <1>8, <1>9 DEF RInv, AskOK

\* Until a key overruns the ring, what is between the read and the write index
\* is what was typed and not read, in its order: the interrupt and the task
\* that share the ring need no lock for it.
THEOREM InOrderAlways == Spec => []InOrder
<1>1. RInv /\ AskOK /\ [Next]_vars => RInv' /\ AskOK' BY NextRInv
<1>2. RInv => InOrder BY DEF RInv
<1>. QED BY <1>1, <1>2, InitRInv, PTL DEF Spec

\* Until then the count of lines is that of the whole lines displayed and not
\* read.
THEOREM LinesCountedAlways == Spec => []LinesCounted
<1>1. RInv /\ AskOK /\ [Next]_vars => RInv' /\ AskOK' BY NextRInv
<1>2. RInv => LinesCounted BY DEF RInv
<1>. QED BY <1>1, <1>2, InitRInv, PTL DEF Spec
=============================================================================
