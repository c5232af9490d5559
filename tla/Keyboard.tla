------------------------------ MODULE Keyboard ------------------------------
(***************************************************************************)
(* The keyboard interrupt of the terminal (kernel/tty.c): PS/2 scan codes, *)
(* a byte an interrupt, become the characters of the ring, the map of keys *)
(* that are down, the state of the modifiers and CTRL-ALT-DEL.             *)
(*                                                                         *)
(* A key is [code, ext]: the right CTRL and ALT and the DEL of the cursor  *)
(* pad have the codes of others behind a 0xE0, and the map and the tables  *)
(* see seven bits of a code, so that F7 (0x83) is F5 (0x03) to them.  What *)
(* a keyboard sends by itself counts as keys too: the fake SHIFT (0xE0     *)
(* 0x12) it sends around the keys of the cursor pad, up or down first, and *)
(* bytes it never takes back (the 0xE1 of PAUSE, the 0xAA of its test).  A *)
(* keyboard sends the bytes of the next key when those of the last have    *)
(* been taken.                                                             *)
(***************************************************************************)
EXTENDS Integers, Sequences

CONSTANTS Keys     \* the keys of the keyboard, records [code, ext]

LSHIFT == 18   \* 0x12
RSHIFT == 89   \* 0x59
CTRL   == 20   \* 0x14
ALT    == 17   \* 0x11
DEL    == 113  \* 0x71
EXT    == 224  \* 0xE0
BREAK  == 240  \* 0xF0

FakeShift == [code |-> LSHIFT, ext |-> TRUE]

ASSUME KeyboardAssumption ==
    Keys \subseteq [code : (0..255) \ {EXT, BREAK}, ext : BOOLEAN]

VARIABLES
    held,    \* the keys that are down
    wire,    \* bytes on their way
    kbd,     \* _kbd_extended, _kbd_break, _kbd_shifted, _kbd_ctrled, _kbd_alted
    pos,     \* _kbd_keys_pos: the folded codes whose bit is set
    resets   \* SIGALRMs sent to the system task, to 1

kbdvars == <<held, wire, kbd, pos, resets>>

KbdInit ==
    /\ held = {} /\ wire = <<>> /\ pos = {} /\ resets = 0
    /\ kbd = [ext |-> 0, brk |-> 0, shifted |-> 0, ctrled |-> 0, alted |-> 0]

Bytes(k, brk) == (IF k.ext THEN <<EXT>> ELSE <<>>)
                 \o (IF brk THEN <<BREAK>> ELSE <<>>) \o <<k.code>>

(* The index into the map and the tables. *)
Fold(code) == code % 128

(* The keyboard: a key goes down (or repeats), a key goes up. *)
Press(k) ==
    /\ wire = <<>>
    /\ wire' = Bytes(k, FALSE) /\ held' = held \cup {k}
    /\ UNCHANGED <<kbd, pos, resets>>

Release(k) ==
    /\ wire = <<>> /\ (k \in held \/ k = FakeShift)
    /\ wire' = Bytes(k, TRUE) /\ held' = held \ {k}
    /\ UNCHANGED <<kbd, pos, resets>>

-----------------------------------------------------------------------------
(* _keyboard_interrupt for the next byte. *)

Prefix ==
    /\ wire # <<>> /\ Head(wire) \in {EXT, BREAK}
    /\ kbd' = IF Head(wire) = EXT THEN [kbd EXCEPT !.ext = 1] ELSE [kbd EXCEPT !.brk = 1]
    /\ wire' = Tail(wire)
    /\ UNCHANGED <<held, pos, resets>>

(* Faulty: a break code that forgets the modifiers. *)
ModifiersSticky(code) ==
    [ext |-> 0, brk |-> 0,
     shifted |-> IF code \in {LSHIFT, RSHIFT} THEN 1 ELSE kbd.shifted,
     ctrled  |-> IF code = CTRL THEN 1 - kbd.brk ELSE kbd.ctrled,
     alted   |-> IF code = ALT THEN 1 - kbd.brk ELSE kbd.alted]

Modifiers(code) ==
    [ext |-> 0, brk |-> 0,
     shifted |-> IF code \in {LSHIFT, RSHIFT} THEN 1 - kbd.brk ELSE kbd.shifted,
     ctrled  |-> IF code = CTRL THEN 1 - kbd.brk ELSE kbd.ctrled,
     alted   |-> IF code = ALT THEN 1 - kbd.brk ELSE kbd.alted]

(* The code gives a character, shifted or not. *)
Plain(code) == code \notin {LSHIFT, RSHIFT, CTRL, ALT} /\ kbd.brk = 0

(* Faulty: CTRL-ALT-DEL on the way up as well. *)
ResetsBoth(code) == kbd.ctrled = 1 /\ kbd.alted = 1 /\ code = DEL
Resets(code) == Plain(code) /\ kbd.ctrled = 1 /\ kbd.alted = 1 /\ code = DEL

Code ==
    /\ wire # <<>> /\ Head(wire) \notin {EXT, BREAK}
    /\ LET code == Head(wire)
       IN /\ pos' = IF kbd.brk = 1 THEN pos \ {Fold(code)} ELSE pos \cup {Fold(code)}
          /\ kbd' = Modifiers(code)
          /\ resets' = IF Resets(code) THEN 1 ELSE resets
    /\ wire' = Tail(wire)
    /\ UNCHANGED held

-----------------------------------------------------------------------------
Down(code) == \E k \in held : k.code = code

(* A modifier counts as down only while a key with its code is, the fake    *)
(* SHIFT among them, and a bit of the map is set only while a key is down   *)
(* whose code folds onto it: the release of one of two (both SHIFTs, F5 and *)
(* F7) may drop it too early, never too late.                               *)
NoneInvented ==
    wire = <<>> =>
       /\ kbd.shifted = 1 => Down(LSHIFT) \/ Down(RSHIFT)
       /\ kbd.ctrled = 1 => Down(CTRL)
       /\ kbd.alted = 1 => Down(ALT)
       /\ \A c \in pos : \E k \in held : Fold(k.code) = c

(* The machine is reset only when DEL goes down with CTRL and ALT down      *)
(* (tty.c:617-621), never by their going up in whatever order.              *)
ResetMeant ==
    [][resets' > resets => Down(CTRL) /\ Down(ALT) /\ Down(DEL)]_<<resets>>
=============================================================================
