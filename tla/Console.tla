------------------------------ MODULE Console ------------------------------
(***************************************************************************)
(* Keyboard and screen together, as the terminal task joins them: the keys *)
(* typed are echoed on the live terminal, processes write to any terminal  *)
(* and change its flags.  The ring between interrupt and task, with its    *)
(* limits, is in module Terminal; here it is the sequence typed.           *)
(***************************************************************************)
EXTENDS Screen, Keyboard

CONSTANTS Table,      \* _ps2_codes_tbl and _ps2_codes_shifted_tbl: Table[s][folded code]
          Written,    \* characters a process writes
          MaxChars,   \* bound: characters typed or written
          Small       \* bound: the keys used once there is a character

ASSUME ConsoleAssumption == Small \subseteq Keys

VARIABLES
    typed,    \* characters between the interrupt and the task
    n         \* bound: characters so far

vars == <<screenvars, kbdvars, typed, n>>

Chars == {Blank} \cup Written \cup {Table[s][Fold(k.code)] : s \in {0, 1}, k \in Keys}

Init == ScreenInit /\ KbdInit /\ typed = <<>> /\ n = 0

(* The character a code gives, 0 for none. *)
Key(code) == IF Plain(code) THEN Table[kbd.shifted][Fold(code)] ELSE 0

KeyCode ==
    /\ Code
    /\ IF Key(Head(wire)) = 0 THEN UNCHANGED <<typed, n>>
       ELSE /\ n < MaxChars /\ held \subseteq Small
            /\ n' = n + 1 /\ typed' = Append(typed, Key(Head(wire)))
    /\ UNCHANGED screenvars

KeyPrefix == Prefix /\ UNCHANGED <<screenvars, typed, n>>

Keyboard ==
    /\ \/ \E k \in (IF n = 0 THEN Keys ELSE Small) : Press(k)
       \/ \E k \in Keys : Release(k)
    /\ UNCHANGED <<screenvars, typed, n>>

(* The event branch, one character: those with bit 7 set are not displayed. *)
Echo ==
    /\ typed # <<>> /\ typed' = Tail(typed)
    /\ IF Head(typed) >= 128 \/ ~tab[Live].echo THEN UNCHANGED screenvars
       ELSE Putc(Live, Head(typed))
    /\ UNCHANGED <<kbdvars, n>>

(* DEV_WRITE, one character. *)
Write(t, c) ==
    /\ n < MaxChars /\ held \subseteq Small /\ n' = n + 1
    /\ Putc(t, c)
    /\ UNCHANGED <<kbdvars, typed>>

Cursor ==
    /\ \E toggle \in {1, 1 - tab[Live].toggle} : DrawCursor(toggle)
    /\ UNCHANGED <<kbdvars, typed, n>>

(* Nothing reads the flags of a terminal that is not live. *)
Flags ==
    /\ \E e, c \in BOOLEAN : SetFlags(Live, e, c)
    /\ UNCHANGED <<kbdvars, typed, n>>

Next == KeyCode \/ KeyPrefix \/ Keyboard \/ Echo \/ Cursor \/ Flags
        \/ \E t \in Ttys, c \in Written : Write(t, c)

Spec == Init /\ [][Next]_vars
=============================================================================
