------------------------------- MODULE Screen -------------------------------
(***************************************************************************)
(* The screens of the terminal task (kernel/tty.c): the character table of *)
(* each terminal, and the frame buffer, where the graphics processor draws *)
(* the characters of the one that is live and which rolls when it scrolls. *)
(*                                                                         *)
(* A character is CZ raster lines high (five of 512 bytes in the code) and *)
(* the frame buffer has R of them (256), which need not be a multiple of   *)
(* CZ.  The processor is taken to have executed a display list before the  *)
(* next one is written, and to roll like ROLL_FB.                          *)
(***************************************************************************)
EXTENDS Integers, Sequences

CONSTANTS W, H,      \* columns and rows (80 and 48)
          CZ, R,     \* raster lines of a character and of the frame buffer
          Ttys,      \* minor numbers, 0 the live one
          Blank, Newline

ASSUME ScreenAssumption ==
    /\ {W, H, CZ, R} \subseteq Nat \ {0} /\ H >= 2 /\ R >= CZ * (H + 1)
    /\ 0 \in Ttys

Live == 0
Cols == 0..W-1
Rows == 0..H-1

VARIABLES
    tab,      \* [cells, px, py, toggle, echo, cursor] of each terminal
    base,     \* _tty_fb_addr, in raster lines
    vram,     \* vram[r][x]: <<character, its slice, reversed>>
    lines,    \* history: the lines written to the live terminal
    foreign   \* history: a terminal that is not live has scrolled

screenvars == <<tab, base, vram, lines, foreign>>

EmptyRow == [x \in Cols |-> Blank]

(* tty_task's setup and _gpu_redraw: the rows are drawn, the rest of the    *)
(* frame buffer holds anything.                                             *)
ScreenInit ==
    /\ tab = [t \in Ttys |-> [cells |-> [y \in Rows |-> EmptyRow], px |-> 0, py |-> 1,
                              toggle |-> 0, echo |-> TRUE, cursor |-> TRUE]]
    /\ base = 0
    /\ vram = [r \in 0..R-1 |-> [x \in Cols |->
                 IF r < H * CZ THEN <<Blank, r % CZ, 0>> ELSE <<-1, 0, 0>>]]
    /\ lines = <<EmptyRow, EmptyRow>>
    /\ foreign = FALSE

-----------------------------------------------------------------------------
(* _gpu_draw and _gpu_clear_line: what the frame buffer v becomes when the  *)
(* picture starts at raster line b.                                         *)
Drawn(v, b, x, y, c, lut) ==
    [r \in 0..R-1 |-> LET k == (r - b - CZ * y) % R
                      IN IF k < CZ THEN [v[r] EXCEPT ![x] = <<c, k, lut>>] ELSE v[r]]

Cleared(v, b, y) ==
    [r \in 0..R-1 |-> LET k == (r - b - CZ * y) % R
                      IN IF k < CZ THEN [x \in Cols |-> <<Blank, k, 0>>] ELSE v[r]]

(* The cursor is removed by drawing a space in its place. *)
Uncursored(t) ==
    IF t = Live THEN Drawn(vram, base, tab[t].px, tab[t].py, Blank, 0) ELSE vram

(* _tty_putc of a new line, above the last row. *)
NextLine(t) ==
    LET y == tab[t].py + 1
    IN /\ tab[t].py < H - 1
       /\ tab' = [tab EXCEPT ![t].px = 0, ![t].py = y, ![t].cells[y] = EmptyRow]
       /\ vram' = IF t = Live THEN Cleared(Uncursored(t), base, y) ELSE vram
       /\ UNCHANGED <<base, foreign>>

(* Faulty: the row below is cleared after the picture has moved. *)
ScrollLate(t) ==
    /\ tab[t].py = H - 1
    /\ tab' = [tab EXCEPT ![t].px = 0,
                          ![t].cells = [y \in Rows |-> IF y = H - 1 THEN EmptyRow ELSE @[y + 1]]]
    /\ base' = (base + CZ) % R
    /\ vram' = IF t = Live THEN Cleared(Uncursored(t), base', H) ELSE vram
    /\ foreign' = (foreign \/ t # Live)

(* Faulty: the last row keeps its characters. *)
ScrollKeeps(t) ==
    /\ tab[t].py = H - 1
    /\ tab' = [tab EXCEPT ![t].px = 0,
                          ![t].cells = [y \in Rows |-> IF y = H - 1 THEN @[y] ELSE @[y + 1]]]
    /\ base' = (base + CZ) % R
    /\ vram' = IF t = Live THEN Cleared(Uncursored(t), base, H) ELSE vram
    /\ foreign' = (foreign \/ t # Live)

(* On the last row the table moves up, the row below the picture is cleared *)
(* and the picture starts CZ lines further on, for every terminal.          *)
Scroll(t) ==
    /\ tab[t].py = H - 1
    /\ tab' = [tab EXCEPT ![t].px = 0,
                          ![t].cells = [y \in Rows |-> IF y = H - 1 THEN EmptyRow ELSE @[y + 1]]]
    /\ base' = (base + CZ) % R
    /\ vram' = IF t = Live THEN Cleared(Uncursored(t), base, H) ELSE vram
    /\ foreign' = (foreign \/ t # Live)

(* Any other character: the cursor stays in the last column. *)
PutChar(t, c) ==
    /\ tab' = [tab EXCEPT ![t].cells[tab[t].py][tab[t].px] = c,
                          ![t].px = IF @ < W - 1 THEN @ + 1 ELSE @]
    /\ vram' = IF t = Live THEN Drawn(vram, base, tab[t].px, tab[t].py, c, 0) ELSE vram
    /\ UNCHANGED <<base, foreign>>

Putc(t, c) ==
    /\ IF c = Newline THEN NextLine(t) \/ Scroll(t) ELSE PutChar(t, c)
    /\ lines' = IF t # Live THEN lines
                ELSE IF c = Newline THEN Append(lines, EmptyRow)
                ELSE [lines EXCEPT ![Len(lines)][tab[t].px] = c]

(* The end of a turn of the main loop: the cursor blinks (an event) or      *)
(* stands (after a write or an echo), and is drawn as a space.              *)
DrawCursor(toggle) ==
    /\ tab' = [tab EXCEPT ![Live].toggle = toggle]
    /\ vram' = IF tab[Live].cursor
               THEN Drawn(vram, base, tab[Live].px, tab[Live].py, Blank, toggle)
               ELSE vram
    /\ UNCHANGED <<base, lines, foreign>>

(* TTY_IOCTL_SET_FLAGS. *)
SetFlags(t, e, c) ==
    /\ tab' = [tab EXCEPT ![t].echo = e, ![t].cursor = c]
    /\ UNCHANGED <<base, vram, lines, foreign>>

-----------------------------------------------------------------------------
(* While no hidden terminal scrolls (tty.c:846 moves the picture for any),  *)
(* the picture is the live terminal's table: each character of it is at its *)
(* place, whole, and not reversed, however often the frame buffer has been  *)
(* rolled round.  Not the cursor's cell, and not the last column, where the *)
(* cursor stays on the character it has just erased (tty.c:856, 817).       *)
Shown ==
    foreign \/
    \A y \in Rows, x \in Cols \ {W - 1} : \A k \in 0..CZ-1 :
       \/ y = tab[Live].py /\ x = tab[Live].px
       \/ vram[(base + CZ * y + k) % R][x] = <<tab[Live].cells[y][x], k, 0>>

(* The table holds the last lines that were written, in order, each with    *)
(* what did not fit overwriting its last column (tty.c:816-862).            *)
TableIsTail ==
    \A y \in Rows :
       tab[Live].cells[y] = IF y > tab[Live].py THEN EmptyRow
                            ELSE lines[Len(lines) - tab[Live].py + y]
=============================================================================
