--------------------------- MODULE ConsoleProofs ---------------------------
(***************************************************************************)
(* Proofs about Console, for every set of keys, every keyboard table, any  *)
(* number of terminals and every size of the screen, of its characters and *)
(* of the frame buffer.                                                    *)
(*                                                                         *)
(* Keyboard: between two bytes of a key the modifiers and the map may be   *)
(* one key late, the one that is being released (Sound).  Screen: what is  *)
(* right of the cursor is blank (Ahead), so the space that removes the     *)
(* cursor erases nothing; the arithmetic is that of raster lines modulo R. *)
(***************************************************************************)
EXTENDS Console, TLAPS

-----------------------------------------------------------------------------
(* The keyboard.                                                           *)

Bit == {0, 1}

KeyboardType ==
    /\ held \subseteq Keys /\ resets \in Bit
    /\ kbd \in [ext : Bit, brk : Bit, shifted : Bit, ctrled : Bit, alted : Bit]

(* What is left of the bytes of a key. *)
Coming(k, brk) ==
    \/ wire = <<k.code>> /\ kbd.brk = (IF brk THEN 1 ELSE 0)
    \/ wire = <<BREAK, k.code>> /\ brk /\ kbd.brk = 0
    \/ wire = <<EXT, k.code>> /\ ~brk /\ kbd.brk = 0
    \/ wire = <<EXT, BREAK, k.code>> /\ brk /\ kbd.brk = 0

(* What counts as down is down, or has the code that is going up. *)
Sound(gone) ==
    /\ kbd.shifted = 1 => Down(LSHIFT) \/ Down(RSHIFT) \/ gone \cap {LSHIFT, RSHIFT} # {}
    /\ kbd.ctrled = 1 => Down(CTRL) \/ CTRL \in gone
    /\ kbd.alted = 1 => Down(ALT) \/ ALT \in gone
    /\ \A c \in pos : \/ \E k \in held : Fold(k.code) = c
                      \/ \E g \in gone : Fold(g) = c

KInv ==
    /\ KeyboardType
    /\ \/ wire = <<>> /\ kbd.brk = 0 /\ Sound({})
       \/ \E k \in Keys : Coming(k, FALSE) /\ k \in held /\ Sound({})
       \/ \E k \in Keys : Coming(k, TRUE) /\ Sound({k.code})

LEMMA KeyCodes ==
  \A k \in Keys : k.code \in 0..255 /\ k.code \notin {EXT, BREAK} /\ k.ext \in BOOLEAN
BY KeyboardAssumption

LEMMA BytesOf ==
  ASSUME NEW k \in Keys
  PROVE  /\ Bytes(k, FALSE) \in {<<k.code>>, <<EXT, k.code>>}
         /\ Bytes(k, TRUE) \in {<<BREAK, k.code>>, <<EXT, BREAK, k.code>>}
<1>1. \A a \in Int : <<>> \o <<a>> = <<a>> OBVIOUS
<1>2. ASSUME NEW a \in Int, NEW b \in Int PROVE <<a>> \o <<b>> = <<a, b>>
  <2>1. \A s \in Seq(Int) : Len(s) = 2 => s = <<s[1], s[2]>> OBVIOUS
  <2>2. PICK s : s = <<a>> \o <<b>> OBVIOUS
  <2>3. s \in Seq(Int) /\ Len(s) = 2 /\ s[1] = a /\ s[2] = b BY <2>2
  <2>. QED BY <2>1, <2>2, <2>3
<1>3. ASSUME NEW a \in Int, NEW b \in Int, NEW c \in Int PROVE <<a, b>> \o <<c>> = <<a, b, c>>
  <2>1. \A s \in Seq(Int) : Len(s) = 3 => s = <<s[1], s[2], s[3]>> OBVIOUS
  <2>2. PICK s : s = <<a, b>> \o <<c>> OBVIOUS
  <2>3. s \in Seq(Int) /\ Len(s) = 3 /\ s[1] = a /\ s[2] = b /\ s[3] = c BY <2>2
  <2>. QED BY <2>1, <2>2, <2>3
<1>4. <<>> \o <<>> = <<>> OBVIOUS
<1>5. \A a \in Int : <<a>> \o <<>> = <<a>> OBVIOUS
<1>6. k.code \in Int /\ k.ext \in BOOLEAN /\ EXT \in Int /\ BREAK \in Int
  BY KeyCodes DEF EXT, BREAK
<1>7. CASE k.ext
  <2>1. Bytes(k, FALSE) = (<<EXT>> \o <<>>) \o <<k.code>> BY <1>7 DEF Bytes
  <2>2. Bytes(k, TRUE) = (<<EXT>> \o <<BREAK>>) \o <<k.code>> BY <1>7 DEF Bytes
  <2>. QED BY <2>1, <2>2, <1>2, <1>3, <1>5, <1>6
<1>8. CASE ~k.ext
  <2>1. Bytes(k, FALSE) = (<<>> \o <<>>) \o <<k.code>> BY <1>8 DEF Bytes
  <2>2. Bytes(k, TRUE) = (<<>> \o <<BREAK>>) \o <<k.code>> BY <1>8 DEF Bytes
  <2>. QED BY <2>1, <2>2, <1>1, <1>2, <1>4, <1>6
<1>. QED BY <1>6, <1>7, <1>8

LEMMA InitKInv == KbdInit => KInv
<1> SUFFICES ASSUME KbdInit PROVE KInv OBVIOUS
<1>1. KeyboardType BY DEF KbdInit, KeyboardType, Bit
<1>2. wire = <<>> /\ kbd.brk = 0 /\ Sound({}) BY DEF KbdInit, Sound
<1>. QED BY <1>1, <1>2 DEF KInv

LEMMA PressKeeps ==
  ASSUME KInv, NEW k \in Keys, Press(k)
  PROVE  KInv'
<1>1. wire = <<>> /\ kbd.brk = 0 /\ Sound({}) BY DEF KInv, Coming, Press
<1>2. held' = held \cup {k} /\ UNCHANGED <<kbd, pos, resets>> BY DEF Press
<1>3. KeyboardType' BY <1>2 DEF KInv, KeyboardType
<1>4. \A c : Down(c) => Down(c)' BY <1>2 DEF Down
<1>5. Sound({})' BY <1>1, <1>2, <1>4 DEF Sound
<1>6. wire' = <<k.code>> \/ wire' = <<EXT, k.code>> BY BytesOf DEF Press
<1>7. Coming(k, FALSE)' BY <1>1, <1>2, <1>6 DEF Coming
<1>. QED BY <1>2, <1>3, <1>5, <1>7 DEF KInv

LEMMA ReleaseKeeps ==
  ASSUME KInv, NEW k \in Keys, Release(k)
  PROVE  KInv'
<1>1. wire = <<>> /\ kbd.brk = 0 /\ Sound({}) BY DEF KInv, Coming, Release
<1>2. held' = held \ {k} /\ UNCHANGED <<kbd, pos, resets>> BY DEF Release
<1>3. KeyboardType' BY <1>2 DEF KInv, KeyboardType
<1>4. \A c : Down(c) => Down(c)' \/ c = k.code BY <1>2 DEF Down
<1>5. Sound({k.code})'
  <2>1. kbd.shifted = 1 => Down(LSHIFT) \/ Down(RSHIFT) BY <1>1 DEF Sound
  <2>2. kbd.ctrled = 1 => Down(CTRL) BY <1>1 DEF Sound
  <2>3. kbd.alted = 1 => Down(ALT) BY <1>1 DEF Sound
  <2>4. ASSUME NEW c \in pos
        PROVE  (\E j \in held' : Fold(j.code) = c) \/ Fold(k.code) = c
    <3>1. PICK j \in held : Fold(j.code) = c BY <1>1 DEF Sound
    <3>. QED BY <1>2, <3>1
  <2>. QED BY <1>2, <1>4, <2>1, <2>2, <2>3, <2>4 DEF Sound
<1>6. wire' = <<BREAK, k.code>> \/ wire' = <<EXT, BREAK, k.code>> BY BytesOf DEF Release
<1>7. Coming(k, TRUE)' BY <1>1, <1>2, <1>6 DEF Coming
<1>. QED BY <1>3, <1>5, <1>7 DEF KInv

\* Bytes of a key: which of them the next one is.
LEMMA NextByte ==
  ASSUME NEW k \in Keys, NEW brk \in BOOLEAN, Coming(k, brk)
  PROVE  /\ wire # <<>> /\ k.code \notin {EXT, BREAK}
         /\ \/ Head(wire) = k.code /\ Tail(wire) = <<>> /\ (kbd.brk = 1 <=> brk)
            \/ Head(wire) = BREAK /\ Tail(wire) = <<k.code>> /\ brk /\ kbd.brk = 0
            \/ Head(wire) = EXT /\ Tail(wire) = <<k.code>> /\ ~brk /\ kbd.brk = 0
            \/ Head(wire) = EXT /\ Tail(wire) = <<BREAK, k.code>> /\ brk /\ kbd.brk = 0
<1>1. k.code \in Int /\ EXT \in Int /\ BREAK \in Int BY KeyCodes DEF EXT, BREAK
<1>2. k.code \notin {EXT, BREAK} BY KeyCodes DEF EXT, BREAK
<1>3. \A a \in Int : <<a>> # <<>> /\ Head(<<a>>) = a /\ Tail(<<a>>) = <<>> OBVIOUS
<1>4. \A a, b \in Int : <<a, b>> # <<>> /\ Head(<<a, b>>) = a /\ Tail(<<a, b>>) = <<b>> OBVIOUS
<1>5. \A a, b, c \in Int : /\ <<a, b, c>> # <<>> /\ Head(<<a, b, c>>) = a
                           /\ Tail(<<a, b, c>>) = <<b, c>>
  OBVIOUS
<1>6. CASE wire = <<k.code>> /\ kbd.brk = (IF brk THEN 1 ELSE 0) BY <1>1, <1>2, <1>3, <1>6
<1>7. CASE wire = <<BREAK, k.code>> /\ brk /\ kbd.brk = 0 BY <1>1, <1>2, <1>4, <1>7
<1>8. CASE wire = <<EXT, k.code>> /\ ~brk /\ kbd.brk = 0 BY <1>1, <1>2, <1>4, <1>8
<1>9. CASE wire = <<EXT, BREAK, k.code>> /\ brk /\ kbd.brk = 0 BY <1>1, <1>2, <1>5, <1>9
<1>. QED BY <1>6, <1>7, <1>8, <1>9 DEF Coming

LEMMA PrefixKeeps ==
  ASSUME KInv, Prefix
  PROVE  KInv'
<1>1. /\ wire # <<>> /\ Head(wire) \in {EXT, BREAK} /\ wire' = Tail(wire)
      /\ UNCHANGED <<held, pos, resets>>
      /\ kbd' = IF Head(wire) = EXT THEN [kbd EXCEPT !.ext = 1] ELSE [kbd EXCEPT !.brk = 1]
  BY DEF Prefix
<1>2. PICK q : q = kbd' OBVIOUS
<1>3. /\ q \in [ext : Bit, brk : Bit, shifted : Bit, ctrled : Bit, alted : Bit]
      /\ q.brk = (IF Head(wire) = EXT THEN kbd.brk ELSE 1)
      /\ q.shifted = kbd.shifted /\ q.ctrled = kbd.ctrled /\ q.alted = kbd.alted
  BY <1>1, <1>2 DEF KInv, KeyboardType, Bit
<1>4. KeyboardType' BY <1>1, <1>2, <1>3 DEF KInv, KeyboardType
<1>5. \A c : Down(c)' <=> Down(c) BY <1>1 DEF Down
<1>6. \A gone : Sound(gone) => Sound(gone)' BY <1>1, <1>2, <1>3, <1>5 DEF Sound
<1>7. PICK k \in Keys, brk \in BOOLEAN :
        Coming(k, brk) /\ (brk => Sound({k.code})) /\ (~brk => k \in held /\ Sound({}))
  BY <1>1 DEF KInv
<1>8. Coming(k, brk)'
  <2>1. CASE Head(wire) = BREAK
    <3>1. Tail(wire) = <<k.code>> /\ brk BY <1>1, <1>7, <2>1, NextByte DEF EXT, BREAK
    <3>2. kbd'.brk = 1 BY <1>2, <1>3, <2>1 DEF EXT, BREAK
    <3>. QED BY <1>1, <3>1, <3>2 DEF Coming
  <2>2. CASE Head(wire) = EXT
    <3>1. /\ Tail(wire) = (IF brk THEN <<BREAK, k.code>> ELSE <<k.code>>)
          /\ kbd.brk = 0
      BY <1>1, <1>7, <2>2, NextByte DEF EXT, BREAK
    <3>2. kbd'.brk = 0 BY <1>2, <1>3, <2>2, <3>1
    <3>. QED BY <1>1, <3>1, <3>2 DEF Coming
  <2>. QED BY <1>1, <2>1, <2>2
<1>. QED BY <1>1, <1>4, <1>6, <1>7, <1>8 DEF KInv

LEMMA CodeKeeps ==
  ASSUME KInv, Code
  PROVE  /\ KInv' /\ Head(wire) \in {k.code : k \in Keys}
         /\ resets' > resets => Down(CTRL) /\ Down(ALT) /\ Down(DEL)
<1>1. /\ wire # <<>> /\ Head(wire) \notin {EXT, BREAK} /\ wire' = Tail(wire)
      /\ held' = held /\ kbd' = Modifiers(Head(wire))
      /\ pos' = IF kbd.brk = 1 THEN pos \ {Fold(Head(wire))} ELSE pos \cup {Fold(Head(wire))}
      /\ resets' = IF Resets(Head(wire)) THEN 1 ELSE resets
  BY DEF Code
<1>2. PICK k \in Keys, brk \in BOOLEAN :
        Coming(k, brk) /\ (brk => Sound({k.code})) /\ (~brk => k \in held /\ Sound({}))
  BY <1>1 DEF KInv
<1>3. Head(wire) = k.code /\ Tail(wire) = <<>> /\ (kbd.brk = 1 <=> brk)
  BY <1>1, <1>2, NextByte
<1>4. PICK q : q = kbd' OBVIOUS
<1>5. kbd.brk \in Bit /\ kbd.shifted \in Bit /\ kbd.ctrled \in Bit /\ kbd.alted \in Bit
  BY DEF KInv, KeyboardType
<1>6. /\ q.brk = 0
      /\ q.shifted = IF k.code \in {LSHIFT, RSHIFT} THEN 1 - kbd.brk ELSE kbd.shifted
      /\ q.ctrled = IF k.code = CTRL THEN 1 - kbd.brk ELSE kbd.ctrled
      /\ q.alted = IF k.code = ALT THEN 1 - kbd.brk ELSE kbd.alted
      /\ q \in [ext : Bit, brk : Bit, shifted : Bit, ctrled : Bit, alted : Bit]
  BY <1>1, <1>3, <1>4, <1>5 DEF Modifiers, Bit
<1>7. KeyboardType' BY <1>1, <1>4, <1>6 DEF KInv, KeyboardType, Bit
<1>8. \A c : Down(c)' <=> Down(c) BY <1>1 DEF Down
<1>9. ~brk => Down(k.code) BY <1>2 DEF Down
<1>10. Sound({})'
  <2>1. CASE brk
    <3>1. kbd.brk = 1 /\ Sound({k.code}) BY <1>2, <1>3, <2>1
    <3>. QED BY <1>1, <1>3, <1>4, <1>5, <1>6, <1>8, <2>1, <3>1 DEF Sound, Bit
  <2>2. CASE ~brk
    <3>1. kbd.brk = 0 /\ Sound({}) BY <1>2, <1>3, <1>5, <2>2 DEF Bit
    <3>2. ASSUME NEW c \in pos' PROVE \E j \in held' : Fold(j.code) = c
      <4>1. k \in held' /\ (c \in pos \/ c = Fold(k.code)) BY <1>1, <1>2, <1>3, <2>2, <3>1
      <4>2. ASSUME c \in pos PROVE \E j \in held : Fold(j.code) = c BY <3>1, <4>2 DEF Sound
      <4>. QED BY <1>1, <4>1, <4>2
    <3>. QED BY <1>1, <1>3, <1>4, <1>5, <1>6, <1>8, <1>9, <2>2, <3>1, <3>2 DEF Sound, Bit
  <2>. QED BY <2>1, <2>2
<1>11. KInv' BY <1>1, <1>3, <1>4, <1>6, <1>7, <1>10 DEF KInv
<1>12. ASSUME resets' > resets PROVE Down(CTRL) /\ Down(ALT) /\ Down(DEL)
  <2>1. Resets(Head(wire)) BY <1>1, <1>12 DEF KInv, KeyboardType, Bit
  <2>2. kbd.brk = 0 /\ kbd.ctrled = 1 /\ kbd.alted = 1 /\ k.code = DEL
    BY <2>1, <1>3 DEF Resets, Plain
  <2>3. ~brk BY <2>2, <1>3
  <2>. QED BY <1>2, <1>9, <2>2, <2>3 DEF Sound
<1>. QED BY <1>3, <1>11, <1>12

LEMMA NextKInv ==
  ASSUME KInv, [Next]_vars
  PROVE  KInv' /\ (resets' > resets => Down(CTRL) /\ Down(ALT) /\ Down(DEL))
<1>0. resets \in Int /\ (resets' = resets => ~(resets' > resets))
  BY DEF KInv, KeyboardType, Bit
<1>1. CASE UNCHANGED kbdvars
  <2>1. \A c : Down(c)' <=> Down(c) BY <1>1 DEF Down, kbdvars
  <2>2. \A gone : Sound(gone)' <=> Sound(gone) BY <1>1, <2>1 DEF Sound, kbdvars
  <2>3. \A k, brk : Coming(k, brk)' <=> Coming(k, brk) BY <1>1 DEF Coming, kbdvars
  <2>4. KeyboardType' BY <1>1 DEF KInv, KeyboardType, kbdvars
  <2>5. KInv' BY <1>1, <2>2, <2>3, <2>4 DEF KInv, kbdvars
  <2>. QED BY <1>0, <1>1, <2>5 DEF kbdvars
<1>2. CASE KeyCode BY <1>2, CodeKeeps DEF KeyCode
<1>3. CASE KeyPrefix
  <2>1. Prefix /\ resets' = resets BY <1>3 DEF KeyPrefix, Prefix
  <2>. QED BY <1>0, <2>1, PrefixKeeps
<1>4. CASE Keyboard
  <2>1. resets' = resets BY <1>4 DEF Keyboard, Press, Release
  <2>2. KInv'
    <3>1. ASSUME NEW k \in Keys, Press(k) PROVE KInv' BY <3>1, PressKeeps
    <3>2. ASSUME NEW k \in Keys, Release(k) PROVE KInv' BY <3>2, ReleaseKeeps
    <3>3. Small \subseteq Keys BY ConsoleAssumption
    <3>. QED BY <1>4, <3>1, <3>2, <3>3 DEF Keyboard
  <2>. QED BY <1>0, <2>1, <2>2
<1>5. CASE Echo \/ Cursor \/ Flags \/ \E t \in Ttys, c \in Written : Write(t, c)
  BY <1>5, <1>1 DEF Echo, Cursor, Flags, Write
<1>6. CASE UNCHANGED vars BY <1>1, <1>6 DEF vars
<1>. QED BY <1>2, <1>3, <1>4, <1>5, <1>6 DEF Next

\* No modifier counts as down when no key with its code is, and no bit of the map
\* is set when no key is down whose code folds onto it, however keys that share
\* a code or a bit are pressed, repeated and released, the fake SHIFT included.
THEOREM NoneInventedAlways == Spec => []NoneInvented
<1>1. KInv => NoneInvented
  <2> SUFFICES ASSUME KInv, wire = <<>> PROVE NoneInvented BY DEF NoneInvented
  <2>1. Sound({}) BY NextByte DEF KInv
  <2>. QED BY <2>1 DEF Sound, NoneInvented
<1>2. KInv /\ [Next]_vars => KInv' BY NextKInv
<1>3. Init => KInv BY InitKInv DEF Init
<1>. QED BY <1>1, <1>2, <1>3, PTL DEF Spec

\* The machine is reset only when DEL goes down with CTRL and ALT down.
THEOREM ResetMeantAlways == Spec => ResetMeant
<1>1. KInv /\ [Next]_vars
        => KInv' /\ [resets' > resets => Down(CTRL) /\ Down(ALT) /\ Down(DEL)]_<<resets>>
  BY NextKInv
<1>2. Init => KInv BY InitKInv DEF Init
<1>. QED BY <1>1, <1>2, PTL DEF Spec, ResetMeant

-----------------------------------------------------------------------------
(* Raster lines.                                                           *)

LEMMA Sizes ==
  /\ W \in Nat /\ W > 0 /\ H \in Nat /\ H >= 2 /\ CZ \in Nat /\ CZ > 0 /\ R \in Nat /\ R > 0
  /\ CZ * (H + 1) = CZ * H + CZ /\ CZ * H + CZ <= R /\ Live \in Ttys
BY ScreenAssumption DEF Live

\* The raster line of slice k in row y of a picture that starts at b.
Place(b, y, k) == (b + CZ * y + k) % R

\* Products with CZ keep the order.
LEMMA Product ==
  ASSUME NEW y \in Int, NEW z \in Int, y < z
  PROVE  CZ * y \in Int /\ CZ * z \in Int /\ CZ * y + CZ <= CZ * z
<1>1. CZ \in Nat /\ CZ > 0 BY Sizes
<1>2. z - y - 1 \in Nat OBVIOUS
<1>3. CZ * (z - y - 1) >= 0 BY <1>1, <1>2
<1>4. CZ * (z - y - 1) = CZ * z - CZ * y - CZ BY <1>1
<1>. QED BY <1>1, <1>3, <1>4

\* A row, and the one below the picture, lies within the frame buffer.
LEMMA Within ==
  ASSUME NEW y \in 0..H, NEW k \in 0..CZ-1
  PROVE  CZ * y \in 0..R-1 /\ CZ * y + k \in 0..R-1 /\ CZ * y <= CZ * H
<1>1. CZ * y <= CZ * H /\ CZ * y \in Int /\ CZ * H \in Int
  <2>1. y < H \/ y = H BY Sizes
  <2>2. y < H => CZ * y + CZ <= CZ * H /\ CZ * y \in Int /\ CZ * H \in Int
    BY Product, Sizes
  <2>. QED BY <2>1, <2>2, Sizes
<1>2. CZ * y >= 0 BY Sizes
<1>. QED BY <1>1, <1>2, Sizes

LEMMA ModR ==
  /\ \A x \in 0..R-1 : x % R = x
  /\ \A x \in R..2*R-1 : x % R = x - R
  /\ \A x \in -R..-1 : x % R = x + R
  /\ \A x \in -2*R..-R-1 : x % R = x + 2*R
<1>1. R \in Nat /\ R > 0 BY Sizes
<1>. QED BY <1>1

\* Of the picture that starts at b, raster line r lies in row z if it is less
\* than CZ lines after the row's first.
LEMMA InRow ==
  ASSUME NEW b \in 0..R-1, NEW y \in 0..H, NEW z \in 0..H, NEW k \in 0..CZ-1
  PROVE  /\ Place(b, y, k) \in 0..R-1
         /\ (Place(b, y, k) - b - CZ * z) % R < CZ <=> y = z
         /\ y = z => (Place(b, y, k) - b - CZ * z) % R = k
<1>1. R \in Nat /\ R > 0 /\ CZ \in Nat /\ CZ > 0 /\ CZ * H + CZ <= R BY Sizes
<1>2. PICK j \in 0..R-1, i \in 0..R-1 :
         j = CZ * y + k /\ i = CZ * z /\ i <= CZ * H /\ b + CZ * y + k = b + j
  BY Within, <1>1
<1>3. PICK r : r = Place(b, y, k) OBVIOUS
<1>4. r = IF b + j < R THEN b + j ELSE b + j - R BY <1>1, <1>2, <1>3, ModR DEF Place
<1>5. r \in 0..R-1 BY <1>1, <1>4
<1>6. PICK m : m = (r - b - i) % R OBVIOUS
<1>7. m = IF i <= j THEN j - i ELSE j - i + R
  <2>1. CASE b + j < R
    <3>1. r - b - i = j - i BY <1>4, <2>1
    <3>2. CASE i <= j
      <4>1. j - i \in 0..R-1 BY <1>1, <3>2
      <4>. QED BY <1>6, <3>1, <3>2, <4>1, ModR
    <3>3. CASE ~(i <= j)
      <4>1. j - i \in -R..-1 BY <1>1, <3>3
      <4>. QED BY <1>6, <3>1, <3>3, <4>1, ModR
    <3>. QED BY <3>2, <3>3
  <2>2. CASE ~(b + j < R)
    <3>1. r - b - i = j - i - R BY <1>1, <1>4, <2>2
    <3>2. CASE i <= j
      <4>1. j - i - R \in -R..-1 BY <1>1, <3>2
      <4>2. (j - i - R) % R = (j - i - R) + R BY <4>1, ModR
      <4>. QED BY <1>1, <1>6, <3>1, <3>2, <4>2
    <3>3. CASE ~(i <= j)
      <4>1. j - i - R \in -2*R..-R-1 BY <1>1, <3>3
      <4>2. (j - i - R) % R = (j - i - R) + 2*R BY <4>1, ModR
      <4>. QED BY <1>1, <1>6, <3>1, <3>3, <4>2
    <3>. QED BY <3>2, <3>3
  <2>. QED BY <2>1, <2>2
<1>8. CASE y = z BY <1>1, <1>2, <1>3, <1>5, <1>6, <1>7, <1>8
<1>9. CASE y < z
  <2>1. CZ * y + CZ <= i /\ CZ * y \in Int BY <1>2, <1>9, Product
  <2>2. j < i /\ j \in Int /\ CZ * y >= 0 BY <1>1, <1>2, <2>1
  <2>3. m = j - i + R BY <1>2, <1>7, <2>2
  <2>4. j >= 0 /\ i + CZ <= R
    <3>1. PICK h \in Nat : h = CZ * H BY Sizes
    <3>. QED BY <1>1, <1>2, <3>1
  <2>5. m >= CZ BY <1>1, <1>2, <2>3, <2>4
  <2>. QED BY <1>1, <1>2, <1>3, <1>5, <1>6, <1>9, <2>3, <2>5
<1>10. CASE y > z
  <2>1. i + CZ <= CZ * y /\ CZ * y \in Int BY <1>2, <1>10, Product
  <2>2. m = j - i /\ m >= CZ BY <1>1, <1>2, <1>7, <2>1
  <2>. QED BY <1>1, <1>2, <1>3, <1>5, <1>6, <1>10, <2>2
<1>. QED BY <1>8, <1>9, <1>10, Sizes

\* The picture moved one row down the frame buffer.
LEMMA MovedRow ==
  ASSUME NEW b \in 0..R-1, NEW y \in Rows, NEW k \in 0..CZ-1
  PROVE  /\ (b + CZ) % R \in 0..R-1
         /\ Place((b + CZ) % R, y, k) = Place(b, y + 1, k)
<1>1. R \in Nat /\ R > 0 /\ CZ \in Nat /\ CZ > 0 /\ CZ * H + CZ <= R /\ H >= 2 /\ H \in Nat BY Sizes
<1>2. y \in 0..H /\ y + 1 \in 0..H /\ 1 \in 0..H BY <1>1 DEF Rows
<1>3. CZ * (y + 1) = CZ * y + CZ BY <1>1, <1>2
<1>4. PICK j \in 0..R-1 : j = CZ * (y + 1) + k BY <1>2, Within
<1>5. PICK i \in 0..R-1 : i = CZ * y + k BY <1>2, Within
<1>6. j = i + CZ BY <1>1, <1>3, <1>4, <1>5, <1>2
<1>7. PICK c : c = (b + CZ) % R OBVIOUS
<1>8. CZ \in 0..R-1 BY <1>1, <1>2, <1>4, <1>5, <1>6
<1>9. c = IF b + CZ < R THEN b + CZ ELSE b + CZ - R BY <1>1, <1>7, <1>8, ModR
<1>10. c \in 0..R-1 BY <1>1, <1>8, <1>9
<1>11. c + CZ * y + k = c + i BY <1>1, <1>2, <1>5, <1>10
<1>12. b + CZ * (y + 1) + k = b + j BY <1>1, <1>2, <1>4
<1>13. (c + i) % R = (b + j) % R
  <2>1. CASE b + CZ < R
    <3>1. c + i = b + j BY <1>1, <1>6, <1>9, <2>1
    <3>. QED BY <3>1
  <2>2. CASE ~(b + CZ < R)
    <3>1. c + i = b + j - R /\ b + j \in R..2*R-1 BY <1>1, <1>6, <1>9, <2>2
    <3>2. c + i \in 0..R-1 BY <1>1, <3>1
    <3>3. \A s \in R..2*R-1 : s % R = s - R BY ModR
    <3>4. (c + i) % R = c + i BY <3>2, ModR
    <3>5. (b + j) % R = b + j - R
      <4>1. PICK s : s = b + j OBVIOUS
      <4>2. s \in R..2*R-1 BY <3>1, <4>1
      <4>3. s % R = s - R BY <3>3, <4>2
      <4>4. s - R = b + j - R BY <1>1, <4>1
      <4>5. s % R = (b + j) % R BY <4>1
      <4>. QED BY <4>3, <4>4, <4>5, Zenon
    <3>. QED BY <3>1, <3>4, <3>5
  <2>. QED BY <2>1, <2>2
<1>. QED BY <1>7, <1>10, <1>11, <1>12, <1>13 DEF Place

-----------------------------------------------------------------------------
(* The frame buffer.                                                       *)

Row == [Cols -> Chars]
Pixel == (Chars \cup {-1}) \X (0..CZ-1) \X Bit
Vram == [0..R-1 -> [Cols -> Pixel]]

\* A character that is drawn is in its cell, whole, and in no other.
LEMMA DrawnCell ==
  ASSUME NEW v \in Vram, NEW b \in 0..R-1, NEW y \in 0..H, NEW x \in Cols,
         NEW c \in Chars, NEW lut \in Bit
  PROVE  /\ Drawn(v, b, x, y, c, lut) \in Vram
         /\ \A z \in 0..H, u \in Cols, k \in 0..CZ-1 :
              Drawn(v, b, x, y, c, lut)[Place(b, z, k)][u]
                = IF z = y /\ u = x THEN <<c, k, lut>> ELSE v[Place(b, z, k)][u]
<1>1. PICK d : d = Drawn(v, b, x, y, c, lut) OBVIOUS
<1>2. \A r \in 0..R-1 : (r - b - CZ * y) % R \in Nat
  <2>1. R \in Nat /\ R > 0 /\ CZ * y \in Int BY Sizes
  <2>2. \A i \in Int : i % R \in Nat BY <2>1
  <2>. QED BY <2>1, <2>2
<1> DEFINE K(r) == (r - b - CZ * y) % R
           F(r) == IF K(r) < CZ THEN [v[r] EXCEPT ![x] = <<c, K(r), lut>>] ELSE v[r]
<1>3. d = [r \in 0..R-1 |-> F(r)] BY <1>1 DEF Drawn
<1>4. \A r \in 0..R-1 : K(r) < CZ => K(r) \in 0..CZ-1 BY <1>2, Sizes
<1> HIDE DEF K
<1>5. \A r \in 0..R-1 : F(r) \in [Cols -> Pixel]
  <2> SUFFICES ASSUME NEW r \in 0..R-1 PROVE F(r) \in [Cols -> Pixel] OBVIOUS
  <2>1. v[r] \in [Cols -> Pixel] BY DEF Vram
  <2>2. K(r) < CZ => <<c, K(r), lut>> \in Pixel BY <1>4 DEF Pixel
  <2>. QED BY <2>1, <2>2
<1>6. d \in Vram BY <1>3, <1>5 DEF Vram
<1>7. ASSUME NEW z \in 0..H, NEW u \in Cols, NEW k \in 0..CZ-1
      PROVE  d[Place(b, z, k)][u] = IF z = y /\ u = x THEN <<c, k, lut>> ELSE v[Place(b, z, k)][u]
  <2>1. PICK r : r = Place(b, z, k) OBVIOUS
  <2>2. r \in 0..R-1 /\ (K(r) < CZ <=> z = y) /\ (z = y => K(r) = k) BY <2>1, InRow DEF K
  <2>3. d[r] = F(r) BY <1>3, <2>2
  <2>4. v[r] \in [Cols -> Pixel] BY <2>2 DEF Vram
  <2>. QED BY <2>1, <2>2, <2>3, <2>4
<1>. QED BY <1>1, <1>6, <1>7

\* A row that is cleared is blank, and the others are as they were.
LEMMA ClearedRow ==
  ASSUME NEW v \in Vram, NEW b \in 0..R-1, NEW y \in 0..H
  PROVE  /\ Cleared(v, b, y) \in Vram
         /\ \A z \in 0..H, u \in Cols, k \in 0..CZ-1 :
              Cleared(v, b, y)[Place(b, z, k)][u]
                = IF z = y THEN <<Blank, k, 0>> ELSE v[Place(b, z, k)][u]
<1>1. PICK d : d = Cleared(v, b, y) OBVIOUS
<1>2. \A r \in 0..R-1 : (r - b - CZ * y) % R \in Nat
  <2>1. R \in Nat /\ R > 0 /\ CZ * y \in Int BY Sizes
  <2>2. \A i \in Int : i % R \in Nat BY <2>1
  <2>. QED BY <2>1, <2>2
<1> DEFINE K(r) == (r - b - CZ * y) % R
           F(r) == IF K(r) < CZ THEN [x \in Cols |-> <<Blank, K(r), 0>>] ELSE v[r]
<1>3. d = [r \in 0..R-1 |-> F(r)] BY <1>1 DEF Cleared
<1>4. \A r \in 0..R-1 : K(r) < CZ => K(r) \in 0..CZ-1 BY <1>2, Sizes
<1> HIDE DEF K
<1>5. \A r \in 0..R-1 : F(r) \in [Cols -> Pixel]
  <2> SUFFICES ASSUME NEW r \in 0..R-1 PROVE F(r) \in [Cols -> Pixel] OBVIOUS
  <2>1. v[r] \in [Cols -> Pixel] BY DEF Vram
  <2>2. K(r) < CZ => <<Blank, K(r), 0>> \in Pixel BY <1>4 DEF Pixel, Chars, Bit
  <2>. QED BY <2>1, <2>2
<1>6. d \in Vram BY <1>3, <1>5 DEF Vram
<1>7. ASSUME NEW z \in 0..H, NEW u \in Cols, NEW k \in 0..CZ-1
      PROVE  d[Place(b, z, k)][u] = IF z = y THEN <<Blank, k, 0>> ELSE v[Place(b, z, k)][u]
  <2>1. PICK r : r = Place(b, z, k) OBVIOUS
  <2>2. r \in 0..R-1 /\ (K(r) < CZ <=> z = y) /\ (z = y => K(r) = k) BY <2>1, InRow DEF K
  <2>3. d[r] = F(r) BY <1>3, <2>2
  <2>. QED BY <2>1, <2>2, <2>3
<1>. QED BY <1>1, <1>6, <1>7

-----------------------------------------------------------------------------
(* The screens.                                                            *)

Tabs == [cells : [Rows -> Row], px : Cols, py : Rows, toggle : Bit,
         echo : BOOLEAN, cursor : BOOLEAN]

ScreenType ==
    /\ tab \in [Ttys -> Tabs]
    /\ base \in 0..R-1 /\ vram \in Vram
    /\ lines \in Seq(Row) /\ Len(lines) > tab[Live].py
    /\ foreign \in BOOLEAN

(* Nothing is written right of the cursor. *)
Ahead ==
    \A x \in Cols : tab[Live].px <= x /\ x < W - 1
                    => tab[Live].cells[tab[Live].py][x] = Blank

ScInv == ScreenType /\ TableIsTail /\ Ahead /\ Shown

(* Shown, of a frame buffer and a table. *)
Shows(v, b, q) ==
    \A y \in Rows, x \in Cols \ {W - 1}, k \in 0..CZ-1 :
       \/ y = q.py /\ x = q.px
       \/ v[Place(b, y, k)][x] = <<q.cells[y][x], k, 0>>

LEMMA ShownIs == Shown <=> foreign \/ Shows(vram, base, tab[Live])
BY DEF Shown, Shows, Place

\* What another terminal does changes nothing that is seen, but for the picture
\* when it scrolls.
LEMMA Elsewhere ==
  ASSUME ScInv, tab' \in [Ttys -> Tabs], tab'[Live] = tab[Live],
         UNCHANGED <<vram, lines>>, base' \in 0..R-1,
         foreign' = TRUE \/ UNCHANGED <<base, foreign>>
  PROVE  ScInv'
<1>1. ScreenType' BY DEF ScInv, ScreenType
<1>2. TableIsTail' BY DEF ScInv, TableIsTail
<1>3. Ahead' BY DEF ScInv, Ahead
<1>4. Shown'
  <2>1. CASE foreign' = TRUE BY <2>1 DEF Shown
  <2>2. CASE UNCHANGED <<base, foreign>> BY <2>2 DEF ScInv, Shown
  <2>. QED BY <2>1, <2>2
<1>. QED BY <1>1, <1>2, <1>3, <1>4 DEF ScInv

(* The effect on the live terminal: its new table q, the rest unchanged. *)
LEMMA TabIs ==
  ASSUME ScInv, NEW t \in Ttys
  PROVE  LET p == tab[t] IN
         /\ p \in Tabs /\ p.cells \in [Rows -> Row] /\ p.px \in Cols /\ p.py \in Rows
         /\ 0 \in Cols /\ EmptyRow \in Row /\ (\A x \in Cols : EmptyRow[x] = Blank) /\ Blank \in Chars /\ Rows = 0..H-1 /\ Rows \subseteq 0..H
<1>1. tab[t] \in Tabs BY DEF ScInv, ScreenType
<1>2. 0 \in Cols /\ Blank \in Chars BY Sizes DEF Cols, Chars
<1>3. EmptyRow \in Row BY <1>2 DEF EmptyRow, Row
<1>4. \A x \in Cols : EmptyRow[x] = Blank BY DEF EmptyRow
<1>. QED BY <1>1, <1>2, <1>3, <1>4, Sizes DEF Tabs, Rows

LEMMA NextLineKeeps ==
  ASSUME ScInv, NEW t \in Ttys, Putc(t, Newline), NextLine(t)
  PROVE  ScInv'
<1>1. PICK p : p = tab[t] OBVIOUS
<1>2. /\ p \in Tabs /\ p.cells \in [Rows -> Row] /\ p.px \in Cols /\ p.py \in Rows
      /\ 0 \in Cols /\ EmptyRow \in Row /\ (\A x \in Cols : EmptyRow[x] = Blank) /\ Blank \in Chars /\ Rows = 0..H-1 /\ Rows \subseteq 0..H
  BY <1>1, TabIs
<1>3. PICK y : y = p.py + 1 OBVIOUS
<1>4. y \in Rows /\ p.py < H - 1 BY <1>1, <1>2, <1>3, Sizes DEF NextLine
<1>5. PICK q : q = [p EXCEPT !.px = 0, !.py = y, !.cells[y] = EmptyRow] OBVIOUS
<1>6. /\ q \in Tabs /\ q.px = 0 /\ q.py = y /\ q.cells = [p.cells EXCEPT ![y] = EmptyRow]
  BY <1>2, <1>4, <1>5 DEF Tabs
<1>7. tab' = [tab EXCEPT ![t] = q]
  BY <1>1, <1>2, <1>3, <1>5 DEF NextLine, ScInv, ScreenType
<1>8. tab' \in [Ttys -> Tabs] /\ tab'[t] = q /\ (t # Live => tab'[Live] = tab[Live])
  BY <1>6, <1>7, Sizes DEF ScInv, ScreenType
<1>9. UNCHANGED <<base, foreign>> BY DEF NextLine
<1>10. CASE t # Live
  <2>1. UNCHANGED <<vram, lines>> BY <1>10 DEF NextLine, Putc
  <2>2. base' \in 0..R-1 BY <1>9 DEF ScInv, ScreenType
  <2>. QED BY <1>8, <1>9, <1>10, <2>1, <2>2, Elsewhere
<1>11. CASE t = Live
  <2>1. PICK v : v = Drawn(vram, base, p.px, p.py, Blank, 0) OBVIOUS
  <2>2. /\ v \in Vram
        /\ \A z \in 0..H, u \in Cols, k \in 0..CZ-1 :
             v[Place(base, z, k)][u]
               = IF z = p.py /\ u = p.px THEN <<Blank, k, 0>> ELSE vram[Place(base, z, k)][u]
    BY <1>2, <2>1, DrawnCell DEF ScInv, ScreenType, Bit
  <2>3. vram' = Cleared(v, base, y)
    BY <1>1, <1>2, <1>3, <1>8, <1>11, <2>1 DEF NextLine, Uncursored
  <2>4. /\ vram' \in Vram
        /\ \A z \in 0..H, u \in Cols, k \in 0..CZ-1 :
             vram'[Place(base, z, k)][u]
               = IF z = y THEN <<Blank, k, 0>> ELSE v[Place(base, z, k)][u]
    BY <1>2, <1>4, <2>2, <2>3, ClearedRow, SMTT(30) DEF ScInv, ScreenType
  <2>5. lines' = Append(lines, EmptyRow) BY <1>11 DEF Putc
  <2>6. lines \in Seq(Row) /\ Len(lines) > p.py BY <1>1, <1>11 DEF ScInv, ScreenType
  <2>7. /\ lines' \in Seq(Row) /\ Len(lines') = Len(lines) + 1
        /\ \A i \in 1..Len(lines) : lines'[i] = lines[i]
        /\ lines'[Len(lines) + 1] = EmptyRow
    BY <1>2, <2>5, <2>6
  <2>8. ScreenType' BY <1>2, <1>3, <1>6, <1>8, <1>9, <1>11, <2>4, <2>6, <2>7, Sizes DEF ScInv, ScreenType
  <2>9. TableIsTail'
    <3> SUFFICES ASSUME NEW z \in Rows
                 PROVE  q.cells[z] = IF z > q.py THEN EmptyRow
                                     ELSE lines'[Len(lines') - q.py + z]
      BY <1>8, <1>11 DEF TableIsTail
    <3>1. p.cells[z] = IF z > p.py THEN EmptyRow ELSE lines[Len(lines) - p.py + z]
      BY <1>1, <1>11 DEF ScInv, TableIsTail
    <3>2. z \in Nat /\ p.py \in Nat /\ Len(lines) \in Nat BY <1>2, <2>6, Sizes
    <3>3. Len(lines') - q.py + z = Len(lines) - p.py + z
      <4>1. Len(lines') = Len(lines) + 1 /\ q.py = p.py + 1 BY <1>3, <1>6, <2>7
      <4>. QED BY <3>2, <4>1
    <3>4. CASE z < y
      <4>1. Len(lines) - p.py + z \in 1..Len(lines) BY <1>3, <2>6, <3>2, <3>4
      <4>. QED BY <1>2, <1>3, <1>4, <1>6, <2>7, <3>1, <3>2, <3>3, <3>4, <4>1
    <3>5. CASE z = y
      <4>1. Len(lines) - p.py + z = Len(lines) + 1 BY <1>3, <3>2, <3>5
      <4>. QED BY <1>2, <1>4, <1>6, <2>7, <3>2, <3>3, <3>5, <4>1
    <3>6. CASE z > y BY <1>2, <1>3, <1>4, <1>6, <3>1, <3>2, <3>6
    <3>. QED BY <1>3, <3>2, <3>4, <3>5, <3>6
  <2>10. Ahead' BY <1>2, <1>4, <1>6, <1>8, <1>11 DEF Ahead
  <2>11. Shown'
    <3> SUFFICES ASSUME ~foreign,
                        NEW z \in Rows, NEW x \in Cols \ {W - 1}, NEW k \in 0..CZ-1,
                        ~(z = q.py /\ x = q.px)
                 PROVE  vram'[Place(base, z, k)][x] = <<q.cells[z][x], k, 0>>
      BY <1>8, <1>9, <1>11 DEF Shown, Place
    <3>1. (z = p.py /\ x = p.px) \/ vram[Place(base, z, k)][x] = <<p.cells[z][x], k, 0>>
      BY <1>1, <1>11 DEF ScInv, Shown, Place
    <3>2. z \in 0..H /\ x \in Cols /\ x \in Int /\ W \in Int /\ x < W - 1 BY <1>2, Sizes DEF Cols
    <3>3. CASE z = y
      <4>1. q.cells[z][x] = Blank BY <1>2, <1>4, <1>6, <3>2, <3>3
      <4>. QED BY <2>4, <3>2, <3>3, <4>1
    <3>4. CASE z # y
      <4>1. q.cells[z] = p.cells[z] BY <1>2, <1>6, <3>4
      <4>2. vram'[Place(base, z, k)][x] = v[Place(base, z, k)][x] BY <2>4, <3>2, <3>4
      <4>3. CASE z = p.py /\ x = p.px
        <5>1. p.cells[z][x] = Blank BY <1>1, <1>11, <3>2, <4>3 DEF ScInv, Ahead
        <5>2. v[Place(base, z, k)][x] = <<Blank, k, 0>> BY <2>2, <3>2, <4>3
        <5>. QED BY <4>1, <4>2, <5>1, <5>2
      <4>4. CASE ~(z = p.py /\ x = p.px) BY <2>2, <3>1, <3>2, <4>1, <4>2, <4>4
      <4>. QED BY <4>3, <4>4
    <3>. QED BY <3>3, <3>4
  <2>. QED BY <2>8, <2>9, <2>10, <2>11 DEF ScInv
<1>. QED BY <1>10, <1>11

\* The characters of the last line are those of the table.
LEMMA PutCharKeeps ==
  ASSUME ScInv, NEW t \in Ttys, NEW c \in Chars, c # Newline, Putc(t, c)
  PROVE  ScInv'
<1>1. PICK p : p = tab[t] OBVIOUS
<1>2. /\ p \in Tabs /\ p.cells \in [Rows -> Row] /\ p.px \in Cols /\ p.py \in Rows
      /\ 0 \in Cols /\ Blank \in Chars /\ Rows = 0..H-1 /\ Rows \subseteq 0..H
  BY <1>1, TabIs
<1>3. PICK x1 : x1 = IF p.px < W - 1 THEN p.px + 1 ELSE p.px OBVIOUS
<1>4. x1 \in Cols BY <1>2, <1>3, Sizes DEF Cols
<1>5. PICK q : q = [p EXCEPT !.cells[p.py][p.px] = c, !.px = x1] OBVIOUS
<1>6. /\ q \in Tabs /\ q.px = x1 /\ q.py = p.py
      /\ q.cells = [p.cells EXCEPT ![p.py][p.px] = c]
  BY <1>2, <1>4, <1>5 DEF Tabs, Row
<1>7. tab' = [tab EXCEPT ![t] = q]
  BY <1>1, <1>2, <1>3, <1>5 DEF Putc, PutChar, ScInv, ScreenType
<1>8. tab' \in [Ttys -> Tabs] /\ tab'[t] = q /\ (t # Live => tab'[Live] = tab[Live])
  BY <1>6, <1>7, Sizes DEF ScInv, ScreenType
<1>9. UNCHANGED <<base, foreign>> BY DEF Putc, PutChar
<1>10. CASE t # Live
  <2>1. UNCHANGED <<vram, lines>> BY <1>10 DEF PutChar, Putc
  <2>2. base' \in 0..R-1 BY <1>9 DEF ScInv, ScreenType
  <2>. QED BY <1>8, <1>9, <1>10, <2>1, <2>2, Elsewhere
<1>11. CASE t = Live
  <2>1. vram' = Drawn(vram, base, p.px, p.py, c, 0)
    BY <1>1, <1>11 DEF Putc, PutChar
  <2>2. /\ vram' \in Vram
        /\ \A z \in 0..H, u \in Cols, k \in 0..CZ-1 :
             vram'[Place(base, z, k)][u]
               = IF z = p.py /\ u = p.px THEN <<c, k, 0>> ELSE vram[Place(base, z, k)][u]
    BY <1>2, <2>1, DrawnCell, SMTT(30) DEF ScInv, ScreenType, Bit
  <2>3. PICK L \in Nat : L = Len(lines) BY DEF ScInv, ScreenType
  <2>4. lines \in Seq(Row) /\ L > p.py /\ L >= 1
    BY <1>1, <1>2, <1>11, <2>3, Sizes DEF ScInv, ScreenType
  <2>5. lines' = [lines EXCEPT ![L][p.px] = c] BY <1>1, <1>11, <2>3 DEF Putc
  <2>6. lines \in [1..L -> Row] /\ L \in 1..L BY <2>3, <2>4
  <2>7. /\ lines' \in [1..L -> Row]
        /\ \A i \in 1..L : i # L => lines'[i] = lines[i]
        /\ lines'[L] = [lines[L] EXCEPT ![p.px] = c]
    BY <1>2, <2>5, <2>6 DEF Row
  <2>8. lines' \in Seq(Row) /\ Len(lines') = L
    BY <2>3, <2>7
  <2>9. ScreenType'
    BY <1>6, <1>8, <1>9, <1>11, <2>2, <2>4, <2>8 DEF ScInv, ScreenType
  <2>10. TableIsTail'
    <3> SUFFICES ASSUME NEW z \in Rows
                 PROVE  q.cells[z] = IF z > q.py THEN EmptyRow ELSE lines'[L - q.py + z]
      BY <1>8, <1>11, <2>8 DEF TableIsTail
    <3>1. p.cells[z] = IF z > p.py THEN EmptyRow ELSE lines[L - p.py + z]
      BY <1>1, <1>11, <2>3 DEF ScInv, TableIsTail
    <3>2. z \in Nat /\ p.py \in Nat BY <1>2, Sizes
    <3>3. CASE z = p.py
      <4>1. q.cells[z] = [p.cells[z] EXCEPT ![p.px] = c] BY <1>2, <1>6, <3>3
      <4>2. L - p.py + z = L BY <2>3, <3>2, <3>3
      <4>3. p.cells[z] = lines[L] BY <3>1, <3>2, <3>3, <4>2
      <4>. QED BY <1>6, <2>7, <3>2, <3>3, <4>1, <4>2, <4>3
    <3>4. CASE z > p.py BY <1>2, <1>6, <3>1, <3>2, <3>4
    <3>5. CASE z < p.py
      <4>1. L - p.py + z \in 1..L /\ L - p.py + z # L BY <2>3, <2>4, <3>2, <3>5
      <4>2. lines'[L - p.py + z] = lines[L - p.py + z] BY <2>7, <4>1
      <4>. QED BY <1>2, <1>6, <3>1, <3>2, <3>5, <4>2
    <3>. QED BY <3>2, <3>3, <3>4, <3>5
  <2>11. Ahead'
    <3> SUFFICES ASSUME NEW x \in Cols, q.px <= x, x < W - 1
                 PROVE  q.cells[q.py][x] = Blank
      BY <1>8, <1>11 DEF Ahead
    <3>1. p.px < x /\ p.px <= x BY <1>2, <1>3, <1>6, Sizes DEF Cols
    <3>2. p.cells[p.py][x] = Blank BY <1>1, <1>11, <3>1 DEF ScInv, Ahead
    <3>3. p.cells[p.py] \in Row /\ x # p.px BY <1>2, <3>1, Sizes DEF Cols
    <3>. QED BY <1>2, <1>6, <3>2, <3>3 DEF Row
  <2>12. Shown'
    <3> SUFFICES ASSUME ~foreign,
                        NEW z \in Rows, NEW x \in Cols \ {W - 1}, NEW k \in 0..CZ-1
                 PROVE  vram'[Place(base, z, k)][x] = <<q.cells[z][x], k, 0>>
      BY <1>8, <1>9, <1>11 DEF Shown, Place
    <3>1. (z = p.py /\ x = p.px) \/ vram[Place(base, z, k)][x] = <<p.cells[z][x], k, 0>>
      BY <1>1, <1>11 DEF ScInv, Shown, Place
    <3>2. z \in 0..H /\ x \in Cols BY <1>2
    <3>3. q.cells[z][x] = IF z = p.py /\ x = p.px THEN c ELSE p.cells[z][x]
      <4>1. q.cells[z] = IF z = p.py THEN [p.cells[z] EXCEPT ![p.px] = c] ELSE p.cells[z]
        BY <1>2, <1>6
      <4>2. p.cells[z] \in [Cols -> Chars] BY <1>2 DEF Row
      <4>3. CASE z = p.py BY <3>2, <4>1, <4>2, <4>3
      <4>4. CASE z # p.py BY <4>1, <4>4
      <4>. QED BY <4>3, <4>4
    <3>4. vram'[Place(base, z, k)][x]
            = IF z = p.py /\ x = p.px THEN <<c, k, 0>> ELSE vram[Place(base, z, k)][x]
      BY <2>2, <3>2
    <3>5. CASE z = p.py /\ x = p.px BY <3>3, <3>4, <3>5
    <3>6. CASE ~(z = p.py /\ x = p.px) BY <3>1, <3>3, <3>4, <3>6
    <3>. QED BY <3>5, <3>6
  <2>. QED BY <2>9, <2>10, <2>11, <2>12 DEF ScInv
<1>. QED BY <1>10, <1>11

LEMMA ScrollKeepsShown ==
  ASSUME ScInv, NEW t \in Ttys, Putc(t, Newline), Scroll(t)
  PROVE  ScInv'
<1>1. PICK p : p = tab[t] OBVIOUS
<1>2. /\ p \in Tabs /\ p.cells \in [Rows -> Row] /\ p.px \in Cols /\ p.py \in Rows
      /\ 0 \in Cols /\ EmptyRow \in Row /\ (\A x \in Cols : EmptyRow[x] = Blank)
      /\ Blank \in Chars /\ Rows = 0..H-1 /\ Rows \subseteq 0..H
  BY <1>1, TabIs
<1>3. PICK up : up = [y \in Rows |-> IF y = H - 1 THEN EmptyRow ELSE p.cells[y + 1]] OBVIOUS
<1>4. up \in [Rows -> Row]
  <2>1. \A y \in Rows : y = H - 1 \/ y + 1 \in Rows BY <1>2, Sizes
  <2>. QED BY <1>2, <1>3, <2>1
<1>5. PICK q : q = [p EXCEPT !.px = 0, !.cells = up] OBVIOUS
<1>6. q \in Tabs /\ q.px = 0 /\ q.py = p.py /\ q.cells = up
  BY <1>2, <1>4, <1>5 DEF Tabs
<1>7. p.py = H - 1 /\ base' = (base + CZ) % R /\ foreign' = (foreign \/ t # Live)
  BY <1>1 DEF Scroll
<1>8. tab' = [tab EXCEPT ![t] = q]
  BY <1>1, <1>2, <1>3, <1>5 DEF Scroll, ScInv, ScreenType
<1>9. tab' \in [Ttys -> Tabs] /\ tab'[t] = q /\ (t # Live => tab'[Live] = tab[Live])
  BY <1>6, <1>8, Sizes DEF ScInv, ScreenType
<1>10. /\ base' \in 0..R-1 /\ base \in 0..R-1
       /\ \A y \in Rows, k \in 0..CZ-1 : Place(base', y, k) = Place(base, y + 1, k)
  <2>1. base \in 0..R-1 BY DEF ScInv, ScreenType
  <2>2. PICK b : b = base' OBVIOUS
  <2>3. ASSUME NEW y \in Rows, NEW k \in 0..CZ-1
        PROVE  b \in 0..R-1 /\ Place(b, y, k) = Place(base, y + 1, k)
    BY <1>7, <2>1, <2>2, MovedRow
  <2>4. 0 \in Rows /\ 0 \in 0..CZ-1 BY <1>2, Sizes
  <2>. QED BY <2>1, <2>2, <2>3, <2>4
<1>11. CASE t # Live
  <2>1. UNCHANGED <<vram, lines>> BY <1>11 DEF Scroll, Putc
  <2>2. foreign' = TRUE BY <1>7, <1>11
  <2>. QED BY <1>9, <1>10, <1>11, <2>1, <2>2, Elsewhere
<1>12. CASE t = Live
  <2>1. PICK v : v = Drawn(vram, base, p.px, p.py, Blank, 0) OBVIOUS
  <2>2. /\ v \in Vram
        /\ \A z \in 0..H, u \in Cols, k \in 0..CZ-1 :
             v[Place(base, z, k)][u]
               = IF z = p.py /\ u = p.px THEN <<Blank, k, 0>> ELSE vram[Place(base, z, k)][u]
    BY <1>2, <2>1, DrawnCell DEF ScInv, ScreenType, Bit
  <2>3. vram' = Cleared(v, base, H)
    BY <1>1, <1>12, <2>1 DEF Scroll, Uncursored
  <2>4. H \in 0..H BY Sizes
  <2>5. /\ vram' \in Vram
        /\ \A z \in 0..H, u \in Cols, k \in 0..CZ-1 :
             vram'[Place(base, z, k)][u]
               = IF z = H THEN <<Blank, k, 0>> ELSE v[Place(base, z, k)][u]
    BY <1>10, <2>2, <2>3, <2>4, ClearedRow
  <2>6. lines' = Append(lines, EmptyRow) BY <1>12 DEF Putc
  <2>7. PICK L \in Nat : L = Len(lines) BY DEF ScInv, ScreenType
  <2>8. lines \in Seq(Row) /\ L > p.py BY <1>1, <1>12, <2>7 DEF ScInv, ScreenType
  <2>9. /\ lines' \in Seq(Row) /\ Len(lines') = L + 1
        /\ \A i \in 1..L : lines'[i] = lines[i]
        /\ lines'[L + 1] = EmptyRow
    BY <1>2, <2>6, <2>7, <2>8
  <2>10. foreign' \in BOOLEAN BY <1>7 DEF ScInv, ScreenType
  <2>11. ScreenType'
    <3>1. L + 1 > q.py BY <1>2, <1>6, <2>7, <2>8, Sizes
    <3>. QED BY <1>9, <1>10, <1>12, <2>5, <2>9, <2>10, <3>1 DEF ScreenType
  <2>12. TableIsTail'
    <3> SUFFICES ASSUME NEW z \in Rows
                 PROVE  q.cells[z] = IF z > q.py THEN EmptyRow ELSE lines'[Len(lines') - q.py + z]
      BY <1>9, <1>12 DEF TableIsTail
    <3>0. Len(lines') = L + 1 BY <2>9
    <3>1. z \in Nat /\ p.py \in Nat /\ z <= p.py BY <1>2, <1>7, Sizes
    <3>2. CASE z = H - 1
      <4>1. L + 1 - p.py + z = L + 1 BY <1>7, <2>7, <3>1, <3>2
      <4>2. lines'[L + 1 - p.py + z] = EmptyRow BY <2>9, <4>1
      <4>. QED BY <1>3, <1>6, <3>0, <3>1, <3>2, <4>2
    <3>3. CASE z # H - 1
      <4>1. PICK y \in Rows : y = z + 1 BY <1>2, <3>3, Sizes
      <4>2. y \in Nat /\ y <= p.py BY <1>2, <1>7, <3>1, <4>1, Sizes
      <4>3. p.cells[y] = lines[L - p.py + y]
        BY <1>1, <1>12, <2>7, <3>1, <4>2 DEF ScInv, TableIsTail
      <4>4. L - p.py + y \in 1..L /\ L - p.py + y = L + 1 - p.py + z
        <5>1. PICK m \in Nat : m = p.py BY <3>1
        <5>2. L - m + y \in 1..L BY <2>7, <2>8, <4>2, <5>1
        <5>3. L - m + y = L + 1 - m + z BY <2>7, <3>1, <4>1, <4>2, <5>1
        <5>. QED BY <5>1, <5>2, <5>3
      <4>5. q.cells[z] = p.cells[y] BY <1>3, <1>6, <3>3, <4>1
      <4>6. lines'[L + 1 - p.py + z] = lines[L - p.py + y] BY <2>9, <4>4
      <4>. QED BY <1>6, <3>0, <3>1, <4>3, <4>5, <4>6, SMTT(30)
    <3>. QED BY <3>2, <3>3
  <2>13. Ahead'
    <3>1. q.cells[q.py] = EmptyRow BY <1>2, <1>3, <1>6, <1>7
    <3>. QED BY <1>2, <1>9, <1>12, <3>1 DEF Ahead
  <2>14. Shown'
    <3> SUFFICES ASSUME ~foreign',
                        NEW z \in Rows, NEW x \in Cols \ {W - 1}, NEW k \in 0..CZ-1
                 PROVE  vram'[Place(base', z, k)][x] = <<q.cells[z][x], k, 0>>
      BY <1>9, <1>12 DEF Shown, Place
    <3>1. Place(base', z, k) = Place(base, z + 1, k) BY <1>10
    <3>2. x \in Cols /\ x \in Int /\ W \in Int /\ x < W - 1 BY <1>2, Sizes DEF Cols
    <3>3. z + 1 \in 0..H BY <1>2, Sizes
    <3>4. CASE z = H - 1
      <4>1. z + 1 = H BY <1>2, <3>4, Sizes
      <4>2. q.cells[z] = EmptyRow BY <1>3, <1>6, <3>4
      <4>3. vram'[Place(base, H, k)][x] = <<Blank, k, 0>> BY <2>4, <2>5, <3>2
      <4>4. Place(base', z, k) = Place(base, H, k) BY <3>1, <4>1
      <4>. QED BY <1>2, <3>2, <4>2, <4>3, <4>4
    <3>5. CASE z # H - 1
      <4>1. PICK y \in Rows : y = z + 1 BY <1>2, <3>5, Sizes
      <4>2. y \in 0..H /\ y # H BY <1>2, <4>1, Sizes
      <4>3. q.cells[z] = p.cells[y] BY <1>3, <1>6, <3>5, <4>1
      <4>4. vram'[Place(base', z, k)][x] = v[Place(base, y, k)][x]
        BY <2>5, <3>1, <3>2, <4>1, <4>2, ZenonT(60)
      <4>5. (y = p.py /\ x = p.px) \/ vram[Place(base, y, k)][x] = <<p.cells[y][x], k, 0>>
        BY <1>1, <1>7, <1>12 DEF ScInv, Shown, Place
      <4>6. CASE y = p.py /\ x = p.px
        <5>1. p.cells[y][x] = Blank BY <1>1, <1>12, <3>2, <4>6 DEF ScInv, Ahead
        <5>2. v[Place(base, y, k)][x] = <<Blank, k, 0>> BY <2>2, <3>2, <4>2, <4>6
        <5>. QED BY <4>3, <4>4, <5>1, <5>2
      <4>7. CASE ~(y = p.py /\ x = p.px)
        <5>1. v[Place(base, y, k)][x] = vram[Place(base, y, k)][x] BY <2>2, <3>2, <4>2, <4>7
        <5>. QED BY <4>3, <4>4, <4>5, <4>7, <5>1
      <4>. QED BY <4>6, <4>7
    <3>. QED BY <3>4, <3>5
  <2>. QED BY <2>11, <2>12, <2>13, <2>14 DEF ScInv
<1>. QED BY <1>11, <1>12

LEMMA PutcKeeps ==
  ASSUME ScInv, NEW t \in Ttys, NEW c \in Chars, Putc(t, c)
  PROVE  ScInv'
<1>1. CASE c = Newline
  <2>1. NextLine(t) \/ Scroll(t) BY <1>1 DEF Putc
  <2>. QED BY <1>1, <2>1, NextLineKeeps, ScrollKeepsShown
<1>. QED BY <1>1, PutCharKeeps

\* A cursor is drawn in its own cell only.
LEMMA CursorKeeps ==
  ASSUME ScInv, NEW toggle \in Bit, DrawCursor(toggle)
  PROVE  ScInv'
<1>1. PICK p : p = tab[Live] OBVIOUS
<1>2. /\ p \in Tabs /\ p.px \in Cols /\ p.py \in Rows /\ Blank \in Chars /\ Rows \subseteq 0..H
      /\ Live \in Ttys
  BY <1>1, TabIs, Sizes
<1>3. PICK q : q = [p EXCEPT !.toggle = toggle] OBVIOUS
<1>4. q \in Tabs /\ q.px = p.px /\ q.py = p.py /\ q.cells = p.cells BY <1>2, <1>3 DEF Tabs
<1>5. tab' = [tab EXCEPT ![Live] = q] /\ UNCHANGED <<base, lines, foreign>>
  BY <1>1, <1>2, <1>3 DEF DrawCursor, ScInv, ScreenType
<1>6. tab' \in [Ttys -> Tabs] /\ tab'[Live] = q BY <1>2, <1>4, <1>5 DEF ScInv, ScreenType
<1>7. /\ vram' \in Vram
      /\ \A z \in 0..H, u \in Cols, k \in 0..CZ-1 :
           (z = p.py /\ u = p.px) \/ vram'[Place(base, z, k)][u] = vram[Place(base, z, k)][u]
  <2>1. CASE p.cursor
    <3>1. vram' = Drawn(vram, base, p.px, p.py, Blank, toggle)
      BY <1>1, <2>1 DEF DrawCursor
    <3>2. vram \in Vram /\ base \in 0..R-1 /\ p.py \in 0..H BY <1>2 DEF ScInv, ScreenType
    <3>3. PICK d : d = Drawn(vram, base, p.px, p.py, Blank, toggle) OBVIOUS
    <3>4. /\ d \in Vram
          /\ \A z \in 0..H, u \in Cols, k \in 0..CZ-1 :
               d[Place(base, z, k)][u] = IF z = p.py /\ u = p.px THEN <<Blank, k, toggle>>
                                         ELSE vram[Place(base, z, k)][u]
      BY <1>2, <3>2, <3>3, DrawnCell
    <3>. QED BY <3>1, <3>3, <3>4
  <2>2. CASE ~p.cursor
    <3>1. vram' = vram BY <1>1, <2>2 DEF DrawCursor
    <3>. QED BY <3>1 DEF ScInv, ScreenType
  <2>. QED BY <2>1, <2>2
<1>8. ScreenType' BY <1>1, <1>4, <1>5, <1>6, <1>7 DEF ScInv, ScreenType
<1>9. TableIsTail' BY <1>1, <1>4, <1>5, <1>6 DEF ScInv, TableIsTail
<1>10. Ahead' BY <1>1, <1>4, <1>6 DEF ScInv, Ahead
<1>11. Shown'
  <2> SUFFICES ASSUME ~foreign,
                      NEW z \in Rows, NEW x \in Cols \ {W - 1}, NEW k \in 0..CZ-1,
                      ~(z = p.py /\ x = p.px)
               PROVE  vram'[Place(base, z, k)][x] = <<p.cells[z][x], k, 0>>
    BY <1>4, <1>5, <1>6 DEF Shown, Place
  <2>1. vram[Place(base, z, k)][x] = <<p.cells[z][x], k, 0>>
    BY <1>1 DEF ScInv, Shown, Place
  <2>2. z \in 0..H /\ x \in Cols BY <1>2
  <2>. QED BY <1>7, <2>1, <2>2
<1>. QED BY <1>8, <1>9, <1>10, <1>11 DEF ScInv

LEMMA FlagsKeep ==
  ASSUME ScInv, NEW t \in Ttys, NEW e \in BOOLEAN, NEW c \in BOOLEAN, SetFlags(t, e, c)
  PROVE  ScInv'
<1>1. PICK q : q = [tab[t] EXCEPT !.echo = e, !.cursor = c] OBVIOUS
<1>2. tab[t] \in Tabs BY DEF ScInv, ScreenType
<1>3. q \in Tabs /\ q.px = tab[t].px /\ q.py = tab[t].py /\ q.cells = tab[t].cells
  BY <1>1, <1>2 DEF Tabs
<1>4. tab' = [tab EXCEPT ![t] = q] /\ UNCHANGED <<base, vram, lines, foreign>>
  BY <1>1, <1>2 DEF SetFlags, ScInv, ScreenType
<1>5. /\ tab' \in [Ttys -> Tabs] /\ tab'[Live].px = tab[Live].px
      /\ tab'[Live].py = tab[Live].py /\ tab'[Live].cells = tab[Live].cells
  BY <1>3, <1>4, Sizes DEF ScInv, ScreenType
<1>6. ScreenType' BY <1>4, <1>5 DEF ScInv, ScreenType
<1>7. TableIsTail' BY <1>4, <1>5 DEF ScInv, TableIsTail
<1>8. Ahead' BY <1>4, <1>5 DEF ScInv, Ahead
<1>9. Shown' BY <1>4, <1>5 DEF ScInv, Shown
<1>. QED BY <1>6, <1>7, <1>8, <1>9 DEF ScInv

LEMMA InitScInv == ScreenInit => ScInv
<1> SUFFICES ASSUME ScreenInit PROVE ScInv OBVIOUS
<1>1. /\ 0 \in Cols /\ 1 \in Rows /\ Blank \in Chars /\ Live \in Ttys /\ EmptyRow \in Row
      /\ EmptyRow = [x \in Cols |-> Blank] /\ Rows = 0..H-1
  BY Sizes DEF Cols, Rows, Chars, EmptyRow, Row
<1>2. PICK q : q = [cells |-> [y \in Rows |-> EmptyRow], px |-> 0, py |-> 1,
                    toggle |-> 0, echo |-> TRUE, cursor |-> TRUE] OBVIOUS
<1>3. /\ q \in Tabs /\ q.px = 0 /\ q.py = 1 /\ q.cells = [y \in Rows |-> EmptyRow]
  BY <1>1, <1>2 DEF Tabs, Bit
<1>4. tab = [t \in Ttys |-> q] BY <1>2 DEF ScreenInit
<1>5. tab \in [Ttys -> Tabs] /\ tab[Live] = q BY <1>1, <1>3, <1>4
<1>6. base = 0 /\ lines = <<EmptyRow, EmptyRow>> /\ foreign = FALSE BY DEF ScreenInit
<1>7. lines \in Seq(Row) /\ Len(lines) = 2 /\ lines[1] = EmptyRow /\ lines[2] = EmptyRow
  BY <1>1, <1>6
<1>8. \A r \in 0..R-1 : r % CZ \in 0..CZ-1 BY Sizes
<1>9. vram = [r \in 0..R-1 |-> [x \in Cols |->
                IF r < H * CZ THEN <<Blank, r % CZ, 0>> ELSE <<-1, 0, 0>>]]
  BY DEF ScreenInit
<1>10. vram \in Vram
  <2>1. <<-1, 0, 0>> \in Pixel BY Sizes DEF Pixel, Bit
  <2>2. \A r \in 0..R-1 : <<Blank, r % CZ, 0>> \in Pixel BY <1>1, <1>8 DEF Pixel, Bit
  <2>. QED BY <1>9, <2>1, <2>2 DEF Vram
<1>11. ScreenType
  <2>1. base \in 0..R-1 BY <1>6, Sizes
  <2>2. foreign \in BOOLEAN BY <1>6
  <2>3. Len(lines) > tab[Live].py BY <1>3, <1>5, <1>7
  <2>. QED BY <1>5, <1>7, <1>10, <2>1, <2>2, <2>3 DEF ScreenType
<1>12. TableIsTail
  <2> SUFFICES ASSUME NEW y \in Rows
               PROVE  q.cells[y] = IF y > q.py THEN EmptyRow ELSE lines[Len(lines) - q.py + y]
    BY <1>5 DEF TableIsTail
  <2>1. y \in Nat BY <1>1, Sizes
  <2>2. y = 0 \/ y = 1 \/ y > 1 BY <2>1
  <2>. QED BY <1>3, <1>7, <2>2
<1>13. \A y \in Rows, x \in Cols : tab[Live].cells[y][x] = Blank
  <2>1. \A y \in Rows : tab[Live].cells[y] = EmptyRow BY <1>3, <1>5
  <2>2. \A x \in Cols : EmptyRow[x] = Blank BY DEF EmptyRow
  <2>. QED BY <2>1, <2>2
<1>14. Ahead BY <1>1, <1>3, <1>5, <1>13 DEF Ahead
<1>15. Shown
  <2> SUFFICES ASSUME NEW y \in Rows, NEW x \in Cols, NEW k \in 0..CZ-1
               PROVE  vram[Place(0, y, k)][x] = <<Blank, k, 0>>
    BY <1>6, <1>13 DEF Shown, Place
  <2>1. CZ \in Nat /\ CZ > 0 /\ y \in Int /\ y \in 0..H /\ H \in Nat /\ y < H BY <1>1, Sizes
  <2>2. PICK r \in 0..R-1 : r = CZ * y + k BY <2>1, Within
  <2>3. Place(0, y, k) = r
    <3>1. 0 + CZ * y + k = r BY <2>1, <2>2
    <3>. QED BY <3>1, ModR DEF Place
  <2>4. r < H * CZ
    <3>1. CZ * y + CZ <= CZ * H /\ CZ * y \in Int /\ CZ * H \in Int BY <2>1, Product
    <3>2. CZ * H = H * CZ BY <2>1
    <3>. QED BY <2>1, <2>2, <3>1, <3>2
  <2>5. r % CZ = k BY <2>1, <2>2
  <2>. QED BY <1>9, <2>3, <2>4, <2>5
<1>. QED BY <1>11, <1>12, <1>14, <1>15 DEF ScInv

-----------------------------------------------------------------------------
(* Together.                                                               *)

CInv == KInv /\ ScInv /\ typed \in Seq(Chars)

LEMMA NextCInv == CInv /\ [Next]_vars => CInv'
<1> SUFFICES ASSUME CInv, [Next]_vars PROVE CInv' OBVIOUS
<1>1. KInv' BY NextKInv DEF CInv
<1>2. ASSUME UNCHANGED screenvars PROVE ScInv'
  BY <1>2 DEF CInv, ScInv, ScreenType, TableIsTail, Ahead, Shown, screenvars
<1>3. CASE KeyCode
  <2>1. ScInv' BY <1>2, <1>3 DEF KeyCode
  <2>2. typed' \in Seq(Chars)
    <3>1. CASE Key(Head(wire)) = 0 BY <1>3, <3>1 DEF KeyCode, CInv
    <3>2. CASE Key(Head(wire)) # 0
      <4>1. Code BY <1>3 DEF KeyCode
      <4>2. PICK k \in Keys : k.code = Head(wire) BY <4>1, CodeKeeps DEF CInv
      <4>3. kbd.shifted \in {0, 1} BY DEF CInv, KInv, KeyboardType, Bit
      <4>4. Key(Head(wire)) = Table[kbd.shifted][Fold(k.code)] BY <3>2, <4>2 DEF Key
      <4>5. Key(Head(wire)) \in Chars BY <4>3, <4>4 DEF Chars
      <4>6. typed' = Append(typed, Key(Head(wire))) BY <1>3, <3>2 DEF KeyCode
      <4>. QED BY <4>5, <4>6 DEF CInv
    <3>. QED BY <3>1, <3>2
  <2>. QED BY <1>1, <2>1, <2>2 DEF CInv
<1>4. CASE KeyPrefix \/ Keyboard \/ UNCHANGED vars
  BY <1>1, <1>2, <1>4 DEF KeyPrefix, Keyboard, vars, CInv
<1>5. CASE Echo
  <2>1. typed \in Seq(Chars) /\ typed # <<>> /\ typed' = Tail(typed) BY <1>5 DEF Echo, CInv
  <2>2. Head(typed) \in Chars /\ typed' \in Seq(Chars) BY <2>1
  <2>3. ScInv'
    <3>1. CASE UNCHANGED screenvars BY <1>2, <3>1
    <3>2. CASE Putc(Live, Head(typed)) BY <2>2, <3>2, PutcKeeps, Sizes DEF CInv
    <3>. QED BY <1>5, <3>1, <3>2 DEF Echo
  <2>. QED BY <1>1, <2>2, <2>3 DEF CInv
<1>6. CASE Cursor
  <2>1. PICK toggle \in {1, 1 - tab[Live].toggle} : DrawCursor(toggle) BY <1>6 DEF Cursor
  <2>2. tab[Live].toggle \in Bit BY Sizes DEF CInv, ScInv, ScreenType, Tabs
  <2>3. toggle \in Bit BY <2>1, <2>2 DEF Bit
  <2>. QED BY <1>1, <1>6, <2>1, <2>3, CursorKeeps DEF CInv, Cursor
<1>7. CASE Flags
  <2>1. PICK e \in BOOLEAN, c \in BOOLEAN : SetFlags(Live, e, c) BY <1>7 DEF Flags
  <2>. QED BY <1>1, <1>7, <2>1, FlagsKeep, Sizes DEF CInv, Flags
<1>8. ASSUME NEW t \in Ttys, NEW c \in Written, Write(t, c) PROVE CInv'
  <2>1. c \in Chars /\ Putc(t, c) /\ typed' = typed BY <1>8 DEF Write, Chars
  <2>. QED BY <1>1, <2>1, PutcKeeps DEF CInv
<1>. QED BY <1>3, <1>4, <1>5, <1>6, <1>7, <1>8 DEF Next

LEMMA InitCInv == Init => CInv
BY InitKInv, InitScInv DEF Init, CInv

\* While no hidden terminal scrolls, the picture is the live terminal's table,
\* in whatever raster line scrolling has put it and however often the frame
\* buffer has been rolled round.
THEOREM ShownAlways == Spec => []Shown
<1>1. CInv => Shown BY DEF CInv, ScInv
<1>. QED BY <1>1, InitCInv, NextCInv, PTL DEF Spec

\* The live terminal's table holds the last lines written or echoed, in order.
THEOREM TableIsTailAlways == Spec => []TableIsTail
<1>1. CInv => TableIsTail BY DEF CInv, ScInv
<1>. QED BY <1>1, InitCInv, NextCInv, PTL DEF Spec
=============================================================================
