----------------------------- MODULE LibcProofs -----------------------------
(***************************************************************************)
(* Proofs about the C library, for every file, buffer and format, every    *)
(* size of the heap and every environment: no byte of a stream is skipped, *)
(* the two formatters agree, no byte of the heap is lost or has two        *)
(* owners, and the environment owns its blocks.                            *)
(***************************************************************************)
EXTENDS Libc, SequenceTheorems, FiniteSetTheorems, WellFoundedInduction, TLAPS

-----------------------------------------------------------------------------
(* Formats: the chunk vfprintf has open is the end of the format read so   *)
(* far, and it has none inside a conversion.                               *)

Texts == Alphabet \cup {"%"} \cup (Conversions \X Nat \X Nat)

FormatStates ==
  [mode : {"format", "flag"}, width : Nat, arg : Nat, out : Seq(Texts), from : Nat \ {0}, len : Nat]

Chunked ==
  /\ fmt \in Seq(Alphabet) /\ fp \in FormatStates /\ sp \in FormatStates
  /\ IF fp.mode = "flag" THEN fp.len = 0 ELSE fp.from + fp.len = Len(fmt) + 1
  /\ SameText

LEMMA Fields ==
  ASSUME NEW s \in FormatStates
  PROVE  /\ s.mode \in {"format", "flag"} /\ s.width \in Nat /\ s.arg \in Nat
         /\ s.out \in Seq(Texts) /\ s.from \in Nat /\ s.from # 0 /\ s.len \in Nat
BY DEF FormatStates

\* What the steps of the formatters do to a state, field by field.
LEMMA Counted ==
  ASSUME NEW s \in FormatStates, NEW t, t = [s EXCEPT !.len = @ + 1]
  PROVE  /\ t \in FormatStates /\ t.mode = s.mode /\ t.width = s.width /\ t.arg = s.arg
         /\ t.out = s.out /\ t.from = s.from /\ t.len = s.len + 1
<1>1. t \in FormatStates BY DEF FormatStates
<1>. QED BY <1>1 DEF FormatStates

LEMMA Put ==
  ASSUME NEW s \in FormatStates, NEW x \in Texts, NEW t, t = [s EXCEPT !.out = Append(@, x)]
  PROVE  /\ t \in FormatStates /\ t.mode = s.mode /\ t.width = s.width /\ t.arg = s.arg
         /\ t.out = Append(s.out, x) /\ t.from = s.from /\ t.len = s.len
<1>1. Append(s.out, x) \in Seq(Texts) BY Fields, AppendProperties
<1>2. t \in FormatStates BY <1>1 DEF FormatStates
<1>. QED BY <1>2 DEF FormatStates

LEMMA Restarted ==
  ASSUME NEW s \in FormatStates, NEW k \in Nat \ {0}, NEW t, t = [s EXCEPT !.from = k]
  PROVE  /\ t \in FormatStates /\ t.mode = s.mode /\ t.width = s.width /\ t.arg = s.arg
         /\ t.out = s.out /\ t.from = k /\ t.len = s.len
<1>1. t \in FormatStates BY DEF FormatStates
<1>. QED BY <1>1 DEF FormatStates

St(m, w, a, o, f, l) == [mode |-> m, width |-> w, arg |-> a, out |-> o, from |-> f, len |-> l]

LEMMA StIs ==
  ASSUME NEW m, NEW w, NEW a, NEW o, NEW f, NEW l, NEW s, s = St(m, w, a, o, f, l)
  PROVE  /\ s.mode = m /\ s.width = w /\ s.arg = a /\ s.out = o /\ s.from = f /\ s.len = l
         /\ m \in {"format", "flag"} /\ w \in Nat /\ a \in Nat /\ o \in Seq(Texts)
              /\ f \in Nat \ {0} /\ l \in Nat => s \in FormatStates
BY DEF St, FormatStates

LEMMA StAll ==
  ASSUME NEW s \in FormatStates
  PROVE  s = St(s.mode, s.width, s.arg, s.out, s.from, s.len)
BY DEF St, FormatStates

LEMMA PlainText ==
  ASSUME NEW f \in Seq(Alphabet), NEW s \in FormatStates
  PROVE  /\ s.from + s.len = Len(f) + 1 => Plain(s, f) \in Seq(Texts)
         /\ s.len = 0 => Plain(s, f) = <<>>
<1>1. PICK m \in Nat \ {0}, l \in Nat, n \in Nat : m = s.from /\ l = s.len /\ n = Len(f) BY Fields
<1>2. Plain(s, f) = SubSeq(f, m, m + l - 1) BY <1>1 DEF Plain
<1>3. ASSUME m + l = n + 1 PROVE SubSeq(f, m, m + l - 1) \in Seq(Texts)
  <2>1. \A i \in m .. m + l - 1 : f[i] \in Texts BY <1>1, <1>3, ElementOfSeq DEF Texts
  <2>2. m \in Int /\ m + l - 1 \in Int OBVIOUS
  <2>. QED BY <2>1, <2>2, SubSeqProperties
<1>4. ASSUME l = 0 PROVE SubSeq(f, m, m + l - 1) = <<>>
  <2>1. m \in Int /\ m + l - 1 \in Int /\ m + l - 1 < m BY <1>4
  <2>. QED BY <2>1, SubSeqEmpty
<1>. QED BY <1>1, <1>2, <1>3, <1>4

\* The open chunk grows by the character that is read.
LEMMA PlainGrows ==
  ASSUME NEW f \in Seq(Alphabet), NEW c \in Alphabet, NEW s \in FormatStates,
         s.from + s.len = Len(f) + 1
  PROVE  Plain([s EXCEPT !.len = @ + 1], Append(f, c)) = Append(Plain(s, f), c)
<1>1. PICK n \in Nat : n = Len(f) OBVIOUS
<1>2. PICK m \in Nat \ {0} : m = s.from BY Fields
<1>3. PICK g : g = Append(f, c) OBVIOUS
<1>4. /\ g \in Seq(Texts) /\ Len(g) = n + 1 /\ g[n + 1] = c
      /\ \A i \in 1..n : g[i] = f[i]
  BY <1>1, <1>3, AppendProperties, SeqMonotonic DEF Texts
<1>5. PICK l \in Nat : l = s.len /\ m + l = n + 1 BY <1>1, <1>2, Fields
<1>6. Plain([s EXCEPT !.len = @ + 1], g) = SubSeq(g, m, n + 1)
  <2>1. PICK t : t = [s EXCEPT !.len = @ + 1] OBVIOUS
  <2>2. t.from = m /\ t.len = l + 1 BY <2>1, <1>2, <1>5, Counted
  <2>3. m + (l + 1) - 1 = n + 1 BY <1>5
  <2>. QED BY <2>1, <2>2, <2>3 DEF Plain
<1>7. Plain(s, f) = SubSeq(f, m, n)
  <2>1. m + l - 1 = n BY <1>5
  <2>. QED BY <2>1, <1>2, <1>5 DEF Plain
<1>8. SubSeq(g, m, n + 1) = SubSeq(g, m, n) \o <<c>>
  <2>1. m \in 1 .. Len(g) /\ n + 1 \in m .. Len(g) /\ (n + 1) - 1 = n BY <1>4, <1>5
  <2>. QED BY <2>1, <1>4, SubSeqRecursiveSecond
<1>9. \A i \in m..n : f[i] \in Texts /\ g[i] = f[i] BY <1>4, <1>1, <1>2, ElementOfSeq DEF Texts
<1>10. SubSeq(g, m, n) \in Seq(Texts) /\ SubSeq(f, m, n) \in Seq(Texts)
  BY <1>9, SubSeqProperties
<1>11. SubSeq(g, m, n) = SubSeq(f, m, n)
  <2>1. Len(SubSeq(g, m, n)) = Len(SubSeq(f, m, n)) BY <1>9, SubSeqProperties
  <2>2. Len(SubSeq(f, m, n)) = IF m <= n THEN n - m + 1 ELSE 0 BY <1>9, SubSeqProperties
  <2>3. \A i \in 1 .. n - m + 1 : SubSeq(g, m, n)[i] = g[m + i - 1] /\ SubSeq(f, m, n)[i] = f[m + i - 1]
    BY <1>9, SubSeqProperties
  <2>4. \A i \in 1 .. n - m + 1 : m + i - 1 \in m..n OBVIOUS
  <2>. QED BY <2>1, <2>2, <2>3, <2>4, <1>9, <1>10, SeqEqual
<1>12. Append(SubSeq(f, m, n), c) = SubSeq(f, m, n) \o <<c>>
  BY <1>10, AppendIsConcat DEF Texts
<1>. QED BY <1>3, <1>6, <1>7, <1>8, <1>11, <1>12

\* A conversion does the same to two states that differ in the text only.
Agree(s, t) == s.mode = t.mode /\ s.width = t.width /\ s.arg = t.arg

LEMMA FlagSame ==
  ASSUME NEW s \in FormatStates, NEW t \in FormatStates, NEW c \in Alphabet,
         Agree(s, t), s.out = t.out
  PROVE  /\ Flag(s, c) \in FormatStates /\ Flag(t, c) \in FormatStates
         /\ Agree(Flag(s, c), Flag(t, c)) /\ Flag(s, c).out = Flag(t, c).out
         /\ Flag(s, c).len = s.len
<1>1. PICK m \in {"format", "flag"}, w \in Nat, a \in Nat, o \in Seq(Texts),
           f \in Nat \ {0}, l \in Nat, g \in Nat \ {0}, k \in Nat :
        s = St(m, w, a, o, f, l) /\ t = St(m, w, a, o, g, k) /\ s.len = l
  <2>1. s = St(s.mode, s.width, s.arg, s.out, s.from, s.len) BY StAll
  <2>2. t = St(t.mode, t.width, t.arg, t.out, t.from, t.len) BY StAll
  <2>3. t = St(s.mode, s.width, s.arg, s.out, t.from, t.len) BY <2>2 DEF Agree
  <2>4. /\ s.mode \in {"format", "flag"} /\ s.width \in Nat /\ s.arg \in Nat /\ s.out \in Seq(Texts)
        /\ s.from \in Nat \ {0} /\ s.len \in Nat /\ t.from \in Nat \ {0} /\ t.len \in Nat
    BY Fields
  <2>. QED BY <2>1, <2>3, <2>4
<1>2. \E m1 \in {"format", "flag"}, w1 \in Nat, a1 \in Nat, o1 \in Seq(Texts) :
        Flag(s, c) = St(m1, w1, a1, o1, f, l) /\ Flag(t, c) = St(m1, w1, a1, o1, g, k)
  <2>1. CASE c \in Conversions
    <3>1. PICK x : x = <<c, a, IF c \in {"x", "X"} THEN w ELSE 0>> OBVIOUS
    <3>2. x \in Texts BY <2>1, <3>1 DEF Texts
    <3>3. Append(o, x) \in Seq(Texts) /\ a + 1 \in Nat BY <3>2, AppendProperties
    <3>4. \A p, q : Flag(St(m, w, a, o, p, q), c) = St("format", w, a + 1, Append(o, x), p, q)
      <4>1. TAKE p, q
      <4>2. PICK u : u = St(m, w, a, o, p, q) OBVIOUS
      <4>3. u.arg = a /\ u.width = w /\ u.out = o /\ u.from = p /\ u.len = q BY <4>2 DEF St
      <4>4. PICK y : y = <<c, u.arg, IF c \in {"x", "X"} THEN u.width ELSE 0>> OBVIOUS
      <4>5. y = x BY <3>1, <4>3, <4>4
      <4>6. Flag(u, c) = [u EXCEPT !.mode = "format", !.arg = @ + 1, !.out = Append(@, y)]
        <5>1. Flag(u, c) = CASE c \in Conversions -> [u EXCEPT !.mode = "format", !.arg = @ + 1, !.out = Append(@, y)]
                             [] c = "%" -> [u EXCEPT !.mode = "format", !.out = Append(@, "%")]
                             [] c = "0" -> u
                             [] c \in {"2", "8"} -> [u EXCEPT !.width = IF c = "2" THEN 2 ELSE 8]
                             [] OTHER -> [u EXCEPT !.mode = "format"]
          BY <4>4, Zenon DEF Flag
        <5>2. c # "%" /\ c # "0" /\ c \notin {"2", "8"} BY <2>1 DEF Conversions
        <5>. QED BY <2>1, <5>1, <5>2, Zenon
      <4>7. Flag(u, c) = [mode |-> "format", width |-> w, arg |-> a + 1, out |-> Append(o, x), from |-> p, len |-> q]
        BY <4>2, <4>5, <4>6 DEF St
      <4>. QED BY <4>2, <4>7 DEF St
    <3>. QED BY <1>1, <3>3, <3>4
  <2>2. CASE c = "%"
    <3>1. Append(o, "%") \in Seq(Texts) BY AppendProperties DEF Texts
    <3>2. \A p, q : Flag(St(m, w, a, o, p, q), c) = St("format", w, a, Append(o, "%"), p, q)
      BY <2>2 DEF Flag, St, Conversions
    <3>. QED BY <1>1, <3>1, <3>2
  <2>3. CASE c = "0"
    <3>1. \A u : Flag(u, c) = u BY <2>3 DEF Flag, Conversions
    <3>. QED BY <1>1, <3>1
  <2>4. CASE c \in {"2", "8"}
    <3>1. \A p, q : Flag(St(m, w, a, o, p, q), c) = St(m, IF c = "2" THEN 2 ELSE 8, a, o, p, q)
      BY <2>4 DEF Flag, St, Conversions
    <3>2. (IF c = "2" THEN 2 ELSE 8) \in Nat OBVIOUS
    <3>. QED BY <1>1, <3>1, <3>2
  <2>5. CASE c \notin Conversions \cup {"%", "0", "2", "8"}
    <3>1. \A p, q : Flag(St(m, w, a, o, p, q), c) = St("format", w, a, o, p, q)
      BY <2>5 DEF Flag, St
    <3>. QED BY <1>1, <3>1
  <2>. QED BY <2>1, <2>2, <2>3, <2>4, <2>5
<1>3. PICK m1 \in {"format", "flag"}, w1 \in Nat, a1 \in Nat, o1 \in Seq(Texts) :
        Flag(s, c) = St(m1, w1, a1, o1, f, l) /\ Flag(t, c) = St(m1, w1, a1, o1, g, k)
  BY <1>2
<1>4. /\ Flag(s, c) \in FormatStates /\ Flag(s, c).mode = m1 /\ Flag(s, c).width = w1
      /\ Flag(s, c).arg = a1 /\ Flag(s, c).out = o1 /\ Flag(s, c).len = l
  BY <1>3, StIs
<1>5. /\ Flag(t, c) \in FormatStates /\ Flag(t, c).mode = m1 /\ Flag(t, c).width = w1
      /\ Flag(t, c).arg = a1 /\ Flag(t, c).out = o1
  BY <1>3, StIs
<1>. QED BY <1>1, <1>4, <1>5 DEF Agree

LEMMA FormatStep ==
  ASSUME Chunked, FormatNext
  PROVE  Chunked'
<1>1. PICK c \in Alphabet : fmt' = Append(fmt, c) /\ fp' = FChar(fp, fmt, c) /\ sp' = SChar(sp, c)
  BY DEF FormatNext
<1>2. PICK n \in Nat : n = Len(fmt) BY DEF Chunked
<1>3. fmt \in Seq(Alphabet) /\ fmt' \in Seq(Alphabet) /\ Len(fmt') = n + 1
  BY <1>1, <1>2, AppendProperties DEF Chunked
<1>4. fp \in FormatStates /\ sp \in FormatStates BY DEF Chunked
<1>5. Agree(fp, sp) /\ fp.out \o Plain(fp, fmt) = sp.out BY DEF Chunked, SameText, Agree
<1>6. /\ Plain(fp, fmt) \in Seq(Texts) /\ fp.out \in Seq(Texts) /\ sp.out \in Seq(Texts)
      /\ fp.mode # "flag" => fp.from + fp.len = n + 1
  BY <1>2, <1>3, <1>4, PlainText, EmptySeq, Fields DEF Chunked
\* It is enough to say of the new states where the chunk is and what is out.
<1>7. ASSUME fp' \in FormatStates, sp' \in FormatStates, Agree(fp', sp'),
             IF fp'.mode = "flag" THEN fp'.len = 0 ELSE fp'.from + fp'.len = n + 2,
             fp'.out \o Plain(fp', fmt') = sp'.out
      PROVE  Chunked'
  <2>1. n + 2 = Len(fmt') + 1 BY <1>3
  <2>. QED BY <2>1, <1>3, <1>7 DEF Chunked, SameText, Agree
<1>8. CASE fp.mode = "flag"
  <2>1. fp.len = 0 BY <1>8 DEF Chunked
  <2>2. fp.out = sp.out BY <1>2, <1>3, <1>4, <1>5, <1>6, <2>1, PlainText, ConcatEmptySeq
  <2>3. PICK g \in FormatStates, h \in FormatStates :
          g = Flag(fp, c) /\ h = Flag(sp, c) /\ Agree(g, h) /\ g.out = h.out /\ g.len = 0
    BY FlagSame, <1>4, <1>5, <2>1, <2>2
  <2>4. fp' = [g EXCEPT !.from = n + 2] BY <1>1, <1>2, <1>8, <2>3 DEF FChar
  <2>5. sp' = h BY <1>1, <1>8, <1>5, <2>3 DEF SChar, Agree
  <2>6. /\ fp' \in FormatStates /\ fp'.from = n + 2 /\ fp'.len = 0
        /\ fp'.mode = g.mode /\ fp'.width = g.width /\ fp'.arg = g.arg /\ fp'.out = g.out
    BY <2>3, <2>4, Restarted
  <2>7. fp'.from + fp'.len = n + 2 BY <2>6
  <2>8. Plain(fp', fmt') = <<>> BY <2>6, <1>3, PlainText
  <2>9. fp'.out \o Plain(fp', fmt') = sp'.out BY <2>8, <2>6, <2>5, <2>3, Fields, ConcatEmptySeq
  <2>10. Agree(fp', sp') BY <2>3, <2>5, <2>6 DEF Agree
  <2>. QED BY <1>7, <2>3, <2>5, <2>6, <2>7, <2>9, <2>10
<1>9. CASE fp.mode # "flag" /\ c = "%"
  <2>1. PICK o \in Seq(Texts) : o = fp.out \o Plain(fp, fmt) BY <1>5, <1>6
  <2>2. fp' = St("flag", 0, fp.arg, o, n + 1, 0)
    <3>1. fp' = [fp EXCEPT !.mode = "flag", !.width = 0, !.out = o, !.from = n + 1, !.len = 0]
      BY <1>1, <1>2, <1>9, <2>1 DEF FChar
    <3>2. PICK m, w, a, p, f, l : fp = St(m, w, a, p, f, l) BY <1>4, StAll
    <3>. QED BY <3>1, <3>2 DEF St
  <2>3. sp' = St("flag", 0, sp.arg, sp.out, sp.from, sp.len)
    <3>1. sp' = [sp EXCEPT !.mode = "flag", !.width = 0] BY <1>1, <1>9, <1>5 DEF SChar, Agree
    <3>2. PICK m, w, a, p, f, l : sp = St(m, w, a, p, f, l) BY <1>4, StAll
    <3>. QED BY <3>1, <3>2 DEF St
  <2>4. /\ fp' \in FormatStates /\ fp'.mode = "flag" /\ fp'.width = 0 /\ fp'.arg = fp.arg
        /\ fp'.out = o /\ fp'.from = n + 1 /\ fp'.len = 0
    <3>1. fp.arg \in Nat /\ n + 1 \in Nat \ {0} /\ "flag" \in {"format", "flag"} /\ 0 \in Nat
      BY <1>4, Fields
    <3>. QED BY <2>2, <3>1, StIs
  <2>5. sp' \in FormatStates /\ sp'.mode = "flag" /\ sp'.width = 0 /\ sp'.arg = sp.arg /\ sp'.out = sp.out
    <3>1. /\ sp.arg \in Nat /\ sp.out \in Seq(Texts) /\ sp.from \in Nat \ {0} /\ sp.len \in Nat
          /\ "flag" \in {"format", "flag"} /\ 0 \in Nat
      BY <1>4, Fields
    <3>. QED BY <2>3, <3>1, StIs
  <2>6. Plain(fp', fmt') = <<>> BY <2>4, <1>3, PlainText
  <2>7. fp'.out \o Plain(fp', fmt') = sp'.out BY <2>1, <2>4, <2>5, <2>6, <1>5, ConcatEmptySeq
  <2>8. Agree(fp', sp') BY <2>4, <2>5, <1>5 DEF Agree
  <2>. QED BY <1>7, <2>4, <2>5, <2>7, <2>8
<1>10. CASE fp.mode # "flag" /\ c # "%"
  <2>1. fp' = [fp EXCEPT !.len = @ + 1] BY <1>1, <1>10 DEF FChar
  <2>2. sp' = [sp EXCEPT !.out = Append(@, c)] BY <1>1, <1>10, <1>5 DEF SChar, Agree
  <2>3. Plain(fp', fmt') = Append(Plain(fp, fmt), c) BY <1>1, <1>2, <1>3, <1>4, <1>6, <1>10, <2>1, PlainGrows
  <2>4. c \in Texts BY DEF Texts
  <2>5. /\ fp' \in FormatStates /\ fp'.out = fp.out /\ fp'.mode = fp.mode /\ fp'.width = fp.width
        /\ fp'.arg = fp.arg /\ fp'.len = fp.len + 1 /\ fp'.from = fp.from
    BY <2>1, <1>4, Counted
  <2>6. sp' \in FormatStates /\ sp'.out = Append(sp.out, c) /\ sp'.mode = sp.mode
        /\ sp'.width = sp.width /\ sp'.arg = sp.arg
    BY <2>2, <2>4, <1>4, Put
  <2>7. fp'.out \o Plain(fp', fmt') = sp'.out
    <3>1. PICK u \in Seq(Texts), v \in Seq(Texts) : u = fp.out /\ v = Plain(fp, fmt) BY <1>6
    <3>2. Append(v, c) = v \o <<c>> /\ Append(u \o v, c) = (u \o v) \o <<c>>
      BY <2>4, AppendIsConcat, ConcatProperties
    <3>3. <<c>> \in Seq(Texts) BY <2>4
    <3>4. (u \o v) \o <<c>> = u \o (v \o <<c>>) BY <3>3, ConcatAssociative
    <3>. QED BY <3>1, <3>2, <3>4, <2>3, <2>5, <2>6, <1>5
  <2>8. fp'.from + fp'.len = n + 2 BY <2>5, <1>4, <1>6, <1>10, Fields
  <2>9. Agree(fp', sp') BY <2>5, <2>6, <1>5 DEF Agree
  <2>. QED BY <1>7, <1>10, <2>5, <2>6, <2>7, <2>8, <2>9
<1>. QED BY <1>8, <1>9, <1>10

-----------------------------------------------------------------------------
(* Streams: what was taken, what waits in the buffer, where the file is.   *)

Bytes   == STRING \ {"error"}
Streams == [flags : Flags, blen : Nat, bat : Nat \ {0}, buf : Seq(Bytes)]

Waiting(str) == IF str.flags = "rdonly" THEN SubSeq(str.buf, str.bat, str.bat + str.blen - 1) ELSE <<>>

Kept(tk, str, pos) ==
  /\ tk \in Seq(Bytes) /\ str \in Streams /\ pos \in 0 .. Len(Content)
  /\ str.flags = "rdonly" => str.bat + str.blen = Len(str.buf) + 1
  /\ tk \o Waiting(str) = SubSeq(Content, 1, pos)

LEMMA FileBytes == Content \in Seq(Bytes) /\ Len(Content) \in Nat
BY StdioAssumption DEF Bytes

LEMMA StreamFields ==
  ASSUME NEW s \in Streams
  PROVE  s.flags \in Flags /\ s.blen \in Nat /\ s.bat \in Nat \ {0} /\ s.buf \in Seq(Bytes)
BY DEF Streams

\* The next byte of a buffer that is not empty.
LEMMA NextKeeps ==
  ASSUME NEW tk, NEW str, NEW pos, Kept(tk, str, pos), str.flags = "rdonly", str.blen > 0,
         NEW g, g = NextByte(pos, str)
  PROVE  g.c # "error" /\ Kept(Append(tk, g.c), g.stream, g.fd)
<1>1. PICK a \in Nat \ {0}, l \in Nat \ {0}, b \in Seq(Bytes) :
        a = str.bat /\ l = str.blen /\ b = str.buf /\ Len(b) = a + l - 1
  <2>1. str \in Streams /\ str.bat + str.blen = Len(str.buf) + 1 BY DEF Kept
  <2>2. str.blen \in Nat /\ str.bat \in Nat \ {0} /\ str.buf \in Seq(Bytes) BY <2>1, StreamFields
  <2>3. Len(str.buf) \in Nat BY <2>2
  <2>4. Len(str.buf) = str.bat + str.blen - 1 BY <2>1, <2>2, <2>3
  <2>5. str.blen \in Nat \ {0} BY <2>2
  <2>. QED BY <2>2, <2>4, <2>5
<1>2. a \in 1 .. Len(b) /\ a + l - 1 \in a .. Len(b) /\ b[a] \in Bytes
  <2>1. a \in 1 .. Len(b) /\ a + l - 1 \in a .. Len(b) BY <1>1
  <2>. QED BY <2>1, ElementOfSeq
<1>3. PICK s : s = [str EXCEPT !.blen = l - 1, !.bat = a + 1] OBVIOUS
<1>4. g = [c |-> b[a], fd |-> pos, stream |-> s] BY <1>1, <1>2, <1>3 DEF NextByte, Got
<1>5. str \in Streams BY DEF Kept
<1>6. l - 1 \in Nat /\ a + 1 \in Nat \ {0} BY <1>1
<1>7. s \in Streams BY <1>3, <1>5, <1>6 DEF Streams
<1>8. s.flags = "rdonly" /\ s.blen = l - 1 /\ s.bat = a + 1 /\ s.buf = b
  BY <1>1, <1>3, <1>5 DEF Streams
<1>9. Waiting(str) = SubSeq(b, a, a + l - 1) BY <1>1 DEF Waiting
<1>10. Waiting(s) = SubSeq(b, a + 1, a + l - 1)
  <2>1. a + 1 + (l - 1) - 1 = a + l - 1 OBVIOUS
  <2>. QED BY <1>8, <2>1 DEF Waiting
<1>11. SubSeq(b, a, a + l - 1) = <<b[a]>> \o SubSeq(b, a + 1, a + l - 1)
  BY <1>2, SubSeqRecursiveFirst
<1>12. tk \in Seq(Bytes) /\ <<b[a]>> \in Seq(Bytes) BY <1>2 DEF Kept
<1>13. SubSeq(b, a + 1, a + l - 1) \in Seq(Bytes)
  <2>1. \A i \in a + 1 .. a + l - 1 : b[i] \in Bytes BY <1>1, ElementOfSeq
  <2>2. a + 1 \in Int /\ a + l - 1 \in Int OBVIOUS
  <2>. QED BY <2>1, <2>2, SubSeqProperties
<1>14. Append(tk, b[a]) = tk \o <<b[a]>> /\ Append(tk, b[a]) \in Seq(Bytes)
  BY <1>2, <1>12, AppendIsConcat, AppendProperties
<1>15. Append(tk, b[a]) \o Waiting(s) = SubSeq(Content, 1, pos)
  <2>1. (tk \o <<b[a]>>) \o Waiting(s) = tk \o (<<b[a]>> \o Waiting(s))
    <3>1. Waiting(s) \in Seq(Bytes) BY <1>10, <1>13
    <3>. QED BY <3>1, <1>12, ConcatAssociative
  <2>. QED BY <2>1, <1>9, <1>10, <1>11, <1>14 DEF Kept
<1>16. s.bat + s.blen = Len(s.buf) + 1
  <2>1. (a + 1) + (l - 1) = (a + l - 1) + 1 OBVIOUS
  <2>. QED BY <2>1, <1>1, <1>8
<1>17. pos \in 0 .. Len(Content) BY DEF Kept
<1>18. Kept(Append(tk, b[a]), s, pos) BY <1>7, <1>14, <1>15, <1>16, <1>17 DEF Kept
<1>. QED BY <1>2, <1>4, <1>18 DEF Bytes

\* What a read of the file can give.
LEMMA ReadGives ==
  ASSUME NEW m \in Nat \ {0}, NEW n \in ReadLens(m), n > 0, fd \in 0 .. Len(Content)
  PROVE  n \in Nat /\ n <= m /\ fd + n <= Len(Content)
<1>1. PICK there \in Nat : there = Len(Content) - fd BY FileBytes
<1>2. there # 0 /\ n \in 1 .. Min({m, there}) BY <1>1 DEF ReadLens
<1>3. \E x \in {m, there} : \A y \in {m, there} : x <= y
  <2>1. CASE m <= there BY <2>1
  <2>2. CASE there <= m BY <2>2
  <2>. QED BY <2>1, <2>2
<1>4. Min({m, there}) \in {m, there} /\ Min({m, there}) <= m /\ Min({m, there}) <= there
  BY <1>3 DEF Min
<1>. QED BY <1>1, <1>2, <1>4, FileBytes

LEMMA FileGrows ==
  ASSUME NEW p \in Nat, NEW n \in Nat \ {0}, p + n <= Len(Content)
  PROVE  /\ SubSeq(Content, 1, p) \in Seq(Bytes) /\ SubSeq(Content, p + 1, p + n) \in Seq(Bytes)
         /\ Len(SubSeq(Content, p + 1, p + n)) = n
         /\ SubSeq(Content, 1, p) \o SubSeq(Content, p + 1, p + n) = SubSeq(Content, 1, p + n)
<1>1. \A i \in 1 .. p : Content[i] \in Bytes BY FileBytes, ElementOfSeq
<1>2. \A i \in p + 1 .. p + n : Content[i] \in Bytes BY FileBytes, ElementOfSeq
<1>3. p + 1 \in Int /\ p + n \in Int /\ p + 1 <= p + n /\ (p + n) - (p + 1) + 1 = n OBVIOUS
<1>4. SubSeq(Content, 1, p) \in Seq(Bytes) BY <1>1, SubSeqProperties
<1>5. SubSeq(Content, p + 1, p + n) \in Seq(Bytes) /\ Len(SubSeq(Content, p + 1, p + n)) = n
  BY <1>2, <1>3, SubSeqProperties
<1>6. 1 \in 1 .. Len(Content) + 1 /\ p \in 1 - 1 .. Len(Content) /\ p + n \in p .. Len(Content)
  BY FileBytes
<1>7. SubSeq(Content, 1, p) \o SubSeq(Content, p + 1, p + n) = SubSeq(Content, 1, p + n)
  BY <1>6, FileBytes, ConcatAdjacentSubSeq
<1>. QED BY <1>4, <1>5, <1>7

\* A buffer that is empty is filled from the position of the file.
LEMMA RefillKeeps ==
  ASSUME Kept(took, stream, fd), stream.flags = "rdonly", stream.blen = 0,
         NEW n \in ReadLens(BUF), n > 0
  PROVE  Kept(took, Refilled(n), fd + n) /\ Refilled(n).flags = "rdonly" /\ Refilled(n).blen > 0
<1>1. BUF \in Nat \ {0} /\ fd \in 0 .. Len(Content) /\ stream \in Streams /\ took \in Seq(Bytes)
  BY StdioAssumption DEF Kept
<1>2. n \in Nat \ {0} /\ fd \in Nat /\ fd + n <= Len(Content) BY <1>1, ReadGives, FileBytes
<1>3. PICK b \in Seq(Bytes) : b = SubSeq(Content, fd + 1, fd + n) /\ Len(b) = n BY <1>2, FileGrows
<1>4. PICK s : s = Refilled(n) OBVIOUS
<1>5. s = [stream EXCEPT !.blen = n, !.bat = 1, !.buf = b] BY <1>3, <1>4 DEF Refilled
<1>6. s \in Streams
  <2>1. s = [flags |-> stream.flags, blen |-> n, bat |-> 1, buf |-> b] BY <1>1, <1>5 DEF Streams
  <2>2. n \in Nat /\ 1 \in Nat \ {0} /\ stream.flags \in Flags BY <1>1, <1>2, StreamFields
  <2>. QED BY <2>1, <2>2, <1>3 DEF Streams
<1>7. s.flags = "rdonly" /\ s.blen = n /\ s.bat = 1 /\ s.buf = b BY <1>1, <1>5 DEF Streams
<1>8. Waiting(s) = b
  <2>1. Waiting(s) = SubSeq(b, 1, Len(b)) BY <1>3, <1>7, <1>2 DEF Waiting
  <2>. QED BY <2>1, SubSeqFull
<1>9. took = SubSeq(Content, 1, fd)
  <2>1. PICK a \in Nat \ {0} : a = stream.bat BY <1>1, StreamFields
  <2>2. Waiting(stream) = SubSeq(stream.buf, a, a + 0 - 1) BY <2>1 DEF Waiting
  <2>3. a + 0 - 1 < a /\ a \in Int /\ a + 0 - 1 \in Int OBVIOUS
  <2>4. Waiting(stream) = <<>> BY <2>2, <2>3, SubSeqEmpty
  <2>. QED BY <2>4, <1>1, ConcatEmptySeq DEF Kept
<1>10. took \o Waiting(s) = SubSeq(Content, 1, fd + n) BY <1>2, <1>3, <1>8, <1>9, FileGrows
<1>11. fd + n \in 0 .. Len(Content) BY <1>2
<1>12. s.bat + s.blen = Len(s.buf) + 1 BY <1>3, <1>7
<1>. QED BY <1>1, <1>2, <1>4, <1>6, <1>7, <1>10, <1>11, <1>12 DEF Kept

LEMMA FgetcKeeps ==
  ASSUME Kept(took, stream, fd), NEW g \in Fgetc
  PROVE  Kept(IF g.c = "error" THEN took ELSE Append(took, g.c), g.stream, g.fd)
<1>1. ASSUME NEW p, NEW s, g = Got("error", p, s), p = fd, s = stream
      PROVE  Kept(IF g.c = "error" THEN took ELSE Append(took, g.c), g.stream, g.fd)
  BY <1>1 DEF Got
<1>2. CASE stream.flags = "rdonly" /\ stream.blen > 0
  <2>1. g = NextByte(fd, stream) BY <1>2 DEF Fgetc
  <2>. QED BY <2>1, <1>2, NextKeeps
<1>3. CASE stream.flags = "rdonly" /\ ~(stream.blen > 0)
  <2>1. stream.blen = 0 BY <1>3, StreamFields DEF Kept
  <2>2. PICK n \in ReadLens(BUF) :
          g = IF n <= 0 THEN Got("error", fd, stream) ELSE NextByte(fd + n, Refilled(n))
    BY <1>3 DEF Fgetc
  <2>3. CASE n <= 0 BY <2>2, <2>3, <1>1
  <2>4. CASE ~(n <= 0)
    <3>1. n > 0
      <4>1. n \in Int BY DEF ReadLens
      <4>. QED BY <4>1, <2>4
    <3>2. PICK s : s = Refilled(n) OBVIOUS
    <3>3. Kept(took, s, fd + n) /\ s.flags = "rdonly" /\ s.blen > 0
      BY <1>3, <2>1, <3>1, <3>2, RefillKeeps
    <3>4. g = NextByte(fd + n, s) BY <2>2, <2>4, <3>2
    <3>. QED BY <3>3, <3>4, NextKeeps
  <2>. QED BY <2>3, <2>4
<1>4. CASE stream.flags # "rdonly"
  <2>1. PICK n \in ReadLens(1) :
          g = IF n = 1 THEN Got(Content[fd + 1], fd + 1, stream) ELSE Got("error", fd, stream)
    BY <1>4 DEF Fgetc
  <2>2. CASE n # 1 BY <2>1, <2>2, <1>1
  <2>3. CASE n = 1
    <3>1. fd \in Nat /\ fd + 1 <= Len(Content) BY <2>3, ReadGives, FileBytes DEF Kept
    <3>2. Content[fd + 1] \in Bytes BY <3>1, FileBytes, ElementOfSeq
    <3>3. g = [c |-> Content[fd + 1], fd |-> fd + 1, stream |-> stream] BY <2>1, <2>3 DEF Got
    <3>4. took \in Seq(Bytes) /\ took = SubSeq(Content, 1, fd)
      BY <1>4, ConcatEmptySeq DEF Kept, Waiting
    <3>5. 1 \in 1 .. Len(Content) /\ fd + 1 \in 1 .. Len(Content) /\ (fd + 1) - 1 = fd
      BY <3>1, FileBytes
    <3>6. SubSeq(Content, 1, fd + 1) = SubSeq(Content, 1, fd) \o <<Content[fd + 1]>>
      BY <3>5, FileBytes, SubSeqRecursiveSecond
    <3>7. Append(took, Content[fd + 1]) = took \o <<Content[fd + 1]>> /\ Append(took, Content[fd + 1]) \in Seq(Bytes)
      BY <3>2, <3>4, AppendIsConcat, AppendProperties
    <3>8. Append(took, Content[fd + 1]) \o Waiting(stream) = SubSeq(Content, 1, fd + 1)
      BY <1>4, <3>4, <3>6, <3>7, ConcatEmptySeq DEF Waiting
    <3>9. fd + 1 \in 0 .. Len(Content) BY <3>1
    <3>10. Kept(Append(took, Content[fd + 1]), stream, fd + 1) BY <1>4, <3>7, <3>8, <3>9 DEF Kept
    <3>. QED BY <3>2, <3>3, <3>10 DEF Bytes
  <2>. QED BY <2>2, <2>3
<1>. QED BY <1>2, <1>3, <1>4

LEMMA FileStep ==
  ASSUME Kept(took, stream, fd), FileNext
  PROVE  Kept(took', stream', fd')
<1>1. CASE GetsTurn
  <2>1. PICK g \in Fgetc : /\ fd' = g.fd /\ stream' = g.stream
                           /\ took' = IF g.c = "error" THEN took ELSE Append(took, g.c)
    BY <1>1 DEF GetsTurn
  <2>. QED BY <2>1, FgetcKeeps
<1>2. CASE ~GetsTurn
  <2>1. UNCHANGED <<took, stream, fd>> BY <1>2 DEF FileNext, Gets, GetsFull
  <2>. QED BY <2>1
<1>. QED BY <1>1, <1>2

-----------------------------------------------------------------------------
(* Lists of chunks: no two overlap.                                        *)

Chunks      == [at : Nat, len : Nat, used : BOOLEAN]
Clear(c, d) == End(c) <= d.at \/ End(d) <= c.at

Sound(list) ==
  /\ list \in Seq(Chunks)
  /\ \A i, j \in 1 .. Len(list) : i # j => Clear(list[i], list[j])

Covered(list) == UNION {Extent(list[i]) : i \in DOMAIN list}
Used(list)    == {list[i].at + HEAD : i \in {j \in DOMAIN list : list[j].used}}

LEMMA ChunkFields ==
  ASSUME NEW c \in Chunks
  PROVE  /\ c.at \in Nat /\ c.len \in Nat /\ c.used \in BOOLEAN
         /\ End(c) \in Nat /\ End(c) = c.at + 8 + c.len
         /\ \A x : x \in Extent(c) <=> x \in Nat /\ c.at <= x /\ x < End(c)
BY DEF Chunks, End, Extent, HEAD

LEMMA ClearApart ==
  ASSUME NEW c \in Chunks, NEW d \in Chunks
  PROVE  Clear(c, d) <=> Extent(c) \cap Extent(d) = {}
<1>1. ASSUME Clear(c, d) PROVE Extent(c) \cap Extent(d) = {} BY <1>1, ChunkFields DEF Clear
<1>2. ASSUME ~Clear(c, d) PROVE Extent(c) \cap Extent(d) # {}
  <2>1. PICK x : x = IF c.at <= d.at THEN d.at ELSE c.at OBVIOUS
  <2>2. x \in Extent(c) /\ x \in Extent(d) BY <1>2, <2>1, ChunkFields DEF Clear
  <2>. QED BY <2>2
<1>. QED BY <1>1, <1>2

LEMMA CoveredIs ==
  ASSUME NEW list \in Seq(Chunks), NEW x
  PROVE  x \in Covered(list) <=> \E i \in 1 .. Len(list) : x \in Extent(list[i])
BY DEF Covered

LEMMA UsedIs ==
  ASSUME NEW list \in Seq(Chunks), NEW x
  PROVE  x \in Used(list) <=> \E i \in 1 .. Len(list) : list[i].used /\ x = list[i].at + 8
BY DEF Used, HEAD

\* Chunks that are clear of each other begin at different places.
LEMMA Distinct ==
  ASSUME NEW list, Sound(list), NEW i \in 1 .. Len(list), NEW j \in 1 .. Len(list),
         list[i].at = list[j].at
  PROVE  i = j
<1>1. list[i] \in Chunks /\ list[j] \in Chunks BY ElementOfSeq DEF Sound
<1>2. End(list[i]) > list[i].at /\ End(list[j]) > list[j].at
  <2>1. list[i].at \in Nat /\ list[i].len \in Nat /\ End(list[i]) = list[i].at + 8 + list[i].len
    BY <1>1, ChunkFields
  <2>2. list[j].at \in Nat /\ list[j].len \in Nat /\ End(list[j]) = list[j].at + 8 + list[j].len
    BY <1>1, ChunkFields
  <2>. QED BY <2>1, <2>2, SMTT(30)
<1>3. i # j => Clear(list[i], list[j]) BY DEF Sound
<1>4. list[i].at \in Nat /\ End(list[i]) \in Nat /\ End(list[j]) \in Nat BY <1>1, ChunkFields
<1>. QED BY <1>2, <1>3, <1>4 DEF Clear

\* A list whose middle is replaced.
Splice(list, i, m, j) == SubSeq(list, 1, i - 1) \o m \o SubSeq(list, j, Len(list))

LEMMA Spliced ==
  ASSUME NEW list \in Seq(Chunks), NEW m \in Seq(Chunks), NEW i \in 1 .. Len(list),
         NEW j \in i + 1 .. Len(list) + 1
  PROVE  /\ Splice(list, i, m, j) \in Seq(Chunks)
         /\ Len(Splice(list, i, m, j)) = i - 1 + Len(m) + (Len(list) - j + 1)
         /\ \A k \in 1 .. i - 1 : Splice(list, i, m, j)[k] = list[k]
         /\ \A k \in 1 .. Len(m) : Splice(list, i, m, j)[i - 1 + k] = m[k]
         /\ \A k \in j .. Len(list) : Splice(list, i, m, j)[i - 1 + Len(m) + (k - j + 1)] = list[k]
<1>0. PICK s : s = Splice(list, i, m, j) OBVIOUS
<1>1. PICK n \in Nat, l \in Nat : n = Len(list) /\ l = Len(m) OBVIOUS
<1>2. PICK a : a = SubSeq(list, 1, i - 1) OBVIOUS
<1>3. PICK b : b = SubSeq(list, j, n) OBVIOUS
<1>4. a \in Seq(Chunks) /\ Len(a) = i - 1 /\ \A k \in 1 .. i - 1 : a[k] = list[k]
  <2>1. \A k \in 1 .. i - 1 : list[k] \in Chunks BY ElementOfSeq
  <2>2. 1 \in Int /\ i - 1 \in Int /\ (i - 1) - 1 + 1 = i - 1 OBVIOUS
  <2>3. a \in Seq(Chunks) /\ Len(a) = (IF 1 <= i - 1 THEN (i - 1) - 1 + 1 ELSE 0)
        /\ \A k \in 1 .. (i - 1) - 1 + 1 : a[k] = list[1 + k - 1]
    BY <1>2, <2>1, <2>2, SubSeqProperties
  <2>4. \A k \in 1 .. i - 1 : 1 + k - 1 = k OBVIOUS
  <2>. QED BY <2>2, <2>3, <2>4
<1>5. b \in Seq(Chunks) /\ Len(b) = n - j + 1 /\ \A k \in 1 .. n - j + 1 : b[k] = list[j + k - 1]
  <2>1. \A k \in j .. n : list[k] \in Chunks BY <1>1, ElementOfSeq
  <2>2. j \in Int /\ n \in Int /\ j <= n + 1 BY <1>1
  <2>3. b \in Seq(Chunks) /\ Len(b) = (IF j <= n THEN n - j + 1 ELSE 0)
        /\ \A k \in 1 .. n - j + 1 : b[k] = list[j + k - 1]
    BY <1>3, <2>1, <2>2, SubSeqProperties
  <2>. QED BY <2>2, <2>3
<1>6. PICK c : c = a \o m OBVIOUS
<1>7. /\ c \in Seq(Chunks) /\ Len(c) = i - 1 + l
      /\ \A k \in 1 .. i - 1 + l : c[k] = IF k <= i - 1 THEN a[k] ELSE m[k - (i - 1)]
  BY <1>1, <1>4, <1>6, ConcatProperties
<1>8. s = c \o b BY <1>0, <1>1, <1>2, <1>3, <1>6 DEF Splice
<1>9. /\ s \in Seq(Chunks) /\ Len(s) = i - 1 + l + (n - j + 1)
      /\ \A k \in 1 .. i - 1 + l + (n - j + 1) : s[k] = IF k <= i - 1 + l THEN c[k] ELSE b[k - (i - 1 + l)]
  <2>1. PICK q \in Nat, t \in Nat : q = Len(c) /\ t = Len(b) BY <1>5, <1>7
  <2>2. s \in Seq(Chunks) /\ Len(s) = q + t
        /\ \A k \in 1 .. q + t : s[k] = IF k <= q THEN c[k] ELSE b[k - q]
    <3>1. c \in Seq(Chunks) /\ b \in Seq(Chunks) BY <1>5, <1>7
    <3>2. /\ c \o b \in Seq(Chunks) /\ Len(c \o b) = Len(c) + Len(b)
          /\ \A k \in 1 .. Len(c) + Len(b) : (c \o b)[k] = IF k <= Len(c) THEN c[k] ELSE b[k - Len(c)]
      BY <3>1, ConcatProperties
    <3>. QED BY <2>1, <3>2, <1>8
  <2>3. q = i - 1 + l /\ t = n - j + 1 BY <2>1, <1>5, <1>7
  <2>. QED BY <2>2, <2>3
<1>10. \A k \in 1 .. i - 1 : s[k] = list[k]
  <2>1. TAKE k \in 1 .. i - 1
  <2>2. k \in 1 .. i - 1 + l /\ k \in 1 .. i - 1 + l + (n - j + 1) BY <1>1
  <2>3. k <= i - 1 /\ k <= i - 1 + l BY <1>1
  <2>4. s[k] = c[k] BY <2>2, <2>3, <1>9
  <2>5. c[k] = a[k] BY <2>2, <2>3, <1>7
  <2>. QED BY <2>4, <2>5, <1>4
<1>11. \A k \in 1 .. l : s[i - 1 + k] = m[k]
  <2>1. TAKE k \in 1 .. l
  <2>2. i - 1 + k \in 1 .. i - 1 + l /\ i - 1 + k \in 1 .. i - 1 + l + (n - j + 1)
        /\ (i - 1 + k) - (i - 1) = k /\ ~(i - 1 + k <= i - 1) /\ i - 1 + k <= i - 1 + l
    BY <1>1
  <2>3. s[i - 1 + k] = c[i - 1 + k] BY <2>2, <1>9
  <2>4. c[i - 1 + k] = m[(i - 1 + k) - (i - 1)] BY <2>2, <1>7
  <2>. QED BY <2>2, <2>3, <2>4
<1>12. \A k \in j .. n : s[i - 1 + l + (k - j + 1)] = list[k]
  <2>1. TAKE k \in j .. n
  <2>2. PICK q \in Nat : q = k - j + 1 /\ q \in 1 .. n - j + 1 /\ j + q - 1 = k BY <1>1
  <2>3. i - 1 + l + q \in 1 .. i - 1 + l + (n - j + 1) /\ ~(i - 1 + l + q <= i - 1 + l)
        /\ (i - 1 + l + q) - (i - 1 + l) = q
    BY <1>1, <2>2
  <2>4. s[i - 1 + l + q] = b[(i - 1 + l + q) - (i - 1 + l)] BY <2>3, <1>9
  <2>. QED BY <2>2, <2>3, <2>4, <1>5
<1>13. /\ s \in Seq(Chunks) /\ Len(s) = i - 1 + Len(m) + (Len(list) - j + 1)
       /\ \A k \in 1 .. i - 1 : s[k] = list[k]
       /\ \A k \in 1 .. Len(m) : s[i - 1 + k] = m[k]
       /\ \A k \in j .. Len(list) : s[i - 1 + Len(m) + (k - j + 1)] = list[k]
  BY <1>1, <1>9, <1>10, <1>11, <1>12
<1>. QED BY <1>0, <1>13, Zenon

\* s is list with its free chunk i cut in two; the second part may be taken.
CutAt(list, s, i) ==
  /\ list \in Seq(Chunks) /\ s \in Seq(Chunks) /\ i \in 1 .. Len(list) /\ Len(s) = Len(list) + 1
  /\ \A k \in 1 .. i - 1 : s[k] = list[k]
  /\ \A k \in i + 1 .. Len(list) : s[k + 1] = list[k]
  /\ s[i].at = list[i].at /\ End(s[i]) = s[i + 1].at /\ End(s[i + 1]) = End(list[i])
  /\ ~list[i].used /\ ~s[i].used

\* Each chunk but i is found again, and s has none but these and the parts.
LEMMA CutPlaces ==
  ASSUME NEW list, NEW s, NEW i, CutAt(list, s, i)
  PROVE  /\ \A k \in 1 .. Len(list) : k # i => (IF k < i THEN k ELSE k + 1) \in 1 .. Len(s)
                                       /\ s[IF k < i THEN k ELSE k + 1] = list[k]
         /\ \A k \in 1 .. Len(s) : k # i /\ k # i + 1 =>
                 (IF k < i THEN k ELSE k - 1) \in 1 .. Len(list) /\ (IF k < i THEN k ELSE k - 1) # i
                  /\ s[k] = list[IF k < i THEN k ELSE k - 1]
         /\ i \in Nat /\ i \in 1 .. Len(s) /\ i + 1 \in 1 .. Len(s)
<1>1. PICK n \in Nat : n = Len(list) BY DEF CutAt
<1>2. /\ i \in 1 .. n /\ Len(s) = n + 1 /\ \A k \in 1 .. i - 1 : s[k] = list[k]
      /\ \A k \in i + 1 .. n : s[k + 1] = list[k]
  BY <1>1 DEF CutAt
<1>3. ASSUME NEW k \in 1 .. n, k # i
      PROVE  (IF k < i THEN k ELSE k + 1) \in 1 .. n + 1 /\ s[IF k < i THEN k ELSE k + 1] = list[k]
  <2>1. CASE k < i BY <2>1, <1>2
  <2>2. CASE k > i BY <2>2, <1>2
  <2>. QED BY <2>1, <2>2, <1>2, <1>3
<1>4. ASSUME NEW k \in 1 .. n + 1, k # i, k # i + 1
      PROVE  /\ (IF k < i THEN k ELSE k - 1) \in 1 .. n /\ (IF k < i THEN k ELSE k - 1) # i
             /\ s[k] = list[IF k < i THEN k ELSE k - 1]
  <2>1. CASE k < i BY <2>1, <1>2
  <2>2. CASE k > i + 1
    <3>1. PICK l \in Nat : l = k - 1 /\ k = l + 1 /\ l \in i + 1 .. n BY <2>2, <1>2
    <3>2. s[l + 1] = list[l] BY <3>1, <1>2
    <3>. QED BY <3>1, <3>2, <2>2, <1>2
  <2>. QED BY <2>1, <2>2, <1>2, <1>4
<1>. QED BY <1>1, <1>2, <1>3, <1>4

\* The places of the parts.
LEMMA CutBounds ==
  ASSUME NEW list, NEW s, NEW i, CutAt(list, s, i)
  PROVE  /\ list[i] \in Chunks /\ s[i] \in Chunks /\ s[i + 1] \in Chunks
         /\ list[i].at \in Nat /\ s[i].at \in Nat /\ s[i + 1].at \in Nat
         /\ End(list[i]) \in Nat /\ End(s[i]) \in Nat /\ End(s[i + 1]) \in Nat
         /\ s[i].at = list[i].at /\ End(s[i]) = s[i + 1].at /\ End(s[i + 1]) = End(list[i])
         /\ s[i].at < End(s[i]) /\ s[i + 1].at < End(s[i + 1])
<1>1. i \in 1 .. Len(list) /\ i \in 1 .. Len(s) /\ i + 1 \in 1 .. Len(s) BY CutPlaces DEF CutAt
<1>2. list[i] \in Chunks /\ s[i] \in Chunks /\ s[i + 1] \in Chunks BY <1>1, ElementOfSeq DEF CutAt
<1>3. /\ list[i].at \in Nat /\ s[i].at \in Nat /\ s[i + 1].at \in Nat
      /\ End(list[i]) \in Nat /\ End(s[i]) \in Nat /\ End(s[i + 1]) \in Nat
  BY <1>2, ChunkFields
<1>4. s[i].at < End(s[i]) /\ s[i + 1].at < End(s[i + 1])
  <2>1. End(s[i]) = s[i].at + 8 + s[i].len /\ s[i].len \in Nat BY <1>2, ChunkFields
  <2>2. End(s[i + 1]) = s[i + 1].at + 8 + s[i + 1].len /\ s[i + 1].len \in Nat BY <1>2, ChunkFields
  <2>. QED BY <2>1, <2>2, <1>3
<1>5. s[i].at = list[i].at /\ End(s[i]) = s[i + 1].at /\ End(s[i + 1]) = End(list[i]) BY DEF CutAt
<1>. QED BY <1>2, <1>3, <1>4, <1>5

LEMMA CutCovers ==
  ASSUME NEW list, NEW s, NEW i, CutAt(list, s, i)
  PROVE  Covered(s) = Covered(list)
<1>1. list \in Seq(Chunks) /\ s \in Seq(Chunks) /\ i \in 1 .. Len(list) BY DEF CutAt
<1>2. \A x : x \in Extent(list[i]) <=> x \in Extent(s[i]) \/ x \in Extent(s[i + 1])
  <2>1. TAKE x
  <2>2. /\ x \in Extent(list[i]) <=> x \in Nat /\ list[i].at <= x /\ x < End(list[i])
        /\ x \in Extent(s[i]) <=> x \in Nat /\ s[i].at <= x /\ x < End(s[i])
        /\ x \in Extent(s[i + 1]) <=> x \in Nat /\ s[i + 1].at <= x /\ x < End(s[i + 1])
    BY CutBounds, ChunkFields
  <2>3. CASE x \in Nat BY <2>2, <2>3, CutBounds
  <2>. QED BY <2>2, <2>3
<1>3. ASSUME NEW x, x \in Covered(s) PROVE x \in Covered(list)
  <2>1. PICK k \in 1 .. Len(s) : x \in Extent(s[k]) BY <1>1, <1>3, CoveredIs
  <2>2. CASE k = i \/ k = i + 1 BY <2>1, <2>2, <1>1, <1>2, CoveredIs
  <2>3. CASE k # i /\ k # i + 1
    <3>1. PICK l \in 1 .. Len(list) : s[k] = list[l] BY <2>3, CutPlaces
    <3>. QED BY <3>1, <2>1, <1>1, CoveredIs
  <2>. QED BY <2>2, <2>3
<1>4. ASSUME NEW x, x \in Covered(list) PROVE x \in Covered(s)
  <2>1. PICK k \in 1 .. Len(list) : x \in Extent(list[k]) BY <1>1, <1>4, CoveredIs
  <2>2. CASE k = i
    <3>1. i \in 1 .. Len(s) /\ i + 1 \in 1 .. Len(s) BY CutPlaces
    <3>. QED BY <3>1, <2>1, <2>2, <1>1, <1>2, CoveredIs
  <2>3. CASE k # i
    <3>1. PICK l \in 1 .. Len(s) : s[l] = list[k] BY <2>3, CutPlaces
    <3>. QED BY <3>1, <2>1, <1>1, CoveredIs
  <2>. QED BY <2>2, <2>3
<1>. QED BY <1>3, <1>4

LEMMA CutUses ==
  ASSUME NEW list, NEW s, NEW i, CutAt(list, s, i)
  PROVE  Used(s) = Used(list) \cup (IF s[i + 1].used THEN {s[i + 1].at + 8} ELSE {})
<1>1. list \in Seq(Chunks) /\ s \in Seq(Chunks) /\ ~list[i].used /\ ~s[i].used BY DEF CutAt
<1>2. i \in 1 .. Len(s) /\ i + 1 \in 1 .. Len(s) BY CutPlaces
<1>3. ASSUME NEW x, x \in Used(s)
      PROVE  x \in Used(list) \cup (IF s[i + 1].used THEN {s[i + 1].at + 8} ELSE {})
  <2>1. PICK k \in 1 .. Len(s) : s[k].used /\ x = s[k].at + 8 BY <1>1, <1>3, UsedIs
  <2>2. CASE k = i + 1 BY <2>1, <2>2
  <2>3. CASE k # i /\ k # i + 1
    <3>1. PICK l \in 1 .. Len(list) : s[k] = list[l] BY <2>3, CutPlaces
    <3>2. x \in Used(list) BY <3>1, <2>1, <1>1, UsedIs
    <3>. QED BY <3>2
  <2>. QED BY <2>1, <2>2, <2>3, <1>1
<1>4. ASSUME NEW x, x \in Used(list) PROVE x \in Used(s)
  <2>1. PICK k \in 1 .. Len(list) : list[k].used /\ x = list[k].at + 8 BY <1>1, <1>4, UsedIs
  <2>2. k # i BY <2>1, <1>1
  <2>3. PICK l \in 1 .. Len(s) : s[l] = list[k] BY <2>2, CutPlaces
  <2>. QED BY <2>1, <2>3, <1>1, UsedIs
<1>5. s[i + 1].used => s[i + 1].at + 8 \in Used(s) BY <1>1, <1>2, UsedIs
<1>. QED BY <1>3, <1>4, <1>5

\* Cutting a chunk of a list without overlaps makes none.
LEMMA CutSound ==
  ASSUME NEW list, NEW s, NEW i, CutAt(list, s, i), Sound(list)
  PROVE  Sound(s)
<1>1. i \in 1 .. Len(list) BY DEF CutAt
<1>2. ASSUME NEW k \in 1 .. Len(list), k # i
      PROVE  Clear(s[i], list[k]) /\ Clear(s[i + 1], list[k]) /\ Clear(list[k], s[i]) /\ Clear(list[k], s[i + 1])
  <2>1. Clear(list[i], list[k]) BY <1>1, <1>2 DEF Sound
  <2>2. list[k] \in Chunks BY ElementOfSeq DEF Sound
  <2>3. list[k].at \in Nat /\ End(list[k]) \in Nat BY <2>2, ChunkFields
  <2>. QED BY <2>1, <2>3, CutBounds DEF Clear
<1>3. Clear(s[i], s[i + 1]) /\ Clear(s[i + 1], s[i]) BY CutBounds DEF Clear
<1>4. ASSUME NEW k \in 1 .. Len(s), NEW l \in 1 .. Len(s), k # l PROVE Clear(s[k], s[l])
  <2>1. CASE k \in {i, i + 1} /\ l \in {i, i + 1} BY <2>1, <1>3, <1>4
  <2>2. CASE k \in {i, i + 1} /\ l \notin {i, i + 1}
    <3>1. PICK m \in 1 .. Len(list) : m # i /\ s[l] = list[m]
      <4>1. l # i /\ l # i + 1 BY <2>2
      <4>2. PICK p : p = IF l < i THEN l ELSE l - 1 OBVIOUS
      <4>3. p \in 1 .. Len(list) /\ p # i /\ s[l] = list[p] BY <4>1, <4>2, CutPlaces
      <4>. QED BY <4>3
    <3>. QED BY <3>1, <2>2, <1>2
  <2>3. CASE k \notin {i, i + 1} /\ l \in {i, i + 1}
    <3>1. PICK m \in 1 .. Len(list) : m # i /\ s[k] = list[m]
      <4>1. k # i /\ k # i + 1 BY <2>3
      <4>2. PICK p : p = IF k < i THEN k ELSE k - 1 OBVIOUS
      <4>3. p \in 1 .. Len(list) /\ p # i /\ s[k] = list[p] BY <4>1, <4>2, CutPlaces
      <4>. QED BY <4>3
    <3>. QED BY <3>1, <2>3, <1>2
  <2>4. CASE k \notin {i, i + 1} /\ l \notin {i, i + 1}
    <3>1. PICK p : p = IF k < i THEN k ELSE k - 1 OBVIOUS
    <3>2. PICK q : q = IF l < i THEN l ELSE l - 1 OBVIOUS
    <3>3. p \in 1 .. Len(list) /\ s[k] = list[p] BY <2>4, <3>1, CutPlaces
    <3>4. q \in 1 .. Len(list) /\ s[l] = list[q] BY <2>4, <3>2, CutPlaces
    <3>5. p # q
      <4>1. i \in Nat /\ k \in Nat /\ l \in Nat /\ k # i /\ l # i BY <2>4, CutPlaces
      <4>. QED BY <4>1, <3>1, <3>2, <1>4
    <3>. QED BY <3>3, <3>4, <3>5 DEF Sound
  <2>. QED BY <2>1, <2>2, <2>3, <2>4
<1>. QED BY <1>4 DEF Sound, CutAt

\* And joining the parts again makes none.
LEMMA CutSoundBack ==
  ASSUME NEW list, NEW s, NEW i, CutAt(list, s, i), Sound(s)
  PROVE  Sound(list)
<1>1. i \in Nat /\ i \in 1 .. Len(s) /\ i + 1 \in 1 .. Len(s) BY CutPlaces
<1>2. ASSUME NEW k \in 1 .. Len(list), k # i PROVE Clear(list[i], list[k]) /\ Clear(list[k], list[i])
  <2>1. PICK l : l = IF k < i THEN k ELSE k + 1 OBVIOUS
  <2>2. l \in 1 .. Len(s) /\ s[l] = list[k] BY <1>2, <2>1, CutPlaces
  <2>3. l # i /\ l # i + 1 BY <1>1, <1>2, <2>1
  <2>4. Clear(s[i], list[k]) /\ Clear(s[i + 1], list[k]) BY <1>1, <2>2, <2>3 DEF Sound
  <2>5. list[k] \in Chunks BY <2>2, ElementOfSeq DEF Sound
  <2>6. list[k].at \in Nat /\ End(list[k]) \in Nat /\ list[k].at < End(list[k])
    <3>1. list[k].at \in Nat /\ list[k].len \in Nat /\ End(list[k]) \in Nat
          /\ End(list[k]) = list[k].at + 8 + list[k].len
      BY <2>5, ChunkFields
    <3>. QED BY <3>1
  <2>. QED BY <2>4, <2>6, CutBounds DEF Clear
<1>3. ASSUME NEW k \in 1 .. Len(list), NEW l \in 1 .. Len(list), k # l PROVE Clear(list[k], list[l])
  <2>1. CASE k = i \/ l = i BY <2>1, <1>2, <1>3
  <2>2. CASE k # i /\ l # i
    <3>1. PICK p : p = IF k < i THEN k ELSE k + 1 OBVIOUS
    <3>2. PICK q : q = IF l < i THEN l ELSE l + 1 OBVIOUS
    <3>3. p \in 1 .. Len(s) /\ s[p] = list[k] BY <2>2, <3>1, CutPlaces
    <3>4. q \in 1 .. Len(s) /\ s[q] = list[l] BY <2>2, <3>2, CutPlaces
    <3>5. p # q
      <4>1. k \in Nat /\ l \in Nat OBVIOUS
      <4>. QED BY <4>1, <1>1, <3>1, <3>2, <1>3
    <3>. QED BY <3>3, <3>4, <3>5 DEF Sound
  <2>. QED BY <2>1, <2>2
<1>. QED BY <1>3 DEF Sound, CutAt

\* Replacing a chunk by two that share its place: the second is taken.
LEMMA SplitGives ==
  ASSUME NEW list, Sound(list), NEW i \in 1 .. Len(list), ~list[i].used,
         NEW a \in Chunks, NEW b \in Chunks, ~a.used, b.used,
         a.at = list[i].at, End(a) = b.at, End(b) = End(list[i]),
         NEW s, s = Splice(list, i, <<a, b>>, i + 1)
  PROVE  /\ CutAt(list, s, i) /\ s[i] = a /\ s[i + 1] = b
<1>1. PICK n \in Nat : n = Len(list) BY DEF Sound
<1>2. list \in Seq(Chunks) /\ i \in 1 .. n /\ i \in 1 .. Len(list) BY <1>1 DEF Sound
<1>3. PICK m : m = <<a, b>> OBVIOUS
<1>4. m \in Seq(Chunks) /\ Len(m) = 2 /\ m[1] = a /\ m[2] = b BY <1>3
<1>5. i + 1 \in i + 1 .. Len(list) + 1 BY <1>1, <1>2
<1>6. s = Splice(list, i, m, i + 1) BY <1>3
<1>7. /\ s \in Seq(Chunks) /\ Len(s) = i - 1 + Len(m) + (Len(list) - (i + 1) + 1)
      /\ \A k \in 1 .. i - 1 : s[k] = list[k]
      /\ \A k \in 1 .. Len(m) : s[i - 1 + k] = m[k]
      /\ \A k \in i + 1 .. Len(list) : s[i - 1 + Len(m) + (k - (i + 1) + 1)] = list[k]
  <2>1. PICK j \in i + 1 .. Len(list) + 1 : j = i + 1 BY <1>5
  <2>2. s = Splice(list, i, m, j) BY <1>6, <2>1
  <2>3. /\ s \in Seq(Chunks) /\ Len(s) = i - 1 + Len(m) + (Len(list) - j + 1)
        /\ \A k \in 1 .. i - 1 : s[k] = list[k]
        /\ \A k \in 1 .. Len(m) : s[i - 1 + k] = m[k]
        /\ \A k \in j .. Len(list) : s[i - 1 + Len(m) + (k - j + 1)] = list[k]
    <3>1. list \in Seq(Chunks) /\ m \in Seq(Chunks) /\ i \in 1 .. Len(list) BY <1>2, <1>4
    <3>2. /\ Splice(list, i, m, j) \in Seq(Chunks)
          /\ Len(Splice(list, i, m, j)) = i - 1 + Len(m) + (Len(list) - j + 1)
          /\ \A k \in 1 .. i - 1 : Splice(list, i, m, j)[k] = list[k]
          /\ \A k \in 1 .. Len(m) : Splice(list, i, m, j)[i - 1 + k] = m[k]
          /\ \A k \in j .. Len(list) : Splice(list, i, m, j)[i - 1 + Len(m) + (k - j + 1)] = list[k]
      BY <2>1, <3>1, Spliced, ZenonT(60)
    <3>. QED BY <2>2, <3>2, Zenon
  <2>. QED BY <2>1, <2>3
<1>8. s[i] = a /\ s[i + 1] = b
  <2>1. 1 \in 1 .. Len(m) /\ 2 \in 1 .. Len(m) BY <1>4
  <2>2. i - 1 + 1 = i /\ i - 1 + 2 = i + 1 BY <1>2
  <2>. QED BY <1>4, <1>7, <2>1, <2>2
<1>9. Len(s) = n + 1
  <2>1. i - 1 + 2 + (n - (i + 1) + 1) = n + 1 BY <1>2
  <2>. QED BY <1>1, <1>4, <1>7, <2>1
<1>10. \A k \in i + 1 .. n : s[k + 1] = list[k]
  <2>1. TAKE k \in i + 1 .. n
  <2>2. i - 1 + 2 + (k - (i + 1) + 1) = k + 1 BY <1>2
  <2>3. s[i - 1 + 2 + (k - (i + 1) + 1)] = list[k] BY <1>1, <1>4, <1>7
  <2>. QED BY <2>2, <2>3
<1>. QED BY <1>1, <1>2, <1>7, <1>8, <1>9, <1>10 DEF CutAt

\* Joining two chunks that touch.
LEMMA JoinCuts ==
  ASSUME NEW list \in Seq(Chunks), NEW i \in 1 .. Len(list) - 1, NEW c \in Chunks,
         ~list[i].used, ~list[i + 1].used, ~c.used, End(list[i]) = list[i + 1].at,
         c.at = list[i].at, End(c) = End(list[i + 1]),
         NEW s, s = Splice(list, i, <<c>>, i + 2)
  PROVE  CutAt(s, list, i)
<1>1. PICK n \in Nat : n = Len(list) OBVIOUS
<1>2. i \in 1 .. n - 1 /\ i \in 1 .. Len(list) BY <1>1
<1>3. PICK m : m = <<c>> OBVIOUS
<1>4. m \in Seq(Chunks) /\ Len(m) = 1 /\ m[1] = c BY <1>3
<1>5. i + 2 \in i + 1 .. Len(list) + 1 BY <1>1, <1>2
<1>6. s = Splice(list, i, m, i + 2) BY <1>3
<1>7. /\ s \in Seq(Chunks) /\ Len(s) = i - 1 + Len(m) + (Len(list) - (i + 2) + 1)
      /\ \A k \in 1 .. i - 1 : s[k] = list[k]
      /\ \A k \in 1 .. Len(m) : s[i - 1 + k] = m[k]
      /\ \A k \in i + 2 .. Len(list) : s[i - 1 + Len(m) + (k - (i + 2) + 1)] = list[k]
  <2>1. PICK j \in i + 1 .. Len(list) + 1 : j = i + 2 BY <1>5
  <2>2. s = Splice(list, i, m, j) BY <1>6, <2>1
  <2>3. /\ s \in Seq(Chunks) /\ Len(s) = i - 1 + Len(m) + (Len(list) - j + 1)
        /\ \A k \in 1 .. i - 1 : s[k] = list[k]
        /\ \A k \in 1 .. Len(m) : s[i - 1 + k] = m[k]
        /\ \A k \in j .. Len(list) : s[i - 1 + Len(m) + (k - j + 1)] = list[k]
    <3>1. list \in Seq(Chunks) /\ m \in Seq(Chunks) /\ i \in 1 .. Len(list) BY <1>2, <1>4
    <3>2. /\ Splice(list, i, m, j) \in Seq(Chunks)
          /\ Len(Splice(list, i, m, j)) = i - 1 + Len(m) + (Len(list) - j + 1)
          /\ \A k \in 1 .. i - 1 : Splice(list, i, m, j)[k] = list[k]
          /\ \A k \in 1 .. Len(m) : Splice(list, i, m, j)[i - 1 + k] = m[k]
          /\ \A k \in j .. Len(list) : Splice(list, i, m, j)[i - 1 + Len(m) + (k - j + 1)] = list[k]
      BY <2>1, <3>1, Spliced, ZenonT(60)
    <3>. QED BY <2>2, <3>2, Zenon
  <2>. QED BY <2>1, <2>3
<1>8. s[i] = c
  <2>1. 1 \in 1 .. Len(m) BY <1>4
  <2>2. i - 1 + 1 = i BY <1>2
  <2>. QED BY <1>4, <1>7, <2>1, <2>2
<1>9. Len(s) = n - 1
  <2>1. i - 1 + 1 + (n - (i + 2) + 1) = n - 1 BY <1>2
  <2>. QED BY <1>1, <1>4, <1>7, <2>1
<1>10. \A k \in i + 1 .. n - 1 : s[k] = list[k + 1]
  <2>1. TAKE k \in i + 1 .. n - 1
  <2>2. PICK l \in i + 2 .. n : l = k + 1 BY <1>2
  <2>3. i - 1 + 1 + (l - (i + 2) + 1) = k BY <1>2, <2>2
  <2>4. s[i - 1 + 1 + (l - (i + 2) + 1)] = list[l] BY <1>1, <1>4, <1>7, <2>2
  <2>. QED BY <2>2, <2>3, <2>4
<1>11. s \in Seq(Chunks) /\ list \in Seq(Chunks) /\ i \in 1 .. Len(s) /\ Len(list) = Len(s) + 1
  <2>1. s \in Seq(Chunks) BY <1>7
  <2>2. i \in 1 .. n - 1 /\ n = n - 1 + 1 BY <1>2
  <2>. QED BY <2>1, <2>2, <1>1, <1>9, Zenon
<1>12. \A k \in i + 1 .. Len(s) : list[k + 1] = s[k] BY <1>9, <1>10
<1>13. \A k \in 1 .. i - 1 : list[k] = s[k] BY <1>7
<1>. QED BY <1>8, <1>11, <1>12, <1>13 DEF CutAt

\* Marking a chunk.
Marked(list, s, i, c) ==
  /\ i \in 1 .. Len(list) /\ c \in Chunks /\ c.at = list[i].at /\ c.len = list[i].len
  /\ s = [list EXCEPT ![i] = c]

LEMMA MarkGives ==
  ASSUME NEW list, Sound(list), NEW s, NEW i, NEW c, Marked(list, s, i, c)
  PROVE  /\ Sound(s) /\ Covered(s) = Covered(list) /\ Len(s) = Len(list)
         /\ \A k \in 1 .. Len(list) : s[k].at = list[k].at
         /\ Used(s) = IF c.used THEN Used(list) \cup {list[i].at + 8} ELSE Used(list) \ {list[i].at + 8}
         /\ ~list[i].used => list[i].at + 8 \notin Used(list)
<1>0. /\ i \in 1 .. Len(list) /\ c \in Chunks /\ c.at = list[i].at /\ c.len = list[i].len
      /\ s = [list EXCEPT ![i] = c]
  BY DEF Marked
<1>1. list \in Seq(Chunks) /\ \A k \in 1 .. Len(list) : list[k] \in Chunks BY <1>0, ElementOfSeq DEF Sound
<1>5. /\ s \in Seq(Chunks) /\ Len(s) = Len(list)
      /\ \A k \in 1 .. Len(list) : s[k] = IF k = i THEN c ELSE list[k]
  BY <1>0, <1>1, ExceptSeq
<1>6. ASSUME NEW k \in 1 .. Len(list)
      PROVE  /\ s[k] \in Chunks /\ s[k].at = list[k].at /\ End(s[k]) = End(list[k])
             /\ Extent(s[k]) = Extent(list[k])
  BY <1>0, <1>1, <1>5 DEF End, Extent
<1>7. Sound(s) BY <1>0, <1>5, <1>6 DEF Sound, Clear
<1>8. Covered(s) = Covered(list)
  <2>1. ASSUME NEW x PROVE x \in Covered(s) <=> x \in Covered(list)
    <3>1. x \in Covered(s) <=> \E k \in 1 .. Len(s) : x \in Extent(s[k]) BY <1>5, CoveredIs
    <3>2. x \in Covered(list) <=> \E k \in 1 .. Len(list) : x \in Extent(list[k]) BY <1>1, CoveredIs
    <3>. QED BY <3>1, <3>2, <1>5, <1>6
  <2>. QED BY <1>0, <2>1
<1>9. \A k \in 1 .. Len(list) : list[k].at \in Nat /\ (list[k].at + 8 = list[i].at + 8 => k = i)
  <2>1. TAKE k \in 1 .. Len(list)
  <2>2. list[k].at \in Nat /\ list[i].at \in Nat BY <1>0, <1>1, ChunkFields
  <2>. QED BY <1>0, <2>2, Distinct
<1>10. Used(s) = IF c.used THEN Used(list) \cup {list[i].at + 8} ELSE Used(list) \ {list[i].at + 8}
  <2>1. ASSUME NEW x
        PROVE  x \in Used(s) <=> IF c.used THEN x \in Used(list) \/ x = list[i].at + 8
                                 ELSE x \in Used(list) /\ x # list[i].at + 8
    <3>1. x \in Used(s) <=> \E k \in 1 .. Len(list) : s[k].used /\ x = list[k].at + 8
      <4>1. s \in Seq(Chunks) /\ Len(s) = Len(list) BY <1>0, <1>5
      <4>2. x \in Used(s) <=> \E k \in 1 .. Len(s) : s[k].used /\ x = s[k].at + 8 BY <1>0, <4>1, UsedIs
      <4>. QED BY <1>0, <4>1, <4>2, <1>6
    <3>2. x \in Used(list) <=> \E k \in 1 .. Len(list) : list[k].used /\ x = list[k].at + 8
      BY <1>0, <1>1, UsedIs
    <3>3. \A k \in 1 .. Len(list) : s[k].used = IF k = i THEN c.used ELSE list[k].used BY <1>0, <1>5
    <3>4. CASE c.used BY <1>0, <3>1, <3>2, <3>3, <3>4
    <3>5. CASE ~c.used BY <1>0, <3>1, <3>2, <3>3, <3>5, <1>9
    <3>. QED BY <1>0, <3>4, <3>5
  <2>. QED BY <1>0, <2>1
<1>11. ~list[i].used => list[i].at + 8 \notin Used(list) BY <1>0, <1>1, <1>9, UsedIs
<1>. QED BY <1>0, <1>5, <1>6, <1>7, <1>8, <1>10, <1>11

\* Joining chunks changes no byte that is covered and no block that is taken.
LEMMA JoinGives ==
  ASSUME NEW list, Sound(list), NEW i, NEW s, s = Joined(list, i)
  PROVE  Sound(s) /\ Covered(s) = Covered(list) /\ Used(s) = Used(list)
<1>1. CASE ~(i \in 1 .. Len(list) - 1 /\ ~list[i].used /\ ~list[i + 1].used /\ Touch(list[i], list[i + 1]))
  BY <1>1 DEF Joined
<1>2. CASE i \in 1 .. Len(list) - 1 /\ ~list[i].used /\ ~list[i + 1].used /\ Touch(list[i], list[i + 1])
  <2>1. list \in Seq(Chunks) /\ i \in 1 .. Len(list) /\ i + 1 \in 1 .. Len(list)
    <3>1. PICK n \in Nat : n = Len(list) BY DEF Sound
    <3>2. i \in 1 .. n - 1 BY <1>2, <3>1
    <3>3. i \in 1 .. n /\ i + 1 \in 1 .. n BY <3>2
    <3>. QED BY <3>1, <3>3 DEF Sound
  <2>2. list[i] \in Chunks /\ list[i + 1] \in Chunks BY <2>1, ElementOfSeq
  <2>3. PICK c : c = [list[i] EXCEPT !.len = @ + list[i + 1].len + HEAD] OBVIOUS
  <2>4. /\ list[i].at \in Nat /\ list[i].len \in Nat /\ list[i + 1].at \in Nat /\ list[i + 1].len \in Nat
        /\ End(list[i]) = list[i].at + 8 + list[i].len
        /\ End(list[i + 1]) = list[i + 1].at + 8 + list[i + 1].len
        /\ End(list[i]) = list[i + 1].at
    BY <1>2, <2>2, ChunkFields DEF Touch
  <2>5. c.at = list[i].at /\ c.len = list[i].len + list[i + 1].len + 8 /\ c.used = list[i].used /\ c \in Chunks
    BY <2>2, <2>3 DEF Chunks, HEAD
  <2>6. End(c) = End(list[i + 1])
    <3>1. End(c) = c.at + 8 + c.len BY <2>5, ChunkFields
    <3>. QED BY <3>1, <2>4, <2>5
  <2>7. s = Splice(list, i, <<c>>, i + 2) BY <1>2, <2>3 DEF Joined, Splice
  <2>8. CutAt(s, list, i) BY <1>2, <2>1, <2>4, <2>5, <2>6, <2>7, JoinCuts
  <2>9. Covered(s) = Covered(list) /\ Sound(s) BY <2>8, CutCovers, CutSoundBack
  <2>10. Used(list) = Used(s) \cup (IF list[i + 1].used THEN {list[i + 1].at + 8} ELSE {}) BY <2>8, CutUses
  <2>. QED BY <1>2, <2>9, <2>10
<1>. QED BY <1>1, <1>2

\* free: the block, if it is one, is not taken any more.
LEMMA FreeGives ==
  ASSUME NEW list, Sound(list), NEW block, NEW s, s = Free(list, block)
  PROVE  Sound(s) /\ Covered(s) = Covered(list) /\ Used(s) = Used(list) \ {block}
<1>1. PICK at : at = {k \in DOMAIN list : list[k].at + HEAD = block} OBVIOUS
<1>2. list \in Seq(Chunks) /\ DOMAIN list = 1 .. Len(list) BY DEF Sound
<1>3. \A k \in 1 .. Len(list) : list[k].at \in Nat
  <2>1. TAKE k \in 1 .. Len(list)
  <2>2. list[k] \in Chunks BY <1>2, ElementOfSeq
  <2>. QED BY <2>2, ChunkFields
<1>4. CASE at = {}
  <2>1. s = list BY <1>1, <1>4 DEF Free
  <2>2. block \notin Used(list)
    <3>1. SUFFICES ASSUME block \in Used(list) PROVE FALSE OBVIOUS
    <3>2. PICK k \in 1 .. Len(list) : block = list[k].at + 8 BY <3>1, <1>2, UsedIs
    <3>3. k \in at BY <3>2, <1>1, <1>2 DEF HEAD
    <3>. QED BY <3>3, <1>4
  <2>. QED BY <2>1, <2>2
<1>5. CASE at # {}
  <2>1. PICK k : k \in at BY <1>5
  <2>2. k \in 1 .. Len(list) /\ list[k].at + 8 = block BY <2>1, <1>1, <1>2 DEF HEAD
  <2>3. \A l \in at : l = k
    <3>1. TAKE l \in at
    <3>2. l \in 1 .. Len(list) /\ list[l].at + 8 = block BY <1>1, <1>2 DEF HEAD
    <3>3. list[l].at = list[k].at BY <3>2, <2>2, <1>3
    <3>. QED BY <3>2, <3>3, <2>2, Distinct
  <2>4. Min(at) = k
    <3>1. at = {k} BY <2>1, <2>3
    <3>2. k <= k BY <2>2
    <3>. QED BY <3>1, <3>2 DEF Min
  <2>5. PICK freed : freed = [list EXCEPT ![k].used = FALSE] OBVIOUS
  <2>6. PICK once : once = Joined(freed, k) OBVIOUS
  <2>7. s = Joined(once, k - 1)
    <3>1. s = Joined(Joined([list EXCEPT ![Min(at)].used = FALSE], Min(at)), Min(at) - 1)
      BY <1>1, <1>5 DEF Free
    <3>. QED BY <3>1, <2>4, <2>5, <2>6
  <2>8. Sound(freed) /\ Covered(freed) = Covered(list) /\ Used(freed) = Used(list) \ {block}
    <3>1. PICK c : c = [list[k] EXCEPT !.used = FALSE] OBVIOUS
    <3>2. list[k] \in Chunks BY <1>2, <2>2, ElementOfSeq
    <3>3. c \in Chunks /\ c.at = list[k].at /\ c.len = list[k].len /\ ~c.used BY <3>1, <3>2 DEF Chunks
    <3>4. freed = [list EXCEPT ![k] = c] BY <3>1, <2>5
    <3>5. /\ Sound(freed) /\ Covered(freed) = Covered(list)
          /\ Used(freed) = IF c.used THEN Used(list) \cup {list[k].at + 8} ELSE Used(list) \ {list[k].at + 8}
      <4>1. Marked(list, freed, k, c) BY <2>2, <3>3, <3>4 DEF Marked
      <4>. QED BY <4>1, MarkGives
    <3>. QED BY <3>3, <3>5, <2>2
  <2>9. Sound(once) /\ Covered(once) = Covered(freed) /\ Used(once) = Used(freed) BY <2>6, <2>8, JoinGives
  <2>10. Sound(s) /\ Covered(s) = Covered(once) /\ Used(s) = Used(once) BY <2>7, <2>9, JoinGives
  <2>. QED BY <2>8, <2>9, <2>10
<1>. QED BY <1>4, <1>5

\* One more free chunk, in a place no other covers, at position p of the list.
MoreAt(list, s, p, c) ==
  /\ c \in Chunks /\ ~c.used
  /\ \A k \in 1 .. Len(list) : Extent(list[k]) \cap Extent(c) = {}
  /\ s \in Seq(Chunks) /\ Len(s) = Len(list) + 1 /\ p \in 1 .. Len(s) /\ s[p] = c
  /\ \A k \in 1 .. p - 1 : s[k] = list[k]
  /\ \A k \in p .. Len(list) : s[k + 1] = list[k]

LEMMA MoreGives ==
  ASSUME NEW list, Sound(list), NEW c, NEW s, NEW p, MoreAt(list, s, p, c)
  PROVE  Sound(s) /\ Covered(s) = Covered(list) \cup Extent(c) /\ Used(s) = Used(list)
<1>0. /\ c \in Chunks /\ ~c.used
      /\ \A k \in 1 .. Len(list) : Extent(list[k]) \cap Extent(c) = {}
      /\ s \in Seq(Chunks) /\ Len(s) = Len(list) + 1 /\ p \in 1 .. Len(s) /\ s[p] = c
      /\ \A k \in 1 .. p - 1 : s[k] = list[k]
      /\ \A k \in p .. Len(list) : s[k + 1] = list[k]
  BY DEF MoreAt
<1>1. PICK n \in Nat : n = Len(list) BY <1>0 DEF Sound
<1>2. p \in 1 .. n + 1 /\ list \in Seq(Chunks) BY <1>0, <1>1 DEF Sound
<1>3. ASSUME NEW k \in 1 .. n
      PROVE  (IF k < p THEN k ELSE k + 1) \in 1 .. n + 1 /\ s[IF k < p THEN k ELSE k + 1] = list[k]
  <2>1. CASE k < p BY <1>0, <2>1, <1>1, <1>2
  <2>2. CASE k >= p BY <1>0, <2>2, <1>1, <1>2
  <2>. QED BY <1>0, <2>1, <2>2, <1>2
<1>4. ASSUME NEW k \in 1 .. n + 1, k # p
      PROVE  (IF k < p THEN k ELSE k - 1) \in 1 .. n /\ s[k] = list[IF k < p THEN k ELSE k - 1]
  <2>1. CASE k < p BY <1>0, <2>1, <1>1, <1>2
  <2>2. CASE k > p
    <3>1. PICK l \in p .. n : l = k - 1 /\ k = l + 1 BY <1>0, <2>2, <1>2
    <3>2. s[l + 1] = list[l] BY <1>0, <3>1, <1>1
    <3>. QED BY <1>0, <3>1, <3>2, <2>2, <1>2
  <2>. QED BY <1>0, <2>1, <2>2, <1>2, <1>4
<1>5. ASSUME NEW k \in 1 .. n PROVE Clear(list[k], c) /\ Clear(c, list[k])
  <2>1. list[k] \in Chunks BY <1>0, <1>1, <1>2, ElementOfSeq
  <2>2. Clear(list[k], c) BY <1>0, <2>1, <1>1, ClearApart
  <2>. QED BY <1>0, <2>2 DEF Clear
<1>6. ASSUME NEW k \in 1 .. n + 1, NEW l \in 1 .. n + 1, k # l PROVE Clear(s[k], s[l])
  <2>1. CASE k = p
    <3>1. PICK m \in 1 .. n : s[l] = list[m] BY <1>0, <2>1, <1>4, <1>6
    <3>. QED BY <1>0, <3>1, <2>1, <1>5
  <2>2. CASE l = p
    <3>1. PICK m \in 1 .. n : s[k] = list[m] BY <1>0, <2>2, <1>4, <1>6
    <3>. QED BY <1>0, <3>1, <2>2, <1>5
  <2>3. CASE k # p /\ l # p
    <3>1. PICK a : a = IF k < p THEN k ELSE k - 1 OBVIOUS
    <3>2. PICK b : b = IF l < p THEN l ELSE l - 1 OBVIOUS
    <3>3. a \in 1 .. n /\ s[k] = list[a] BY <1>0, <2>3, <3>1, <1>4
    <3>4. b \in 1 .. n /\ s[l] = list[b] BY <1>0, <2>3, <3>2, <1>4
    <3>5. a # b BY <1>0, <2>3, <3>1, <3>2, <1>2, <1>6
    <3>. QED BY <1>0, <3>3, <3>4, <3>5, <1>1 DEF Sound
  <2>. QED BY <1>0, <2>1, <2>2, <2>3
<1>7. Sound(s) BY <1>0, <1>1, <1>6 DEF Sound
<1>8. Covered(s) = Covered(list) \cup Extent(c)
  <2>1. ASSUME NEW x, x \in Covered(s) PROVE x \in Covered(list) \cup Extent(c)
    <3>1. PICK k \in 1 .. n + 1 : x \in Extent(s[k]) BY <1>0, <2>1, <1>1, CoveredIs
    <3>2. CASE k # p
      <4>1. PICK m \in 1 .. n : s[k] = list[m] BY <1>0, <3>2, <1>4
      <4>. QED BY <1>0, <4>1, <3>1, <1>1, <1>2, CoveredIs
    <3>. QED BY <1>0, <3>1, <3>2
  <2>2. ASSUME NEW x, x \in Covered(list) PROVE x \in Covered(s)
    <3>1. PICK k \in 1 .. n : x \in Extent(list[k]) BY <1>0, <2>2, <1>1, <1>2, CoveredIs
    <3>2. PICK m \in 1 .. Len(s) : s[m] = list[k] BY <1>0, <1>1, <1>3
    <3>. QED BY <1>0, <3>1, <3>2, CoveredIs
  <2>3. ASSUME NEW x, x \in Extent(c) PROVE x \in Covered(s) BY <1>0, <2>3, CoveredIs
  <2>. QED BY <1>0, <2>1, <2>2, <2>3
<1>9. Used(s) = Used(list)
  <2>1. ASSUME NEW x, x \in Used(s) PROVE x \in Used(list)
    <3>1. PICK k \in 1 .. n + 1 : s[k].used /\ x = s[k].at + 8 BY <1>0, <2>1, <1>1, UsedIs
    <3>2. PICK m \in 1 .. n : s[k] = list[m] BY <1>0, <3>1, <1>4
    <3>. QED BY <1>0, <3>1, <3>2, <1>1, <1>2, UsedIs
  <2>2. ASSUME NEW x, x \in Used(list) PROVE x \in Used(s)
    <3>1. PICK k \in 1 .. n : list[k].used /\ x = list[k].at + 8 BY <1>0, <2>2, <1>1, <1>2, UsedIs
    <3>2. PICK m \in 1 .. Len(s) : s[m] = list[k] BY <1>0, <1>1, <1>3
    <3>. QED BY <1>0, <3>1, <3>2, UsedIs
  <2>. QED BY <1>0, <2>1, <2>2
<1>. QED BY <1>0, <1>7, <1>8, <1>9

\* The chunk that stands for the len bytes from at.
LEMMA NewChunk ==
  ASSUME NEW at \in Nat, NEW len \in Nat, NEW list \in Seq(Chunks), ~Overlaps(list, at, len),
         NEW l \in Nat, len = l + 8,
         NEW c \in Chunks, ~c.used, c.at = at, c.len = l
  PROVE  /\ Extent(c) = at .. at + len - 1
         /\ \A k \in 1 .. Len(list) : Extent(list[k]) \cap Extent(c) = {}
<1>1. End(c) = at + len
  <2>1. End(c) = c.at + 8 + c.len BY ChunkFields
  <2>. QED BY <2>1
<1>2. Extent(c) = at .. at + len - 1 BY <1>1 DEF Extent
<1>. QED BY <1>2 DEF Overlaps

\* __mem_add_chunk.
LEMMA AddGives ==
  ASSUME NEW list, Sound(list), NEW at \in Nat, NEW len \in Nat, len = 0 \/ len >= 12,
         ~Overlaps(list, at, len), NEW s, s = AddChunk(list, at, len)
  PROVE  Sound(s) /\ Covered(s) = Covered(list) \cup at .. at + len - 1 /\ Used(s) = Used(list)
<1>1. CASE len = 0
  <2>1. at .. at + len - 1 = {} BY <1>1
  <2>2. s = list BY <1>1 DEF AddChunk, HEAD
  <2>. QED BY <2>1, <2>2
<1>2. CASE len >= 12
  <2>0. PICK l \in Nat : l = len - 8 /\ len = l + 8 BY <1>2
  <2>1a. PICK c : c = Chunk(at, l, FALSE) OBVIOUS
  <2>1. c \in Chunks /\ c.at = at /\ c.len = l /\ ~c.used BY <2>1a DEF Chunk, Chunks
  <2>2. PICK n \in Nat : n = Len(list) BY DEF Sound
  <2>3. list \in Seq(Chunks) BY DEF Sound
  <2>4. /\ c \in Chunks /\ ~c.used /\ Extent(c) = at .. at + len - 1
        /\ \A k \in 1 .. Len(list) : Extent(list[k]) \cap Extent(c) = {}
    BY <2>0, <2>1, <2>3, NewChunk
  <2>5. s = <<c>> \o list BY <1>2, <2>0, <2>1a DEF AddChunk, HEAD
  <2>6. /\ s \in Seq(Chunks) /\ Len(s) = n + 1
        /\ \A k \in 1 .. n + 1 : s[k] = IF k <= 1 THEN c ELSE list[k - 1]
    <3>1. <<c>> \in Seq(Chunks) /\ Len(<<c>>) = 1 /\ <<c>>[1] = c BY <2>4
    <3>2. PICK m : m = <<c>> OBVIOUS
    <3>3. /\ m \o list \in Seq(Chunks) /\ Len(m \o list) = Len(m) + Len(list)
          /\ \A k \in 1 .. Len(m) + Len(list) :
               (m \o list)[k] = IF k <= Len(m) THEN m[k] ELSE list[k - Len(m)]
      BY <3>1, <3>2, <2>3, ConcatProperties
    <3>4. \A k \in 1 .. n + 1 : k <= 1 => k = 1 OBVIOUS
    <3>. QED BY <3>1, <3>2, <3>3, <3>4, <2>2, <2>5
  <2>7. s[1] = c BY <2>2, <2>6
  <2>8. \A k \in 1 .. Len(list) : s[k + 1] = list[k] BY <2>2, <2>6
  <2>9. Sound(s) /\ Covered(s) = Covered(list) \cup Extent(c) /\ Used(s) = Used(list)
    <3>1. PICK p \in 1 .. Len(s) : p = 1 BY <2>2, <2>6
    <3>2. s[p] = c /\ (\A k \in 1 .. p - 1 : s[k] = list[k]) /\ (\A k \in p .. Len(list) : s[k + 1] = list[k])
      BY <3>1, <2>7, <2>8
    <3>3. Len(s) = Len(list) + 1 BY <2>2, <2>6
    <3>4. s \in Seq(Chunks) BY <2>6
    <3>5. MoreAt(list, s, p, c) BY <3>2, <3>3, <3>4, <2>1, <2>4 DEF MoreAt
    <3>. QED BY <3>5, MoreGives
  <2>. QED BY <2>4, <2>9
<1>. QED BY <1>1, <1>2

\* A chunk of new memory behind the others.
NewAt(list, s, at, l, c) ==
  /\ c \in Chunks /\ ~c.used /\ c.at = at /\ c.len = l
  /\ ~Overlaps(list, at, l + 8) /\ s = Append(list, c)

LEMMA LongerGives ==
  ASSUME NEW list, Sound(list), NEW at \in Nat, NEW l \in Nat, NEW c, NEW s, NewAt(list, s, at, l, c)
  PROVE  /\ Sound(s) /\ Covered(s) = Covered(list) \cup at .. at + (l + 8) - 1 /\ Used(s) = Used(list)
         /\ Len(s) \in 1 .. Len(s) /\ s[Len(s)] = c
<1>0. /\ c \in Chunks /\ ~c.used /\ c.at = at /\ c.len = l
      /\ ~Overlaps(list, at, l + 8) /\ s = Append(list, c)
  BY DEF NewAt
<1>1. list \in Seq(Chunks) BY DEF Sound
<1>2. /\ Extent(c) = at .. at + (l + 8) - 1
      /\ \A k \in 1 .. Len(list) : Extent(list[k]) \cap Extent(c) = {}
  <2>1. PICK len \in Nat : len = l + 8 OBVIOUS
  <2>2. ~Overlaps(list, at, len) BY <1>0, <2>1
  <2>. QED BY <1>0, <1>1, <2>1, <2>2, NewChunk
<1>3. /\ s \in Seq(Chunks) /\ Len(s) = Len(list) + 1
      /\ \A k \in 1 .. Len(list) : s[k] = list[k]
      /\ s[Len(list) + 1] = c
  <2>1. /\ Append(list, c) \in Seq(Chunks) /\ Len(Append(list, c)) = Len(list) + 1
        /\ \A k \in 1 .. Len(list) : Append(list, c)[k] = list[k]
        /\ Append(list, c)[Len(list) + 1] = c
    BY <1>0, <1>1, AppendProperties
  <2>. QED BY <1>0, <2>1
<1>4. PICK n \in Nat : n = Len(list) BY <1>1
<1>5. Len(s) \in 1 .. Len(s) /\ s[Len(s)] = c BY <1>3, <1>4
<1>6. Sound(s) /\ Covered(s) = Covered(list) \cup Extent(c) /\ Used(s) = Used(list)
  <2>1. PICK p \in 1 .. Len(s) : p = n + 1 BY <1>3, <1>4
  <2>2. s[p] = c /\ (\A k \in 1 .. p - 1 : s[k] = list[k]) /\ (\A k \in p .. Len(list) : s[k + 1] = list[k])
    BY <2>1, <1>3, <1>4
  <2>3. s \in Seq(Chunks) /\ Len(s) = Len(list) + 1 BY <1>3
  <2>4. MoreAt(list, s, p, c) BY <2>2, <2>3, <1>0, <1>2 DEF MoreAt
  <2>. QED BY <2>4, MoreGives
<1>. QED BY <1>2, <1>5, <1>6

-----------------------------------------------------------------------------
(* malloc.                                                                 *)

LEMMA Smallest ==
  ASSUME NEW T \in SUBSET Nat, T # {}
  PROVE  Min(T) \in T /\ \A y \in T : Min(T) <= y
<1> DEFINE R == OpToRel(<, Nat)
<1>1. IsWellFoundedOn(R, Nat) BY NatLessThanWellFounded
<1>2. \A x, y \in Nat : x < y => <<x, y>> \in R BY DEF OpToRel
<1> HIDE DEF R
<1>3. \E x \in T : \A y \in T : ~(<<y, x>> \in R) BY <1>1, WFMin
<1>4. \A x, y \in T : ~(<<y, x>> \in R) => x <= y BY <1>2
<1>5. \E x \in T : \A y \in T : x <= y BY <1>3, <1>4
<1>. QED BY <1>5 DEF Min

LEMMA Greatest ==
  ASSUME NEW n \in Nat, NEW T \in SUBSET (0 .. n), T # {}
  PROVE  Max(T) \in T /\ \A y \in T : y <= Max(T)
<1>1. PICK D : D = {d \in Nat : \E y \in T : d = n - y} OBVIOUS
<1>2. D \in SUBSET Nat /\ D # {}
  <2>1. PICK y \in T : y \in 0 .. n OBVIOUS
  <2>2. n - y \in Nat BY <2>1
  <2>3. n - y \in D BY <1>1, <2>2
  <2>. QED BY <1>1, <2>3
<1>3. PICK d \in D : \A e \in D : d <= e BY <1>2, Smallest
<1>4. PICK x \in T : d = n - x BY <1>1, <1>3
<1>5. \A y \in T : y <= x
  <2>1. TAKE y \in T
  <2>2. n - y \in D BY <1>1
  <2>3. d <= n - y BY <2>2, <1>3
  <2>. QED BY <2>3, <1>4
<1>. QED BY <1>5 DEF Max

\* _find_chunk gives a free chunk that is long enough.
LEMMA FindGives ==
  ASSUME NEW list \in Seq(Chunks), NEW size \in Nat, NEW i, i = FindChunk(list, size), i # 0
  PROVE  i \in 1 .. Len(list) /\ ~list[i].used /\ list[i].len >= size
<1>1. PICK fit : fit = Fitting(list, size) OBVIOUS
<1>2. PICK best : best = Min({list[k].len : k \in fit}) OBVIOUS
<1>3. PICK T : T = {k \in fit : list[k].len = best} OBVIOUS
<1>4. i = IF fit = {} THEN 0 ELSE Min(T) BY <1>1, <1>2, <1>3 DEF FindChunk
<1>5. fit # {} /\ i = Min(T) BY <1>4
<1>6. \A k \in fit : k \in 1 .. Len(list) /\ ~list[k].used /\ list[k].len >= size BY <1>1 DEF Fitting
<1>7. PICK lens \in SUBSET Nat : lens = {list[k].len : k \in fit}
  <2>1. \A k \in fit : list[k].len \in Nat
    <3>1. TAKE k \in fit
    <3>2. list[k] \in Chunks BY <1>6, ElementOfSeq
    <3>. QED BY <3>2, ChunkFields
  <2>. QED BY <2>1
<1>8. best \in lens
  <2>1. lens # {} BY <1>5, <1>7
  <2>. QED BY <2>1, <1>2, <1>7, Smallest
<1>9. T # {} /\ T \in SUBSET Nat BY <1>3, <1>6, <1>7, <1>8
<1>10. i \in T BY <1>5, <1>9, Smallest
<1>. QED BY <1>3, <1>6, <1>10

\* What a malloc that spoils nothing has done to the list.
Grows(list, r, top) ==
  /\ Sound(r.list) /\ r.grown \in Nat /\ r.block \in Nat
  /\ Covered(r.list) = Covered(list) \cup top .. top + r.grown - 1
  /\ r.block = 0 => Used(r.list) = Used(list)
  /\ r.block # 0 => r.block \notin Used(list) /\ Used(r.list) = Used(list) \cup {r.block}

LEMMA ResultIs ==
  ASSUME NEW list, NEW block, NEW grown, NEW why, NEW r, r = Result(list, block, grown, why)
  PROVE  r.list = list /\ r.block = block /\ r.grown = grown /\ r.why = why
BY DEF Result

\* The chunk that is taken fits exactly, or its end is cut off.
LEMMA TakenGives ==
  ASSUME NEW list, Sound(list), NEW i \in 1 .. Len(list), ~list[i].used,
         NEW size \in Nat, list[i].len >= size, NEW grown, NEW r, r = Taken(list, i, size, grown),
         r.why = "no"
  PROVE  /\ Sound(r.list) /\ Covered(r.list) = Covered(list) /\ r.grown = grown
         /\ r.block \in Nat \ {0} /\ r.block \notin Used(list)
         /\ Used(r.list) = Used(list) \cup {r.block}
<1>1. PICK s : s = Split(list, i, size) OBVIOUS
<1>2. PICK d : d = (IF list[i].len = size THEN list[i] ELSE s[i + 1]) OBVIOUS
<1>3. PICK why : why = (IF Tears(list, i, size) THEN "split" ELSE "no") OBVIOUS
<1>4. r = Result(s, d.at + HEAD, grown, why) BY <1>1, <1>2, <1>3 DEF Taken
<1>5. r.list = s /\ r.block = d.at + 8 /\ r.grown = grown /\ ~Tears(list, i, size)
  <2>1. r.list = s /\ r.block = d.at + HEAD /\ r.grown = grown /\ r.why = why BY <1>4, ResultIs
  <2>. QED BY <2>1, <1>3 DEF HEAD
<1>6. list \in Seq(Chunks) /\ list[i] \in Chunks BY ElementOfSeq DEF Sound
<1>7. list[i].at \in Nat /\ list[i].len \in Nat /\ End(list[i]) = list[i].at + 8 + list[i].len
  BY <1>6, ChunkFields
<1>8. CASE list[i].len = size
  <2>1. PICK c : c = [list[i] EXCEPT !.used = TRUE] OBVIOUS
  <2>2. c \in Chunks /\ c.at = list[i].at /\ c.len = list[i].len /\ c.used BY <2>1, <1>6 DEF Chunks
  <2>3. s = [list EXCEPT ![i] = c] BY <1>1, <1>8, <2>1 DEF Split
  <2>4. Marked(list, s, i, c) BY <2>2, <2>3 DEF Marked
  <2>5. /\ Sound(s) /\ Covered(s) = Covered(list)
        /\ Used(s) = IF c.used THEN Used(list) \cup {list[i].at + 8} ELSE Used(list) \ {list[i].at + 8}
        /\ ~list[i].used => list[i].at + 8 \notin Used(list)
    BY <2>4, MarkGives
  <2>6. d = list[i] BY <1>2, <1>8
  <2>7. list[i].at + 8 \in Nat \ {0} BY <1>7
  <2>. QED BY <1>5, <2>2, <2>5, <2>6, <2>7
<1>9. CASE list[i].len # size
  <2>1. PICK rest \in Nat : rest = list[i].len - size - 8
    <3>1. list[i].len >= size + 8 BY <1>5, <1>7, <1>9 DEF Tears, HEAD
    <3>2. list[i].len - size - 8 \in Nat BY <3>1, <1>7
    <3>. QED BY <3>2
  <2>2. PICK a : a = [list[i] EXCEPT !.len = rest] OBVIOUS
  <2>3. PICK b : b = Chunk(list[i].at + 8 + rest, size, TRUE) OBVIOUS
  <2>4. a \in Chunks /\ a.at = list[i].at /\ a.len = rest /\ ~a.used BY <2>2, <1>6 DEF Chunks
  <2>5. b \in Chunks /\ b.at = list[i].at + 8 + rest /\ b.len = size /\ b.used
    <3>1. list[i].at + 8 + rest \in Nat BY <1>7
    <3>. QED BY <2>3, <3>1 DEF Chunk, Chunks
  <2>6. End(a) = b.at /\ End(b) = End(list[i])
    <3>1. End(a) = a.at + 8 + a.len BY <2>4, ChunkFields
    <3>2. End(b) = b.at + 8 + b.len BY <2>5, ChunkFields
    <3>3. PICK x \in Nat, l \in Nat, e \in Nat, q \in Nat :
            x = list[i].at /\ l = list[i].len /\ e = End(list[i]) /\ q = b.at
      BY <1>6, <2>5, ChunkFields
    <3>4. e = x + 8 + l /\ rest = l - size - 8 /\ q = x + 8 + rest BY <3>3, <2>1, <2>5, <1>7
    <3>5. End(a) = x + 8 + rest /\ End(b) = q + 8 + size BY <3>1, <3>2, <3>3, <2>4, <2>5
    <3>6. End(a) = q BY <3>4, <3>5
    <3>7. End(b) = e BY <3>4, <3>5
    <3>. QED BY <3>3, <3>6, <3>7
  <2>7. s = Splice(list, i, <<a, b>>, i + 1) BY <1>1, <1>9, <2>1, <2>2, <2>3 DEF Split, Splice, HEAD
  <2>8. CutAt(list, s, i) /\ s[i] = a /\ s[i + 1] = b BY <2>4, <2>5, <2>6, <2>7, SplitGives
  <2>9. Sound(s) /\ Covered(s) = Covered(list) BY <2>8, CutSound, CutCovers
  <2>10. Used(s) = Used(list) \cup (IF s[i + 1].used THEN {s[i + 1].at + 8} ELSE {}) BY <2>8, CutUses
  <2>11. d.at + 8 = b.at + 8 /\ b.at + 8 \in Nat \ {0}
    <3>1. d = b BY <1>2, <1>9, <2>8
    <3>2. b.at \in Nat BY <2>5, ChunkFields
    <3>. QED BY <3>1, <3>2
  <2>12. b.at + 8 \notin Used(list)
    <3>1. SUFFICES ASSUME b.at + 8 \in Used(list) PROVE FALSE OBVIOUS
    <3>2. PICK k \in 1 .. Len(list) : list[k].used /\ b.at + 8 = list[k].at + 8 BY <3>1, <1>6, UsedIs
    <3>3. k # i BY <3>2
    <3>4. Clear(list[k], list[i]) BY <3>3 DEF Sound
    <3>5. list[k] \in Chunks BY <1>6, ElementOfSeq
    <3>6. PICK x \in Nat, l \in Nat, e \in Nat, y \in Nat, m \in Nat, f \in Nat, q \in Nat :
            /\ x = list[i].at /\ l = list[i].len /\ e = End(list[i])
            /\ y = list[k].at /\ m = list[k].len /\ f = End(list[k]) /\ q = b.at
      BY <1>6, <2>5, <3>5, ChunkFields
    <3>7. e = x + 8 + l /\ f = y + 8 + m BY <3>5, <3>6, <1>6, ChunkFields
    <3>8. q + 8 = y + 8 /\ q = x + 8 + rest /\ rest = l - size - 8 BY <3>2, <3>6, <2>1, <2>5
    <3>9. f <= x \/ e <= y BY <3>4, <3>6 DEF Clear
    <3>. QED BY <3>7, <3>8, <3>9
  <2>. QED BY <1>5, <2>5, <2>8, <2>9, <2>10, <2>11, <2>12
<1>. QED BY <1>8, <1>9

LEMMA Lengths ==
  ASSUME NEW asked \in Nat
  PROVE  ALIGN32(asked) \in Nat /\ Grown(ALIGN32(asked)) \in Nat
         /\ Grown(ALIGN32(asked)) >= ALIGN32(asked) + 8
<1>1. ALIGN32(asked) \in Nat BY DEF ALIGN32
<1>2. BRK_INCREMENT_MIN \in Nat BY HeapAssumption
<1>. QED BY <1>1, <1>2 DEF Grown, HEAD

\* malloc spoils the heap or covers just what it has been given besides.
LEMMA MallocGives ==
  ASSUME NEW list, Sound(list), NEW top \in Nat, NEW asked \in Nat, NEW more,
         NEW r, r = Malloc(list, top, asked, more), r.why = "no"
  PROVE  Grows(list, r, top)
<1>1. PICK size \in Nat : size = ALIGN32(asked) BY Lengths
<1>2. PICK i : i = FindChunk(list, size) OBVIOUS
<1>3. PICK n \in Nat : n = Grown(size) /\ n >= size + 8 BY <1>1, Lengths
<1>4. list \in Seq(Chunks) BY DEF Sound
<1>5. \/ r = Result(list, 0, 0, "no")
      \/ i > 0 /\ r = Taken(list, i, size, 0)
      \/ /\ i = 0
         /\ r = IF Overlaps(list, top, n)
                THEN Result(Append(list, Chunk(top, n - HEAD, FALSE)), top + HEAD, n, "break")
                ELSE Taken(Append(list, Chunk(top, n - HEAD, FALSE)),
                           Len(Append(list, Chunk(top, n - HEAD, FALSE))), size, n)
  <2>1. i = 0 \/ i > 0 BY <1>2, <1>4, FindGives
  <2>2. PICK longer : longer = Append(list, Chunk(top, n - HEAD, FALSE)) OBVIOUS
  <2>3. r = CASE asked = 0 -> Result(list, 0, 0, "no")
              [] asked > 0 /\ i > 0 -> Taken(list, i, size, 0)
              [] asked > 0 /\ i = 0 /\ more /\ top + n <= TOP ->
                   IF Overlaps(list, top, n) THEN Result(longer, top + HEAD, n, "break")
                   ELSE Taken(longer, Len(longer), size, n)
              [] OTHER -> Result(list, 0, 0, "no")
    BY <1>1, <1>2, <1>3, <2>2, Zenon DEF Malloc
  <2>4. CASE asked = 0 BY <2>3, <2>4
  <2>5. CASE asked > 0 /\ i > 0
    <3>1. asked # 0 /\ i # 0 BY <2>5
    <3>. QED BY <2>3, <2>5, <3>1, Zenon
  <2>6. CASE asked > 0 /\ i = 0 /\ more /\ top + n <= TOP BY <2>2, <2>3, <2>6
  <2>7. CASE asked > 0 /\ i = 0 /\ ~(more /\ top + n <= TOP) BY <2>3, <2>7
  <2>8. asked = 0 \/ asked > 0 OBVIOUS
  <2>. QED BY <2>1, <2>4, <2>5, <2>6, <2>7, <2>8, Zenon
<1>6. CASE r = Result(list, 0, 0, "no")
  <2>1. r.list = list /\ r.block = 0 /\ r.grown = 0 BY <1>6, ResultIs
  <2>2. top .. top + 0 - 1 = {} OBVIOUS
  <2>. QED BY <2>1, <2>2 DEF Grows
<1>7. CASE i > 0 /\ r = Taken(list, i, size, 0)
  <2>1. i # 0 BY <1>7
  <2>2. i \in 1 .. Len(list) /\ ~list[i].used /\ list[i].len >= size BY <2>1, <1>2, <1>4, FindGives
  <2>3. /\ Sound(r.list) /\ Covered(r.list) = Covered(list) /\ r.grown = 0
        /\ r.block \in Nat \ {0} /\ r.block \notin Used(list)
        /\ Used(r.list) = Used(list) \cup {r.block}
    BY <2>2, <1>7, TakenGives
  <2>4. top .. top + 0 - 1 = {} OBVIOUS
  <2>. QED BY <2>3, <2>4 DEF Grows
<1>8. CASE /\ i = 0
           /\ r = IF Overlaps(list, top, n)
                  THEN Result(Append(list, Chunk(top, n - HEAD, FALSE)), top + HEAD, n, "break")
                  ELSE Taken(Append(list, Chunk(top, n - HEAD, FALSE)),
                             Len(Append(list, Chunk(top, n - HEAD, FALSE))), size, n)
  <2>1. PICK l \in Nat : l = n - 8 /\ n = l + 8 BY <1>3
  <2>2. PICK c : c = Chunk(top, l, FALSE) OBVIOUS
  <2>3. c \in Chunks /\ c.at = top /\ c.len = l /\ ~c.used BY <2>2 DEF Chunk, Chunks
  <2>4. PICK s : s = Append(list, c) OBVIOUS
  <2>5. r = IF Overlaps(list, top, n) THEN Result(s, top + HEAD, n, "break") ELSE Taken(s, Len(s), size, n)
    BY <1>8, <2>1, <2>2, <2>4 DEF HEAD
  <2>6. ~Overlaps(list, top, n)
    <3>1. SUFFICES ASSUME Overlaps(list, top, n) PROVE FALSE OBVIOUS
    <3>2. PICK why : why = "break" OBVIOUS
    <3>3. r = Result(s, top + HEAD, n, why) BY <2>5, <3>1, <3>2
    <3>4. r.why = why BY <3>3, ResultIs
    <3>. QED BY <3>2, <3>4
  <2>7. /\ Sound(s) /\ Covered(s) = Covered(list) \cup top .. top + n - 1 /\ Used(s) = Used(list)
        /\ Len(s) \in 1 .. Len(s) /\ s[Len(s)] = c
    <3>1. NewAt(list, s, top, l, c) BY <2>1, <2>3, <2>4, <2>6 DEF NewAt
    <3>2. /\ Sound(s) /\ Covered(s) = Covered(list) \cup top .. top + (l + 8) - 1 /\ Used(s) = Used(list)
          /\ Len(s) \in 1 .. Len(s) /\ s[Len(s)] = c
      BY <3>1, LongerGives
    <3>. QED BY <3>2, <2>1
  <2>8. PICK k : k = Len(s) OBVIOUS
  <2>9. r = Taken(s, k, size, n) BY <2>5, <2>6, <2>8
  <2>10. k \in 1 .. Len(s) /\ ~s[k].used /\ s[k].len >= size BY <2>1, <2>3, <2>7, <2>8, <1>3
  <2>11. /\ Sound(r.list) /\ Covered(r.list) = Covered(s) /\ r.grown = n
         /\ r.block \in Nat \ {0} /\ r.block \notin Used(s)
         /\ Used(r.list) = Used(s) \cup {r.block}
    BY <2>7, <2>9, <2>10, TakenGives
  <2>. QED BY <2>7, <2>11 DEF Grows
<1>. QED BY <1>5, <1>6, <1>7, <1>8

-----------------------------------------------------------------------------
(* Lists of strings and the blocks they are in.                            *)

Strings   == [block : Nat \ {0}, name : Names, val : Values]
Blocks(L) == {L[i].block : i \in DOMAIN L}
Lone(L)   == L \in Seq(Strings) /\ \A i, j \in 1 .. Len(L) : i # j => L[i].block # L[j].block

LEMMA BlocksAre ==
  ASSUME NEW L \in Seq(Strings), NEW x
  PROVE  x \in Blocks(L) <=> \E i \in 1 .. Len(L) : x = L[i].block
BY DEF Blocks

LEMMA BlockFields ==
  ASSUME NEW L \in Seq(Strings), NEW i \in 1 .. Len(L)
  PROVE  L[i] \in Strings /\ L[i].block \in Nat /\ L[i].block # 0 /\ L[i].block \in Blocks(L)
<1>1. L[i] \in Strings BY ElementOfSeq
<1>2. L[i].block \in Blocks(L) BY BlocksAre
<1>. QED BY <1>1, <1>2 DEF Strings

LEMMA BlocksNotZero ==
  ASSUME NEW L, Lone(L)
  PROVE  0 \notin Blocks(L)
<1>1. L \in Seq(Strings) BY DEF Lone
<1>. QED BY <1>1, BlocksAre, BlockFields

LEMMA StringIs ==
  ASSUME NEW block \in Nat, block # 0, NEW name \in Names, NEW val \in Values,
         NEW s, s = String(block, name, val)
  PROVE  s \in Strings /\ s.block = block
BY DEF String, Strings

\* One more string.
LEMMA AppendLone ==
  ASSUME NEW L, Lone(L), NEW s \in Strings, s.block \notin Blocks(L)
  PROVE  Lone(Append(L, s)) /\ Blocks(Append(L, s)) = Blocks(L) \cup {s.block}
<1>1. L \in Seq(Strings) BY DEF Lone
<1>2. PICK n \in Nat : n = Len(L) BY <1>1
<1>3. PICK M : M = Append(L, s) OBVIOUS
<1>4. M \in Seq(Strings) /\ Len(M) = n + 1 /\ (\A k \in 1 .. n : M[k] = L[k]) /\ M[n + 1] = s
  <2>1. /\ Append(L, s) \in Seq(Strings) /\ Len(Append(L, s)) = Len(L) + 1
        /\ \A k \in 1 .. Len(L) : Append(L, s)[k] = L[k]
        /\ Append(L, s)[Len(L) + 1] = s
    BY <1>1, AppendProperties
  <2>. QED BY <2>1, <1>2, <1>3
<1>5. ASSUME NEW k \in 1 .. n + 1 PROVE (k \in 1 .. n /\ M[k] = L[k]) \/ (k = n + 1 /\ M[k] = s)
  BY <1>4
<1>6. \A k \in 1 .. n : L[k].block \in Blocks(L) BY <1>1, <1>2, BlockFields
<1>7. ASSUME NEW i \in 1 .. n + 1, NEW j \in 1 .. n + 1, i # j PROVE M[i].block # M[j].block
  <2>1. CASE i \in 1 .. n /\ j \in 1 .. n BY <2>1, <1>2, <1>4, <1>7 DEF Lone
  <2>2. CASE i \in 1 .. n /\ j = n + 1 BY <2>2, <1>4, <1>6
  <2>3. CASE i = n + 1 /\ j \in 1 .. n BY <2>3, <1>4, <1>6
  <2>. QED BY <2>1, <2>2, <2>3, <1>7
<1>8. Lone(M) BY <1>4, <1>7 DEF Lone
<1>9. ASSUME NEW x PROVE x \in Blocks(M) <=> x \in Blocks(L) \/ x = s.block
  <2>1. x \in Blocks(M) <=> \E i \in 1 .. n + 1 : x = M[i].block
    <3>1. x \in Blocks(M) <=> \E i \in 1 .. Len(M) : x = M[i].block BY <1>4, BlocksAre
    <3>. QED BY <3>1, <1>4
  <2>2. x \in Blocks(L) <=> \E i \in 1 .. n : x = L[i].block BY <1>1, <1>2, BlocksAre
  <2>3. (\E i \in 1 .. n + 1 : x = M[i].block) => (\E i \in 1 .. n : x = L[i].block) \/ x = s.block
    BY <1>5
  <2>4. (\E i \in 1 .. n : x = L[i].block) \/ x = s.block => \E i \in 1 .. n + 1 : x = M[i].block
    BY <1>4
  <2>. QED BY <2>1, <2>2, <2>3, <2>4
<1>. QED BY <1>3, <1>8, <1>9

\* Another string in the place of one.
Replaced(L, M, i, s) == i \in 1 .. Len(L) /\ s \in Strings /\ M = [L EXCEPT ![i] = s]

LEMMA ReplaceLone ==
  ASSUME NEW L, Lone(L), NEW M, NEW i, NEW s, Replaced(L, M, i, s), s.block \notin Blocks(L)
  PROVE  Lone(M) /\ Blocks(M) = (Blocks(L) \ {L[i].block}) \cup {s.block}
<1>1. L \in Seq(Strings) /\ i \in 1 .. Len(L) /\ s \in Strings /\ M = [L EXCEPT ![i] = s]
  BY DEF Lone, Replaced
<1>2. /\ M \in Seq(Strings) /\ Len(M) = Len(L)
      /\ \A k \in 1 .. Len(L) : M[k] = IF k = i THEN s ELSE L[k]
  BY <1>1, ExceptSeq
<1>3. \A k \in 1 .. Len(L) : L[k].block \in Blocks(L) BY <1>1, BlockFields
<1>4. \A k \in 1 .. Len(L) : k # i => L[k].block # L[i].block BY <1>1 DEF Lone
<1>5. Lone(M)
  <2>1. ASSUME NEW k \in 1 .. Len(L), NEW l \in 1 .. Len(L), k # l PROVE M[k].block # M[l].block
    <3>1. CASE k = i BY <3>1, <2>1, <1>2, <1>3
    <3>2. CASE l = i BY <3>2, <2>1, <1>2, <1>3
    <3>3. CASE k # i /\ l # i BY <3>3, <2>1, <1>2 DEF Lone
    <3>. QED BY <3>1, <3>2, <3>3
  <2>. QED BY <2>1, <1>2 DEF Lone
<1>6. ASSUME NEW x
      PROVE  x \in Blocks(M) <=> (x \in Blocks(L) /\ x # L[i].block) \/ x = s.block
  <2>1. x \in Blocks(M) <=> \E k \in 1 .. Len(L) : x = M[k].block
    <3>1. x \in Blocks(M) <=> \E k \in 1 .. Len(M) : x = M[k].block BY <1>2, BlocksAre
    <3>. QED BY <3>1, <1>2
  <2>2. x \in Blocks(L) <=> \E k \in 1 .. Len(L) : x = L[k].block BY <1>1, BlocksAre
  <2>. QED BY <2>1, <2>2, <1>1, <1>2, <1>4
<1>. QED BY <1>5, <1>6

\* One string less.
LEMMA RemoveLone ==
  ASSUME NEW L, Lone(L), NEW i \in 1 .. Len(L), NEW M, M = RemoveAt(L, i)
  PROVE  Lone(M) /\ Blocks(M) = Blocks(L) \ {L[i].block}
<1>1. L \in Seq(Strings) BY DEF Lone
<1>2. PICK n \in Nat : n = Len(L) BY <1>1
<1>3. \A k \in 1 .. n : L[k] \in Strings BY <1>1, <1>2, ElementOfSeq
<1>4. PICK a : a = SubSeq(L, 1, i - 1) OBVIOUS
<1>5. PICK b : b = SubSeq(L, i + 1, n) OBVIOUS
<1>6. a \in Seq(Strings) /\ Len(a) = i - 1 /\ \A k \in 1 .. i - 1 : a[k] = L[k]
  <2>1. \A k \in 1 .. i - 1 : L[k] \in Strings BY <1>2, <1>3
  <2>2. 1 \in Int /\ i - 1 \in Int /\ (i - 1) - 1 + 1 = i - 1 OBVIOUS
  <2>3. a \in Seq(Strings) /\ Len(a) = (IF 1 <= i - 1 THEN (i - 1) - 1 + 1 ELSE 0)
        /\ \A k \in 1 .. (i - 1) - 1 + 1 : a[k] = L[1 + k - 1]
    BY <1>4, <2>1, <2>2, SubSeqProperties
  <2>4. \A k \in 1 .. i - 1 : 1 + k - 1 = k OBVIOUS
  <2>. QED BY <2>2, <2>3, <2>4
<1>7. b \in Seq(Strings) /\ Len(b) = n - i /\ \A k \in 1 .. n - i : b[k] = L[i + k]
  <2>1. \A k \in i + 1 .. n : L[k] \in Strings BY <1>3
  <2>2. i + 1 \in Int /\ n \in Int /\ n - (i + 1) + 1 = n - i BY <1>2
  <2>3. b \in Seq(Strings) /\ Len(b) = (IF i + 1 <= n THEN n - (i + 1) + 1 ELSE 0)
        /\ \A k \in 1 .. n - (i + 1) + 1 : b[k] = L[(i + 1) + k - 1]
    BY <1>5, <2>1, <2>2, SubSeqProperties
  <2>4. \A k \in 1 .. n - i : (i + 1) + k - 1 = i + k OBVIOUS
  <2>5. Len(b) = n - i BY <2>3, <1>2
  <2>. QED BY <2>2, <2>3, <2>4, <2>5
<1>8. M = a \o b BY <1>2, <1>4, <1>5 DEF RemoveAt
<1>9. M \in Seq(Strings) /\ Len(M) = n - 1 /\ \A k \in 1 .. n - 1 : M[k] = IF k < i THEN L[k] ELSE L[k + 1]
  <2>1. /\ a \o b \in Seq(Strings) /\ Len(a \o b) = Len(a) + Len(b)
        /\ \A k \in 1 .. Len(a) + Len(b) : (a \o b)[k] = IF k <= Len(a) THEN a[k] ELSE b[k - Len(a)]
    BY <1>6, <1>7, ConcatProperties
  <2>2. PICK q \in Nat, t \in Nat : q = Len(a) /\ t = Len(b) /\ q = i - 1 /\ t = n - i
    <3>1. i - 1 \in Nat /\ n - i \in Nat BY <1>2
    <3>. QED BY <3>1, <1>6, <1>7
  <2>3. M \in Seq(Strings) /\ Len(M) = q + t
        /\ \A k \in 1 .. q + t : M[k] = IF k <= q THEN a[k] ELSE b[k - q]
    BY <2>1, <2>2, <1>8
  <2>4. q + t = n - 1 BY <2>2, <1>2
  <2>5. ASSUME NEW k \in 1 .. n - 1 PROVE M[k] = IF k < i THEN L[k] ELSE L[k + 1]
    <3>1. CASE k < i
      <4>1. k <= q /\ k \in 1 .. i - 1 BY <3>1, <2>2
      <4>. QED BY <4>1, <3>1, <2>3, <2>4, <1>6
    <3>2. CASE ~(k < i)
      <4>1. ~(k <= q) /\ k - q \in 1 .. n - i /\ i + (k - q) = k + 1 BY <3>2, <2>2, <1>2
      <4>2. M[k] = b[k - q] BY <4>1, <2>3, <2>4
      <4>3. b[k - q] = L[i + (k - q)] BY <4>1, <1>7
      <4>. QED BY <4>1, <4>2, <4>3, <3>2
    <3>. QED BY <3>1, <3>2
  <2>. QED BY <2>3, <2>4, <2>5
<1>10. ASSUME NEW k \in 1 .. n - 1
       PROVE  (IF k < i THEN k ELSE k + 1) \in 1 .. n /\ M[k] = L[IF k < i THEN k ELSE k + 1]
              /\ (IF k < i THEN k ELSE k + 1) # i
  <2>1. CASE k < i BY <2>1, <1>9
  <2>2. CASE ~(k < i) BY <2>2, <1>9
  <2>. QED BY <2>1, <2>2
<1>11. ASSUME NEW k \in 1 .. n - 1, NEW l \in 1 .. n - 1, k # l PROVE M[k].block # M[l].block
  <2>1. PICK p : p = IF k < i THEN k ELSE k + 1 OBVIOUS
  <2>2. PICK q : q = IF l < i THEN l ELSE l + 1 OBVIOUS
  <2>3. p \in 1 .. n /\ M[k] = L[p] BY <2>1, <1>10
  <2>4. q \in 1 .. n /\ M[l] = L[q] BY <2>2, <1>10
  <2>5. p # q BY <2>1, <2>2, <1>11
  <2>. QED BY <2>3, <2>4, <2>5, <1>2 DEF Lone
<1>12. Lone(M) BY <1>9, <1>11 DEF Lone
<1>13. ASSUME NEW x, x \in Blocks(M) PROVE x \in Blocks(L) /\ x # L[i].block
  <2>1. PICK k \in 1 .. n - 1 : x = M[k].block BY <1>9, <1>13, BlocksAre
  <2>2. PICK p \in 1 .. n : p # i /\ M[k] = L[p] BY <1>10
  <2>3. L[p].block # L[i].block BY <2>2, <1>2 DEF Lone
  <2>. QED BY <2>1, <2>2, <2>3, <1>1, <1>2, BlocksAre
<1>14. ASSUME NEW x, x \in Blocks(L), x # L[i].block PROVE x \in Blocks(M)
  <2>1. PICK p \in 1 .. n : x = L[p].block BY <1>1, <1>2, <1>14, BlocksAre
  <2>2. p # i BY <2>1, <1>14
  <2>3. PICK k \in 1 .. n - 1 : M[k] = L[p]
    <3>1. CASE p < i
      <4>1. p \in 1 .. n - 1 BY <3>1, <1>2
      <4>. QED BY <4>1, <3>1, <1>9
    <3>2. CASE p > i
      <4>1. PICK k \in 1 .. n - 1 : k = p - 1 /\ ~(k < i) /\ k + 1 = p BY <3>2, <1>2
      <4>. QED BY <4>1, <1>9
    <3>. QED BY <3>1, <3>2, <2>2
  <2>. QED BY <2>1, <2>3, <1>9, BlocksAre
<1>. QED BY <1>12, <1>13, <1>14

-----------------------------------------------------------------------------
(* Who owns the blocks that are taken, U: the table t, the strings L and   *)
(* the program's own H.                                                    *)

Owned(U, t, L, H) ==
  /\ Lone(L) /\ t \in Nat
  /\ H \in SUBSET (Nat \ {0}) /\ IsFiniteSet(H)
  /\ U = Blocks(L) \cup H \cup ({t} \ {0})
  /\ Blocks(L) \cap H = {} /\ t \notin Blocks(L) /\ t \notin H

LEMMA OwnedSets ==
  ASSUME NEW U, NEW t, NEW L, NEW H, Owned(U, t, L, H)
  PROVE  /\ 0 \notin U /\ 0 \notin Blocks(L) /\ 0 \notin H
         /\ \A x : x \in U <=> x \in Blocks(L) \/ x \in H \/ (x = t /\ x # 0)
BY BlocksNotZero DEF Owned

\* The program gets a block, and gives it back.
LEMMA OwnsMore ==
  ASSUME NEW U, NEW t, NEW L, NEW H, Owned(U, t, L, H), NEW b \in Nat, b # 0, b \notin U
  PROVE  Owned(U \cup {b}, t, L, H \cup {b})
<1>1. b \notin Blocks(L) /\ b # t BY OwnedSets
<1>2. IsFiniteSet(H \cup {b}) BY FS_AddElement DEF Owned
<1>. QED BY <1>1, <1>2 DEF Owned

LEMMA OwnsLess ==
  ASSUME NEW U, NEW t, NEW L, NEW H, Owned(U, t, L, H), NEW b \in H
  PROVE  Owned(U \ {b}, t, L, H \ {b})
<1>1. b \notin Blocks(L) /\ b # t BY DEF Owned
<1>2. IsFiniteSet(H \ {b}) BY FS_RemoveElement DEF Owned
<1>. QED BY <1>1, <1>2 DEF Owned

\* A string goes behind the others.
LEMMA OwnsString ==
  ASSUME NEW U, NEW t, NEW L, NEW H, Owned(U, t, L, H), NEW s \in Strings, s.block \notin U
  PROVE  Owned(U \cup {s.block}, t, Append(L, s), H)
<1>1. s.block # 0 BY DEF Strings
<1>2. s.block \notin Blocks(L) /\ s.block \notin H /\ s.block # t BY <1>1, OwnedSets
<1>3. Lone(Append(L, s)) /\ Blocks(Append(L, s)) = Blocks(L) \cup {s.block}
  BY <1>2, AppendLone DEF Owned
<1>. QED BY <1>2, <1>3 DEF Owned

\* Another table, u: the old one goes.
LEMMA OwnsTable ==
  ASSUME NEW U, NEW t, NEW L, NEW H, Owned(U, t, L, H), NEW u \in Nat, u # 0, u \notin U
  PROVE  Owned((U \cup {u}) \ {t}, u, L, H)
<1>1. u \notin Blocks(L) /\ u \notin H /\ u # t BY OwnedSets
<1>2. \A x : x \in (U \cup {u}) \ {t} <=> x \in Blocks(L) \/ x \in H \/ x = u
  BY <1>1, OwnedSets DEF Owned
<1>3. (U \cup {u}) \ {t} = Blocks(L) \cup H \cup ({u} \ {0}) BY <1>2
<1>. QED BY <1>1, <1>3 DEF Owned

\* A string is replaced by another, or goes.
LEMMA OwnsOther ==
  ASSUME NEW U, NEW t, NEW L, NEW H, Owned(U, t, L, H), NEW M, NEW i, NEW s, Replaced(L, M, i, s),
         s.block \notin U
  PROVE  Owned((U \cup {s.block}) \ {L[i].block}, t, M, H)
<1>1. s \in Strings /\ s.block # 0 /\ i \in 1 .. Len(L) /\ L \in Seq(Strings)
  BY DEF Replaced, Strings, Owned, Lone
<1>2. s.block \notin Blocks(L) /\ s.block \notin H /\ s.block # t BY <1>1, OwnedSets
<1>3. L[i].block \in Blocks(L) BY <1>1, BlockFields
<1>4. L[i].block \notin H /\ L[i].block # t /\ s.block # L[i].block BY <1>2, <1>3 DEF Owned
<1>5. Lone(M) /\ Blocks(M) = (Blocks(L) \ {L[i].block}) \cup {s.block} BY <1>2, ReplaceLone DEF Owned
<1>6. \A x : x \in (U \cup {s.block}) \ {L[i].block} <=> x \in Blocks(M) \/ x \in H \/ (x = t /\ x # 0)
  BY <1>4, <1>5, OwnedSets
<1>. QED BY <1>2, <1>5, <1>6 DEF Owned

LEMMA OwnsFewer ==
  ASSUME NEW U, NEW t, NEW L, NEW H, Owned(U, t, L, H), NEW i \in 1 .. Len(L), NEW M, M = RemoveAt(L, i)
  PROVE  Owned(U \ {L[i].block}, t, M, H)
<1>1. Lone(L) /\ L \in Seq(Strings) BY DEF Owned, Lone
<1>2. L[i].block \in Blocks(L) BY <1>1, BlockFields
<1>3. L[i].block \notin H /\ L[i].block # t BY <1>2 DEF Owned
<1>4. Lone(M) /\ Blocks(M) = Blocks(L) \ {L[i].block} BY <1>1, RemoveLone
<1>5. \A x : x \in U \ {L[i].block} <=> x \in Blocks(M) \/ x \in H \/ (x = t /\ x # 0)
  BY <1>3, <1>4, OwnedSets
<1>. QED BY <1>4, <1>5 DEF Owned

\* They are as many as their owners.
LEMMA OwnedCount ==
  ASSUME NEW U, NEW t, NEW L, NEW H, Owned(U, t, L, H)
  PROVE  Cardinality(U) = Len(L) + Cardinality(H) + IF t = 0 THEN 0 ELSE 1
<1>1. PICK n \in Nat : n = Len(L) BY DEF Owned, Lone
<1>2. IsFiniteSet(Blocks(L)) /\ Cardinality(Blocks(L)) = n
  <2>1. PICK f : f = [i \in 1 .. n |-> L[i].block] OBVIOUS
  <2>2. f \in [1 .. n -> Blocks(L)]
    <3>1. \A i \in 1 .. n : L[i].block \in Blocks(L) BY <1>1, BlockFields DEF Owned, Lone
    <3>. QED BY <2>1, <3>1
  <2>3. IsInjective(f) BY <1>1, <2>1 DEF IsInjective, Owned, Lone
  <2>4. \A x \in Blocks(L) : \E i \in 1 .. n : f[i] = x BY <1>1, <2>1, BlocksAre DEF Owned, Lone
  <2>5. f \in Bijection(1 .. n, Blocks(L)) BY <2>2, <2>3, <2>4 DEF Bijection, Injection, Surjection
  <2>6. ExistsBijection(1 .. n, Blocks(L)) BY <2>5 DEF ExistsBijection
  <2>. QED BY <2>6, FS_CountingElements, FS_NatBijection
<1>3. IsFiniteSet(H) /\ Cardinality(H) \in Nat BY FS_CardinalityType DEF Owned
<1>4. IsFiniteSet(Blocks(L) \cup H) /\ Cardinality(Blocks(L) \cup H) = n + Cardinality(H)
  <2>1. Blocks(L) \cap H = {} BY DEF Owned
  <2>2. /\ IsFiniteSet(Blocks(L) \cup H)
        /\ Cardinality(Blocks(L) \cup H)
             = Cardinality(Blocks(L)) + Cardinality(H) - Cardinality(Blocks(L) \cap H)
    BY <1>2, <1>3, FS_Union
  <2>3. Cardinality(Blocks(L) \cap H) = 0 BY <2>1, FS_EmptySet
  <2>. QED BY <1>2, <1>3, <2>2, <2>3
<1>5. CASE t = 0
  <2>1. U = Blocks(L) \cup H BY <1>5 DEF Owned
  <2>. QED BY <2>1, <1>1, <1>3, <1>4, <1>5
<1>6. CASE t # 0
  <2>1. U = (Blocks(L) \cup H) \cup {t} BY <1>6 DEF Owned
  <2>2. t \notin Blocks(L) \cup H BY DEF Owned
  <2>3. Cardinality((Blocks(L) \cup H) \cup {t}) = Cardinality(Blocks(L) \cup H) + 1
    BY <1>4, <2>2, FS_AddElement
  <2>. QED BY <2>1, <2>3, <1>1, <1>3, <1>4, <1>6
<1>. QED BY <1>5, <1>6

-----------------------------------------------------------------------------
(* The memory part: the invariant and its steps.                           *)

Given(g) == UNION {h[1] .. h[1] + h[2] - 1 : h \in g}

HeapWhole(list, top, g) == Sound(list) /\ top \in Nat /\ Covered(list) = Given(g)

Whole(list, top, g, e, h) ==
  /\ HeapWhole(list, top, g)
  /\ e \in [table : Nat, list : Seq(Strings)]
  /\ Owned(Used(list), e.table, e.list, h)

MemoryInv ==
  /\ boot \in {"env", "none"} => spoilt = "no" /\ environ = NoEnviron /\ held = {}
  /\ spoilt = "no" => /\ Whole(chunks, brk, given, environ, held)
                      /\ boot = "copy" => Len(environ.list) < Len(Vars)

LEMMA GivenMore ==
  ASSUME NEW g, NEW start \in Nat, NEW n \in Nat
  PROVE  Given(g \cup Memory(start, n)) = Given(g) \cup start .. start + n - 1
<1>1. CASE n = 0
  <2>1. Memory(start, n) = {} /\ start .. start + n - 1 = {} BY <1>1 DEF Memory
  <2>. QED BY <2>1
<1>2. CASE n # 0
  <2>1. Memory(start, n) = {<<start, n>>} BY <1>2 DEF Memory
  <2>2. PICK p : p = <<start, n>> OBVIOUS
  <2>3. p[1] = start /\ p[2] = n BY <2>2
  <2>4. PICK I : I = p[1] .. p[1] + p[2] - 1 OBVIOUS
  <2>5. \A x : x \in Given(g \cup {p}) <=> x \in Given(g) \/ x \in I BY <2>4 DEF Given
  <2>6. Given(g \cup {p}) = Given(g) \cup I BY <2>5
  <2>. QED BY <2>1, <2>2, <2>3, <2>4, <2>6
<1>. QED BY <1>1, <1>2

LEMMA GrowsWhole ==
  ASSUME NEW list, NEW top, NEW g, HeapWhole(list, top, g), NEW r, Grows(list, r, top)
  PROVE  HeapWhole(r.list, top + r.grown, g \cup Memory(top, r.grown)) /\ top + r.grown \in Nat
<1>1. r.grown \in Nat /\ top \in Nat BY DEF HeapWhole, Grows
<1>2. PICK n \in Nat : n = r.grown BY <1>1
<1>3. Given(g \cup Memory(top, n)) = Given(g) \cup top .. top + n - 1 BY <1>1, GivenMore
<1>4. Covered(r.list) = Covered(list) \cup top .. top + n - 1 BY <1>2 DEF Grows
<1>5. top + n \in Nat BY <1>1
<1>6. Covered(r.list) = Given(g \cup Memory(top, n)) BY <1>3, <1>4 DEF HeapWhole
<1>7. Sound(r.list) BY DEF Grows
<1>. QED BY <1>2, <1>5, <1>6, <1>7 DEF HeapWhole

LEMMA FreeWhole ==
  ASSUME NEW list, NEW top, NEW g, HeapWhole(list, top, g), NEW block, NEW s, s = Free(list, block)
  PROVE  HeapWhole(s, top, g) /\ Used(s) = Used(list) \ {block}
BY FreeGives DEF HeapWhole

\* What malloc does to the heap of the process.
Malloced(list, top, g, r) ==
  /\ HeapWhole(list, top, g) /\ r.why = "no"
  /\ \E asked \in Nat, more \in BOOLEAN : r = Malloc(list, top, asked, more)

LEMMA MallocWhole ==
  ASSUME NEW list, NEW top, NEW g, NEW r, Malloced(list, top, g, r)
  PROVE  /\ HeapWhole(r.list, top + r.grown, g \cup Memory(top, r.grown))
         /\ top \in Nat /\ r.grown \in Nat /\ r.block \in Nat
         /\ r.block = 0 => Used(r.list) = Used(list)
         /\ r.block # 0 => r.block \notin Used(list) /\ Used(r.list) = Used(list) \cup {r.block}
<1>1. HeapWhole(list, top, g) /\ top \in Nat /\ Sound(list) /\ r.why = "no" BY DEF Malloced, HeapWhole
<1>2. PICK asked \in Nat, more \in BOOLEAN : r = Malloc(list, top, asked, more) BY DEF Malloced
<1>3. Grows(list, r, top) BY <1>1, <1>2, MallocGives
<1>4. HeapWhole(r.list, top + r.grown, g \cup Memory(top, r.grown)) BY <1>1, <1>3, GrowsWhole
<1>. QED BY <1>1, <1>3, <1>4 DEF Grows

LEMMA StringLengths ==
  ASSUME NEW name \in Names, NEW val \in Values
  PROVE  StringLen(name, val) \in Nat
<1>1. Length[name] \in Nat /\ Length[val] \in Nat BY EnvironAssumption
<1>. QED BY <1>1 DEF StringLen

\* The heap at the start.
LEMMA MemoryInit ==
  ASSUME EnvironInit
  PROVE  MemoryInv
<1>1. /\ HEAPSTART \in Nat /\ HEAPEND \in Nat /\ HEAPEND - HEAPSTART - 8 \in Nat
      /\ HEAPEND - HEAPSTART \in Nat /\ ARGV0 \in Nat
  BY HeapAssumption DEF HEAD
<1>2. PICK l \in Nat, n \in Nat : l = HEAPEND - HEAPSTART - 8 /\ n = HEAPEND - HEAPSTART /\ n = l + 8
  BY <1>1
<1>3. PICK c : c = Chunk(HEAPSTART, l, FALSE) OBVIOUS
<1>4. c \in Chunks /\ c.at = HEAPSTART /\ c.len = l /\ ~c.used BY <1>1, <1>3 DEF Chunk, Chunks
<1>5. chunks = <<c>> BY <1>2, <1>3 DEF EnvironInit, HeapInit, HEAD
<1>6. chunks \in Seq(Chunks) /\ Len(chunks) = 1 /\ chunks[1] = c BY <1>4, <1>5
<1>7. Sound(chunks) BY <1>6 DEF Sound
<1>8. \A x : x \in Covered(chunks) <=> x \in Extent(c)
  <2>1. TAKE x
  <2>2. x \in Covered(chunks) <=> \E i \in 1 .. 1 : x \in Extent(chunks[i]) BY <1>6, CoveredIs
  <2>. QED BY <2>2, <1>6
<1>9. Extent(c) = HEAPSTART .. HEAPSTART + n - 1
  <2>1. End(c) = c.at + 8 + c.len BY <1>4, ChunkFields
  <2>2. End(c) = HEAPSTART + n BY <2>1, <1>1, <1>2, <1>4
  <2>3. HEAPSTART \in Nat BY <1>1
  <2>. QED BY <2>2, <2>3, <1>4 DEF Extent
<1>10. \A x : x \in Given(given) <=> x \in HEAPSTART .. HEAPSTART + n - 1
  BY <1>2 DEF Given, EnvironInit, HeapInit
<1>11. Covered(chunks) = Given(given) BY <1>8, <1>9, <1>10
<1>12. HeapWhole(chunks, brk, given) BY <1>1, <1>7, <1>11 DEF HeapWhole, EnvironInit, HeapInit
<1>13. Used(chunks) = {}
  <2>1. ASSUME NEW x, x \in Used(chunks) PROVE FALSE
    <3>1. PICK i \in 1 .. 1 : chunks[i].used BY <2>1, <1>6, UsedIs
    <3>. QED BY <3>1, <1>4, <1>6
  <2>. QED BY <2>1
<1>14. environ = NoEnviron /\ held = {} /\ spoilt = "no" /\ boot # "copy" BY DEF EnvironInit, HeapInit
<1>15. environ \in [table : Nat, list : Seq(Strings)] /\ environ.table = 0 /\ environ.list = <<>>
  BY <1>14 DEF NoEnviron
<1>16. Owned({}, 0, <<>>, {})
  <2>1. Lone(<<>>) /\ Blocks(<<>>) = {} BY DEF Lone, Blocks
  <2>. QED BY <2>1, FS_EmptySet DEF Owned
<1>. QED BY <1>12, <1>13, <1>14, <1>15, <1>16 DEF MemoryInv, Whole

\* Once something has spoilt the heap, nothing has to be shown; and only the
\* boot takes a step that leads to "main", "add" or "copy".
LEMMA Keeps ==
  ASSUME boot' \notin {"env", "none"},
         spoilt' = "no" => /\ Whole(chunks', brk', given', environ', held')
                           /\ boot' = "copy" => Len(environ'.list) < Len(Vars)
  PROVE  MemoryInv'
BY DEF MemoryInv

LEMMA ReadyKeeps ==
  ASSUME Ready, UNCHANGED boot,
         spoilt' = "no" => Whole(chunks', brk', given', environ', held')
  PROVE  MemoryInv'
<1>1. boot' = "main" BY DEF Ready
<1>. QED BY <1>1, Keeps

LEMMA WholeParts ==
  ASSUME MemoryInv, spoilt = "no"
  PROVE  /\ HeapWhole(chunks, brk, given)
         /\ environ \in [table : Nat, list : Seq(Strings)]
         /\ Owned(Used(chunks), environ.table, environ.list, held)
         /\ Lone(environ.list) /\ environ.list \in Seq(Strings) /\ environ.table \in Nat
         /\ boot = "copy" => Len(environ.list) < Len(Vars)
<1>1. Whole(chunks, brk, given, environ, held) /\ (boot = "copy" => Len(environ.list) < Len(Vars))
  BY DEF MemoryInv
<1>2. Owned(Used(chunks), environ.table, environ.list, held) BY <1>1 DEF Whole
<1>. QED BY <1>1, <1>2 DEF Whole, Owned, Lone

LEMMA TableIs ==
  ASSUME NEW t \in Nat, NEW L \in Seq(Strings), NEW e, e = [table |-> t, list |-> L]
  PROVE  e \in [table : Nat, list : Seq(Strings)] /\ e.table = t /\ e.list = L
OBVIOUS

LEMMA BootTableKeeps ==
  ASSUME MemoryInv, BootTable
  PROVE  MemoryInv'
<1>1. PICK more \in BOOLEAN :
        LET count == IF boot = "env" THEN Len(Vars) ELSE 0
            r == Malloc(chunks, brk, (count + 1) * PTR, more)
        IN /\ boot \in {"env", "none"}
           /\ Allocated(r)
           /\ environ' = [table |-> r.block, list |-> <<>>]
           /\ boot' = IF boot = "none" THEN "main"
                        ELSE IF r.block = 0 \/ Vars = <<>> THEN "add" ELSE "copy"
  BY DEF BootTable
<1>2. PICK asked : asked = ((IF boot = "env" THEN Len(Vars) ELSE 0) + 1) * PTR OBVIOUS
<1>3. PICK r : r = Malloc(chunks, brk, asked, more) OBVIOUS
<1>4. /\ boot \in {"env", "none"} /\ Allocated(r) /\ environ' = [table |-> r.block, list |-> <<>>]
      /\ boot' = IF boot = "none" THEN "main"
                   ELSE IF r.block = 0 \/ Vars = <<>> THEN "add" ELSE "copy"
      /\ held' = held
  BY <1>1, <1>2, <1>3, Zenon DEF BootTable
<1>5. Len(Vars) \in Nat /\ (Vars # <<>> => 0 < Len(Vars)) BY EnvironAssumption
<1>6. asked \in Nat BY <1>2, <1>5 DEF PTR
<1>7. spoilt = "no" /\ environ = NoEnviron /\ held = {} BY <1>4 DEF MemoryInv
<1>8. HeapWhole(chunks, brk, given) /\ Owned(Used(chunks), 0, <<>>, {})
  <2>1. environ.table = 0 /\ environ.list = <<>> BY <1>7 DEF NoEnviron
  <2>. QED BY <2>1, <1>7, WholeParts
<1>9. boot' \notin {"env", "none"} BY <1>4
<1>10. ASSUME spoilt' = "no"
       PROVE  /\ Whole(chunks', brk', given', environ', held')
              /\ boot' = "copy" => Len(environ'.list) < Len(Vars)
  <2>1. r.why = "no" BY <1>4, <1>10 DEF Allocated
  <2>2. /\ HeapWhole(r.list, brk + r.grown, given \cup Memory(brk, r.grown))
        /\ r.block \in Nat
        /\ r.block = 0 => Used(r.list) = Used(chunks)
        /\ r.block # 0 => r.block \notin Used(chunks) /\ Used(r.list) = Used(chunks) \cup {r.block}
    <3>1. Malloced(chunks, brk, given, r) BY <1>3, <1>6, <1>8, <2>1 DEF Malloced
    <3>. QED BY <3>1, MallocWhole
  <2>3. HeapWhole(chunks', brk', given') /\ chunks' = r.list BY <2>2, <1>4 DEF Allocated
  <2>4. /\ environ' \in [table : Nat, list : Seq(Strings)]
        /\ environ'.table = r.block /\ environ'.list = <<>>
    BY <1>4, <2>2, TableIs
  <2>5. Owned(Used(chunks'), r.block, <<>>, {})
    <3>1. CASE r.block = 0 BY <3>1, <1>8, <2>2, <2>3
    <3>2. CASE r.block # 0
      <4>1. Owned((Used(chunks) \cup {r.block}) \ {0}, r.block, <<>>, {})
        BY <3>2, <1>8, <2>2, OwnsTable
      <4>2. 0 \notin Used(chunks) BY <1>8, OwnedSets
      <4>3. (Used(chunks) \cup {r.block}) \ {0} = Used(chunks') BY <3>2, <4>2, <2>2, <2>3
      <4>. QED BY <4>1, <4>3
    <3>. QED BY <3>1, <3>2
  <2>6. boot' = "copy" => Len(environ'.list) < Len(Vars)
    <3>1. boot' = "copy" => Vars # <<>> BY <1>4
    <3>. QED BY <3>1, <1>5, <2>4
  <2>. QED BY <1>4, <1>7, <2>3, <2>4, <2>5, <2>6 DEF Whole
<1>. QED BY <1>9, <1>10, Keeps

LEMMA BootStringKeeps ==
  ASSUME MemoryInv, BootString
  PROVE  MemoryInv'
<1>1. PICK n : n = Len(environ.list) + 1 OBVIOUS
<1>2. PICK name : name = Vars[n][1] OBVIOUS
<1>3. PICK val : val = Vars[n][2] OBVIOUS
<1>4. boot = "copy" /\ spoilt = "no" /\ held' = held BY DEF BootString
<1>5. PICK more \in BOOLEAN :
        LET r == Malloc(chunks, brk, StringLen(name, val), more)
        IN /\ Allocated(r)
           /\ IF r.block = 0 THEN boot' = "add" /\ UNCHANGED environ
              ELSE /\ environ' = [environ EXCEPT !.list = Append(@, String(r.block, name, val))]
                   /\ boot' = IF n = Len(Vars) THEN "add" ELSE "copy"
  BY <1>1, <1>2, <1>3 DEF BootString
<1>6. PICK r : r = Malloc(chunks, brk, StringLen(name, val), more) OBVIOUS
<1>7. /\ Allocated(r)
      /\ r.block = 0 => boot' = "add" /\ environ' = environ
      /\ r.block # 0 =>
           /\ environ' = [environ EXCEPT !.list = Append(@, String(r.block, name, val))]
           /\ boot' = IF n = Len(Vars) THEN "add" ELSE "copy"
  BY <1>5, <1>6
<1>8. /\ HeapWhole(chunks, brk, given) /\ environ \in [table : Nat, list : Seq(Strings)]
      /\ Owned(Used(chunks), environ.table, environ.list, held)
      /\ environ.list \in Seq(Strings) /\ Len(environ.list) < Len(Vars)
  BY <1>4, WholeParts
<1>9. Vars \in Seq(Names \X Values) /\ n \in 1 .. Len(Vars) BY <1>1, <1>8, EnvironAssumption
<1>10. name \in Names /\ val \in Values
  <2>1. Vars[n] \in Names \X Values BY <1>9, ElementOfSeq
  <2>. QED BY <2>1, <1>2, <1>3
<1>11. StringLen(name, val) \in Nat BY <1>10, StringLengths
<1>12. boot' \notin {"env", "none"} BY <1>7
<1>13. ASSUME spoilt' = "no"
       PROVE  /\ Whole(chunks', brk', given', environ', held')
              /\ boot' = "copy" => Len(environ'.list) < Len(Vars)
  <2>1. r.why = "no" BY <1>7, <1>13 DEF Allocated
  <2>2. /\ HeapWhole(r.list, brk + r.grown, given \cup Memory(brk, r.grown))
        /\ r.block \in Nat
        /\ r.block = 0 => Used(r.list) = Used(chunks)
        /\ r.block # 0 => r.block \notin Used(chunks) /\ Used(r.list) = Used(chunks) \cup {r.block}
    <3>1. Malloced(chunks, brk, given, r) BY <1>6, <1>8, <1>11, <2>1 DEF Malloced
    <3>. QED BY <3>1, MallocWhole
  <2>3. HeapWhole(chunks', brk', given') /\ chunks' = r.list BY <2>2, <1>7 DEF Allocated
  <2>4. CASE r.block = 0 BY <2>2, <2>3, <2>4, <1>4, <1>7, <1>8 DEF Whole
  <2>5. CASE r.block # 0
    <3>1. PICK s : s = String(r.block, name, val) OBVIOUS
    <3>2. s \in Strings /\ s.block = r.block BY <2>2, <2>5, <3>1, <1>10, StringIs
    <3>3. PICK M : M = Append(environ.list, s) OBVIOUS
    <3>4. Owned(Used(chunks'), environ.table, M, held) BY <3>2, <3>3, <2>2, <2>3, <2>5, <1>8, OwnsString
    <3>5. M \in Seq(Strings) BY <3>4 DEF Owned, Lone
    <3>6. environ' = [environ EXCEPT !.list = M] BY <1>7, <2>5, <3>1, <3>3
    <3>7. /\ environ' \in [table : Nat, list : Seq(Strings)]
          /\ environ'.table = environ.table /\ environ'.list = M
      BY <3>5, <3>6, <1>8
    <3>8. boot' = "copy" => n # Len(Vars) BY <1>7, <2>5
    <3>9. Len(M) = n BY <1>1, <1>8, <3>2, <3>3, AppendProperties
    <3>. QED BY <3>4, <3>7, <3>8, <3>9, <2>3, <1>4, <1>9 DEF Whole
  <2>. QED BY <2>4, <2>5
<1>. QED BY <1>12, <1>13, Keeps

LEMMA BootAddKeeps ==
  ASSUME MemoryInv, BootAdd
  PROVE  MemoryInv'
<1>1. PICK n : n = IF EnvLen >= HEAD + 4 THEN EnvLen ELSE 0 OBVIOUS
<1>2. /\ boot = "add" /\ spoilt = "no" /\ boot' = "main"
      /\ brk' = brk /\ environ' = environ /\ held' = held
  BY DEF BootAdd
<1>3. IF Overlaps(chunks, EnvAt, n)
      THEN spoilt' = "break" /\ UNCHANGED <<chunks, given>>
      ELSE /\ chunks' = AddChunk(chunks, EnvAt, n)
           /\ given' = given \cup Memory(EnvAt, n)
           /\ UNCHANGED spoilt
  BY <1>1 DEF BootAdd
<1>4. n \in Nat /\ (n = 0 \/ n >= 12) /\ EnvAt \in Nat BY <1>1, EnvironAssumption DEF HEAD
<1>5. /\ HeapWhole(chunks, brk, given) /\ environ \in [table : Nat, list : Seq(Strings)]
      /\ Owned(Used(chunks), environ.table, environ.list, held)
  BY <1>2, WholeParts
<1>6. ASSUME spoilt' = "no" PROVE Whole(chunks', brk', given', environ', held')
  <2>1. ~Overlaps(chunks, EnvAt, n) BY <1>3, <1>6
  <2>2. chunks' = AddChunk(chunks, EnvAt, n) /\ given' = given \cup Memory(EnvAt, n) BY <1>3, <2>1
  <2>3. Sound(chunks) BY <1>5 DEF HeapWhole
  <2>4. /\ Sound(chunks') /\ Covered(chunks') = Covered(chunks) \cup EnvAt .. EnvAt + n - 1
        /\ Used(chunks') = Used(chunks)
    BY <2>1, <2>2, <2>3, <1>4, AddGives
  <2>5. Given(given') = Given(given) \cup EnvAt .. EnvAt + n - 1 BY <2>2, <1>4, GivenMore
  <2>6. HeapWhole(chunks', brk', given') BY <2>4, <2>5, <1>2, <1>5 DEF HeapWhole
  <2>. QED BY <2>4, <2>6, <1>2, <1>5 DEF Whole
<1>7. boot' \notin {"env", "none"} /\ boot' # "copy" BY <1>2
<1>. QED BY <1>6, <1>7, Keeps

LEMMA AllocKeeps ==
  ASSUME MemoryInv, NEW size \in Nat, NEW more \in BOOLEAN, Alloc(size, more)
  PROVE  MemoryInv'
<1>1. PICK r : r = Malloc(chunks, brk, size, more) OBVIOUS
<1>2. /\ Ready /\ boot' = boot /\ Allocated(r) /\ environ' = environ
      /\ held' = IF r.block = 0 THEN held ELSE held \cup {r.block}
  BY <1>1 DEF Alloc
<1>3. /\ HeapWhole(chunks, brk, given) /\ environ \in [table : Nat, list : Seq(Strings)]
      /\ Owned(Used(chunks), environ.table, environ.list, held)
  BY <1>2, WholeParts DEF Ready
<1>4. ASSUME spoilt' = "no" PROVE Whole(chunks', brk', given', environ', held')
  <2>1. Malloced(chunks, brk, given, r) BY <1>1, <1>2, <1>3, <1>4 DEF Malloced, Allocated
  <2>2. /\ HeapWhole(r.list, brk + r.grown, given \cup Memory(brk, r.grown))
        /\ r.block \in Nat
        /\ r.block = 0 => Used(r.list) = Used(chunks)
        /\ r.block # 0 => r.block \notin Used(chunks) /\ Used(r.list) = Used(chunks) \cup {r.block}
    BY <2>1, MallocWhole
  <2>3. HeapWhole(chunks', brk', given') /\ chunks' = r.list BY <2>2, <1>2 DEF Allocated
  <2>4. Owned(Used(chunks'), environ.table, environ.list, held')
    <3>1. CASE r.block = 0 BY <3>1, <2>2, <2>3, <1>2, <1>3
    <3>2. CASE r.block # 0
      <4>1. Owned(Used(chunks) \cup {r.block}, environ.table, environ.list, held \cup {r.block})
        BY <3>2, <2>2, <1>3, OwnsMore
      <4>. QED BY <4>1, <3>2, <2>2, <2>3, <1>2
    <3>. QED BY <3>1, <3>2
  <2>. QED BY <2>3, <2>4, <1>2, <1>3 DEF Whole
<1>. QED BY <1>2, <1>4, ReadyKeeps

LEMMA ReleaseKeeps ==
  ASSUME MemoryInv, NEW block \in held, Release(block)
  PROVE  MemoryInv'
<1>1. /\ Ready /\ boot' = boot /\ chunks' = Free(chunks, block) /\ held' = held \ {block}
      /\ brk' = brk /\ given' = given /\ environ' = environ
  BY DEF Release
<1>2. /\ HeapWhole(chunks, brk, given) /\ environ \in [table : Nat, list : Seq(Strings)]
      /\ Owned(Used(chunks), environ.table, environ.list, held)
  BY <1>1, WholeParts DEF Ready
<1>3. HeapWhole(chunks', brk, given) /\ Used(chunks') = Used(chunks) \ {block} BY <1>1, <1>2, FreeWhole
<1>4. Owned(Used(chunks) \ {block}, environ.table, environ.list, held \ {block}) BY <1>2, OwnsLess
<1>5. Whole(chunks', brk', given', environ', held') BY <1>1, <1>2, <1>3, <1>4 DEF Whole
<1>. QED BY <1>1, <1>5, ReadyKeeps

LEMMA UnsetKeeps ==
  ASSUME MemoryInv, NEW name \in Names, Unset(name)
  PROVE  MemoryInv'
<1>1. PICK i : i = Min(Matches(name)) OBVIOUS
<1>2. PICK M : M = RemoveAt(environ.list, i) OBVIOUS
<1>3. PICK b : b = environ.list[i].block OBVIOUS
<1>4. /\ Ready /\ boot' = boot /\ Matches(name) # {} /\ chunks' = Free(chunks, b)
      /\ environ' = [environ EXCEPT !.list = M]
      /\ brk' = brk /\ given' = given /\ held' = held
  BY <1>1, <1>2, <1>3 DEF Unset
<1>5. /\ HeapWhole(chunks, brk, given) /\ environ \in [table : Nat, list : Seq(Strings)]
      /\ Owned(Used(chunks), environ.table, environ.list, held) /\ environ.list \in Seq(Strings)
  BY <1>4, WholeParts DEF Ready
<1>6. i \in 1 .. Len(environ.list)
  <2>1. Matches(name) \in SUBSET (1 .. Len(environ.list)) BY <1>5 DEF Matches
  <2>2. Matches(name) \in SUBSET Nat BY <2>1
  <2>3. i \in Matches(name) BY <2>2, <1>1, <1>4, Smallest
  <2>. QED BY <2>1, <2>3
<1>7. HeapWhole(chunks', brk, given) /\ Used(chunks') = Used(chunks) \ {b} BY <1>4, <1>5, FreeWhole
<1>8. Owned(Used(chunks'), environ.table, M, held) BY <1>2, <1>3, <1>5, <1>6, <1>7, OwnsFewer
<1>9. M \in Seq(Strings) BY <1>8 DEF Owned, Lone
<1>10. /\ environ' \in [table : Nat, list : Seq(Strings)]
       /\ environ'.table = environ.table /\ environ'.list = M
  BY <1>4, <1>5, <1>9
<1>11. Whole(chunks', brk', given', environ', held') BY <1>4, <1>7, <1>8, <1>10 DEF Whole
<1>. QED BY <1>4, <1>11, ReadyKeeps

LEMMA SetOldKeeps ==
  ASSUME MemoryInv, NEW name \in Names, NEW val \in Values, NEW more \in BOOLEAN, SetOld(name, val, more)
  PROVE  MemoryInv'
<1>1. PICK i : i = Max(Matches(name)) OBVIOUS
<1>2. PICK r : r = Malloc(chunks, brk, StringLen(name, val), more) OBVIOUS
<1>3. PICK b : b = environ.list[i].block OBVIOUS
<1>4. PICK s : s = String(r.block, name, val) OBVIOUS
<1>5. /\ Ready /\ boot' = boot /\ Matches(name) # {} /\ held' = held
      /\ brk' = brk + r.grown /\ given' = given \cup Memory(brk, r.grown) /\ spoilt' = r.why
      /\ IF r.block = 0 \/ r.why # "no" THEN chunks' = r.list /\ environ' = environ
         ELSE chunks' = Free(r.list, b) /\ environ' = [environ EXCEPT !.list[i] = s]
  BY <1>1, <1>2, <1>3, <1>4 DEF SetOld
<1>6. /\ HeapWhole(chunks, brk, given) /\ environ \in [table : Nat, list : Seq(Strings)]
      /\ Owned(Used(chunks), environ.table, environ.list, held) /\ environ.list \in Seq(Strings)
  BY <1>5, WholeParts DEF Ready
<1>7. i \in 1 .. Len(environ.list)
  <2>1. Matches(name) \in SUBSET (1 .. Len(environ.list)) BY <1>6 DEF Matches
  <2>2. PICK n \in Nat : n = Len(environ.list) BY <1>6
  <2>3. Matches(name) \in SUBSET (0 .. n) BY <2>1, <2>2
  <2>4. i \in Matches(name) BY <2>3, <1>1, <1>5, Greatest
  <2>. QED BY <2>1, <2>4
<1>8. ASSUME spoilt' = "no" PROVE Whole(chunks', brk', given', environ', held')
  <2>1. r.why = "no" BY <1>5, <1>8
  <2>2. StringLen(name, val) \in Nat BY StringLengths
  <2>3. Malloced(chunks, brk, given, r) BY <2>1, <2>2, <1>2, <1>6 DEF Malloced
  <2>4. /\ HeapWhole(r.list, brk + r.grown, given \cup Memory(brk, r.grown))
        /\ r.block \in Nat
        /\ r.block = 0 => Used(r.list) = Used(chunks)
        /\ r.block # 0 => r.block \notin Used(chunks) /\ Used(r.list) = Used(chunks) \cup {r.block}
    BY <2>3, MallocWhole
  <2>5. HeapWhole(r.list, brk', given') BY <2>4, <1>5
  <2>6. CASE r.block = 0 BY <2>4, <2>5, <2>6, <1>5, <1>6 DEF Whole
  <2>7. CASE r.block # 0
    <3>1. chunks' = Free(r.list, b) /\ environ' = [environ EXCEPT !.list[i] = s] BY <2>1, <2>7, <1>5
    <3>2. s \in Strings /\ s.block = r.block BY <2>4, <2>7, <1>4, StringIs
    <3>3. PICK M : M = [environ.list EXCEPT ![i] = s] OBVIOUS
    <3>4. Replaced(environ.list, M, i, s) BY <3>2, <3>3, <1>7 DEF Replaced
    <3>5. Owned((Used(chunks) \cup {r.block}) \ {b}, environ.table, M, held)
      BY <3>2, <3>4, <2>4, <2>7, <1>3, <1>6, OwnsOther
    <3>6. HeapWhole(chunks', brk', given') /\ Used(chunks') = Used(r.list) \ {b}
      BY <3>1, <2>5, FreeWhole
    <3>7. M \in Seq(Strings) BY <3>5 DEF Owned, Lone
    <3>8. environ' = [environ EXCEPT !.list = M] BY <3>1, <3>3
    <3>9. /\ environ' \in [table : Nat, list : Seq(Strings)]
          /\ environ'.table = environ.table /\ environ'.list = M
      BY <3>7, <3>8, <1>6
    <3>. QED BY <3>5, <3>6, <3>9, <2>4, <2>7, <1>5 DEF Whole
  <2>. QED BY <2>6, <2>7
<1>. QED BY <1>5, <1>8, ReadyKeeps

\* The table t and the string s are both there, or neither is kept.
LEMMA SetNewKeepsInv ==
  ASSUME MemoryInv, NEW name \in Names, NEW val \in Values, NEW more \in BOOLEAN, SetNew(name, val, more)
  PROVE  MemoryInv'
<1>1. PICK n : n = Len(environ.list) OBVIOUS
<1>2. PICK t : t = Malloc(chunks, brk, (n + 2) * PTR, more) OBVIOUS
<1>3. PICK r : r = Malloc(t.list, brk + t.grown, StringLen(name, val), more) OBVIOUS
<1>4. PICK s : s = String(r.block, name, val) OBVIOUS
<1>5. /\ Ready /\ boot' = boot /\ held' = held
      /\ IF t.block = 0 \/ t.why # "no" THEN Allocated(t) /\ UNCHANGED environ
         ELSE /\ brk' = brk + t.grown + r.grown
              /\ given' = given \cup Memory(brk, t.grown) \cup Memory(brk + t.grown, r.grown)
              /\ spoilt' = r.why
              /\ IF r.block = 0 \/ r.why # "no"
                 THEN chunks' = Free(r.list, t.block) /\ UNCHANGED environ
                 ELSE /\ chunks' = Free(r.list, environ.table)
                      /\ environ' = [table |-> t.block, list |-> Append(environ.list, s)]
  BY <1>1, <1>2, <1>3, <1>4 DEF SetNew
<1>6. /\ HeapWhole(chunks, brk, given) /\ environ \in [table : Nat, list : Seq(Strings)]
      /\ Owned(Used(chunks), environ.table, environ.list, held) /\ environ.list \in Seq(Strings)
  BY <1>5, WholeParts DEF Ready
<1>7. (n + 2) * PTR \in Nat BY <1>1, <1>6 DEF PTR
<1>8. StringLen(name, val) \in Nat BY StringLengths
<1>9. ASSUME spoilt' = "no" PROVE Whole(chunks', brk', given', environ', held')
  <2>1. t.why = "no" BY <1>5, <1>9 DEF Allocated
  <2>2. Malloced(chunks, brk, given, t) BY <2>1, <1>2, <1>6, <1>7 DEF Malloced
  <2>3. /\ HeapWhole(t.list, brk + t.grown, given \cup Memory(brk, t.grown))
        /\ t.block \in Nat
        /\ t.block = 0 => Used(t.list) = Used(chunks)
        /\ t.block # 0 => t.block \notin Used(chunks) /\ Used(t.list) = Used(chunks) \cup {t.block}
    BY <2>2, MallocWhole
  <2>4. CASE t.block = 0
    <3>1. Allocated(t) /\ environ' = environ BY <2>4, <1>5
    <3>2. HeapWhole(chunks', brk', given') /\ chunks' = t.list BY <3>1, <2>3 DEF Allocated
    <3>. QED BY <3>1, <3>2, <2>3, <2>4, <1>5, <1>6 DEF Whole
  <2>5. CASE t.block # 0
    <3>1. /\ brk' = (brk + t.grown) + r.grown
          /\ given' = (given \cup Memory(brk, t.grown)) \cup Memory(brk + t.grown, r.grown)
          /\ r.why = "no"
          /\ IF r.block = 0 THEN chunks' = Free(r.list, t.block) /\ environ' = environ
             ELSE /\ chunks' = Free(r.list, environ.table)
                  /\ environ' = [table |-> t.block, list |-> Append(environ.list, s)]
      BY <2>1, <2>5, <1>5, <1>9
    <3>2. PICK top : top = brk + t.grown OBVIOUS
    <3>3. PICK g : g = given \cup Memory(brk, t.grown) OBVIOUS
    <3>4. HeapWhole(t.list, top, g) BY <3>2, <3>3, <2>3
    <3>5. Malloced(t.list, top, g, r) BY <3>1, <3>2, <3>4, <1>3, <1>8 DEF Malloced
    <3>6. /\ HeapWhole(r.list, top + r.grown, g \cup Memory(top, r.grown))
          /\ r.block \in Nat
          /\ r.block = 0 => Used(r.list) = Used(t.list)
          /\ r.block # 0 => r.block \notin Used(t.list) /\ Used(r.list) = Used(t.list) \cup {r.block}
      BY <3>5, MallocWhole
    <3>7. HeapWhole(r.list, brk', given') BY <3>1, <3>2, <3>3, <3>6
    <3>8. CASE r.block = 0
      <4>1. chunks' = Free(r.list, t.block) /\ environ' = environ BY <3>1, <3>8
      <4>2. HeapWhole(chunks', brk', given') /\ Used(chunks') = Used(r.list) \ {t.block}
        BY <4>1, <3>7, FreeWhole
      <4>3. Used(chunks') = Used(chunks) BY <4>2, <3>6, <3>8, <2>3, <2>5
      <4>. QED BY <4>1, <4>2, <4>3, <1>5, <1>6 DEF Whole
    <3>9. CASE r.block # 0
      <4>1. /\ chunks' = Free(r.list, environ.table)
            /\ environ' = [table |-> t.block, list |-> Append(environ.list, s)]
        BY <3>1, <3>9
      <4>2. HeapWhole(chunks', brk', given') /\ Used(chunks') = Used(r.list) \ {environ.table}
        BY <4>1, <3>7, FreeWhole
      <4>3. s \in Strings /\ s.block = r.block BY <3>6, <3>9, <1>4, StringIs
      <4>4. PICK M : M = Append(environ.list, s) OBVIOUS
      <4>5. r.block \notin Used(chunks) /\ t.block \notin Used(chunks) /\ r.block # t.block
        BY <3>6, <3>9, <2>3, <2>5
      <4>6. Owned(Used(chunks) \cup {r.block}, environ.table, M, held)
        BY <4>3, <4>4, <4>5, <1>6, OwnsString
      <4>7. t.block \notin Used(chunks) \cup {r.block} BY <4>5
      <4>8. Owned(((Used(chunks) \cup {r.block}) \cup {t.block}) \ {environ.table}, t.block, M, held)
        BY <4>6, <4>7, <2>3, <2>5, OwnsTable
      <4>9. Used(chunks') = ((Used(chunks) \cup {r.block}) \cup {t.block}) \ {environ.table}
        BY <4>2, <3>6, <3>9, <2>3, <2>5
      <4>10. M \in Seq(Strings) BY <4>8 DEF Owned, Lone
      <4>11. /\ environ' \in [table : Nat, list : Seq(Strings)]
             /\ environ'.table = t.block /\ environ'.list = M
        BY <4>1, <4>4, <4>10, <2>3, TableIs
      <4>. QED BY <4>2, <4>8, <4>9, <4>11, <1>5 DEF Whole
    <3>. QED BY <3>8, <3>9
  <2>. QED BY <2>4, <2>5
<1>. QED BY <1>5, <1>9, ReadyKeeps

LEMMA MemoryStep ==
  ASSUME MemoryInv, EnvironNext
  PROVE  MemoryInv'
<1>1. CASE BootTable BY <1>1, BootTableKeeps
<1>2. CASE BootString BY <1>2, BootStringKeeps
<1>3. CASE BootAdd BY <1>3, BootAddKeeps
<1>4. CASE \E size \in Sizes, more \in BOOLEAN : Alloc(size, more) BY <1>4, AllocKeeps, HeapAssumption
<1>5. CASE \E block \in held : Release(block) BY <1>5, ReleaseKeeps
<1>6. CASE \E name \in Names, val \in Values, more \in BOOLEAN :
             SetNew(name, val, more) \/ SetOld(name, val, more)
  BY <1>6, SetNewKeepsInv, SetOldKeeps
<1>7. CASE \E name \in Names : Unset(name) BY <1>7, UnsetKeeps
<1>. QED BY <1>1, <1>2, <1>3, <1>4, <1>5, <1>6, <1>7 DEF EnvironNext

\* What the invariant says of the two properties.
LEMMA MemoryMeans ==
  ASSUME MemoryInv
  PROVE  NothingLost /\ BlocksOwned
<1>1. SUFFICES ASSUME spoilt = "no" PROVE NothingLost /\ BlocksOwned BY DEF NothingLost, BlocksOwned
<1>2. /\ HeapWhole(chunks, brk, given)
      /\ Owned(Used(chunks), environ.table, environ.list, held)
  BY <1>1, WholeParts
<1>3. Sound(chunks) /\ chunks \in Seq(Chunks) /\ DOMAIN chunks = 1 .. Len(chunks) BY <1>2 DEF HeapWhole, Sound
<1>4. \A i, j \in DOMAIN chunks : i < j => Extent(chunks[i]) \cap Extent(chunks[j]) = {}
  <2>1. TAKE i, j \in DOMAIN chunks
  <2>2. HAVE i < j
  <2>3. chunks[i] \in Chunks /\ chunks[j] \in Chunks BY <1>3, ElementOfSeq
  <2>4. i # j BY <2>2, <1>3
  <2>5. Clear(chunks[i], chunks[j]) BY <2>4, <1>3 DEF Sound
  <2>. QED BY <2>3, <2>5, ClearApart
<1>5. NothingLost BY <1>2, <1>4 DEF NothingLost, HeapWhole, Covered, Given
<1>6. Used(chunks) = TakenBlocks BY DEF Used, TakenBlocks
<1>7. Blocks(environ.list) = EnvBlocks BY DEF Blocks, EnvBlocks
<1>8. TakenBlocks = EnvBlocks \cup held \cup ({environ.table} \ {0}) BY <1>2, <1>6, <1>7 DEF Owned
<1>9. Cardinality(TakenBlocks) =
        Len(environ.list) + Cardinality(held) + IF environ.table = 0 THEN 0 ELSE 1
  BY <1>2, <1>6, OwnedCount
<1>10. BlocksOwned BY <1>8, <1>9 DEF BlocksOwned
<1>. QED BY <1>5, <1>10

-----------------------------------------------------------------------------
(* The theorems.                                                           *)

LInv ==
  /\ part \in {"memory", "file", "format"}
  /\ MemoryInv /\ Chunked /\ Kept(took, stream, fd)

LEMMA LInit == Init => LInv
<1>1. SUFFICES ASSUME Init PROVE LInv OBVIOUS
<1>2. part \in {"memory", "file", "format"} /\ EnvironInit /\ StdioInit BY <1>1 DEF Init
<1>3. MemoryInv BY <1>2, MemoryInit
<1>4. Chunked
  <2>1. fmt = <<>> /\ fp = Start /\ sp = Start BY <1>2 DEF StdioInit
  <2>2. fmt \in Seq(Alphabet) /\ Len(fmt) = 0 BY <2>1
  <2>3. Start \in FormatStates BY DEF Start, FormatStates
  <2>4. Start.mode = "format" /\ Start.from = 1 /\ Start.len = 0 /\ Start.out = <<>> BY DEF Start
  <2>5. Plain(fp, fmt) = <<>>
    <3>1. Plain(fp, fmt) = SubSeq(<<>>, 1, 0) BY <2>1, <2>4 DEF Plain
    <3>. QED BY <3>1
  <2>6. fp.out \o Plain(fp, fmt) = sp.out BY <2>1, <2>4, <2>5
  <2>7. SameText BY <2>1, <2>6 DEF SameText
  <2>. QED BY <2>1, <2>2, <2>3, <2>4, <2>7 DEF Chunked
<1>5. Kept(took, stream, fd)
  <2>1. took = <<>> /\ fd = 0 BY <1>2 DEF StdioInit
  <2>2. PICK f \in Flags : stream = [flags |-> f, blen |-> 0, bat |-> 1, buf |-> <<>>]
    BY <1>2 DEF StdioInit, FOpen
  <2>3. stream \in Streams BY <2>2 DEF Streams
  <2>4. stream.blen = 0 /\ stream.bat = 1 /\ stream.buf = <<>> BY <2>2
  <2>5. Waiting(stream) = <<>>
    <3>1. SubSeq(stream.buf, stream.bat, stream.bat + stream.blen - 1) = SubSeq(<<>>, 1, 0) BY <2>4
    <3>2. SubSeq(<<>>, 1, 0) = <<>> OBVIOUS
    <3>. QED BY <3>1, <3>2 DEF Waiting
  <2>6. SubSeq(Content, 1, 0) = <<>> BY FileBytes, SubSeqEmpty
  <2>7. took \o Waiting(stream) = SubSeq(Content, 1, fd) BY <2>1, <2>5, <2>6
  <2>8. took \in Seq(Bytes) /\ fd \in 0 .. Len(Content) BY <2>1, FileBytes
  <2>9. stream.bat + stream.blen = Len(stream.buf) + 1 BY <2>4
  <2>. QED BY <2>3, <2>7, <2>8, <2>9 DEF Kept
<1>. QED BY <1>2, <1>3, <1>4, <1>5 DEF LInv

LEMMA LStep == LInv /\ [Next]_lvars => LInv'
<1>1. SUFFICES ASSUME LInv, [Next]_lvars PROVE LInv' OBVIOUS
<1>2. UNCHANGED envvars => (MemoryInv => MemoryInv')
  <2>1. SUFFICES ASSUME UNCHANGED envvars, MemoryInv PROVE MemoryInv' OBVIOUS
  <2>2. chunks' = chunks /\ brk' = brk /\ given' = given /\ spoilt' = spoilt /\ environ' = environ
        /\ held' = held /\ boot' = boot
    BY <2>1 DEF envvars, hvars
  <2>. QED BY <2>1, <2>2 DEF MemoryInv
<1>3. UNCHANGED fvars => (Kept(took, stream, fd) => Kept(took', stream', fd')) BY DEF fvars
<1>4. UNCHANGED pvars => (Chunked => Chunked') BY DEF pvars, Chunked, SameText, Plain
<1>5. CASE part = "memory" /\ EnvironNext /\ UNCHANGED <<stdiovars, part>>
  <2>1. MemoryInv' BY <1>1, <1>5, MemoryStep DEF LInv
  <2>2. UNCHANGED fvars /\ UNCHANGED pvars /\ part' = part BY <1>5 DEF stdiovars
  <2>. QED BY <1>1, <1>3, <1>4, <2>1, <2>2 DEF LInv
<1>6. CASE part = "file" /\ FileNext /\ UNCHANGED <<envvars, pvars, part>>
  <2>1. Kept(took', stream', fd') BY <1>1, <1>6, FileStep DEF LInv
  <2>2. UNCHANGED envvars /\ UNCHANGED pvars /\ part' = part BY <1>6
  <2>. QED BY <1>1, <1>2, <1>4, <2>1, <2>2 DEF LInv
<1>7. CASE part = "format" /\ FormatNext /\ UNCHANGED <<envvars, fvars, part>>
  <2>1. Chunked' BY <1>1, <1>7, FormatStep DEF LInv
  <2>2. UNCHANGED envvars /\ UNCHANGED fvars /\ part' = part BY <1>7
  <2>. QED BY <1>1, <1>2, <1>3, <2>1, <2>2 DEF LInv
<1>8. CASE UNCHANGED lvars
  <2>1. UNCHANGED envvars /\ UNCHANGED fvars /\ UNCHANGED pvars /\ part' = part
    BY <1>8 DEF lvars, stdiovars
  <2>. QED BY <1>1, <1>2, <1>3, <1>4, <2>1 DEF LInv
<1>. QED BY <1>1, <1>5, <1>6, <1>7, <1>8 DEF Next

LEMMA LAlways == Spec => []LInv
BY LInit, LStep, PTL DEF Spec

\* Bytes of the heap are in one chunk each and none is lost, for every size
\* of the heap and every sequence of malloc, free, setenv and unsetenv, until
\* something spoils the list (stdlib.c 152-324).
THEOREM NothingLostAlways == Spec => []NothingLost
<1>1. LInv => NothingLost BY MemoryMeans DEF LInv
<1>. QED BY <1>1, LAlways, PTL

\* The environment and the program own each block that is taken, once, also
\* after an allocation has failed half way (stdlib.c 330-490, __libc.c 69-108).
THEOREM BlocksOwnedAlways == Spec => []BlocksOwned
<1>1. LInv => BlocksOwned BY MemoryMeans DEF LInv
<1>. QED BY <1>1, LAlways, PTL

\* A stream gives the bytes of its file in order and each of them once, for
\* every file and every buffer, however short the reads are (stdio.c 195-262).
THEOREM NothingSkippedAlways == Spec => []NothingSkipped
<1>1. LInv => NothingSkipped BY DEF LInv, Kept, Waiting, NothingSkipped
<1>. QED BY <1>1, LAlways, PTL

\* The formatters agree on every format (stdio.c 269-388, 469-578).
THEOREM SameTextAlways == Spec => []SameText
<1>1. LInv => SameText BY DEF LInv, Chunked
<1>. QED BY <1>1, LAlways, PTL

=============================================================================
