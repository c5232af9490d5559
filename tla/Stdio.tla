-------------------------------- MODULE Stdio --------------------------------
(***************************************************************************)
(* stdio of user programs (lib/libc/src/stdio.c): streams with a buffer    *)
(* for what is only read, the two formatters, one that writes to a stream  *)
(* in chunks and one that fills a string.  Characters are strings of       *)
(* length one; the digits of a number are not modelled.                    *)
(***************************************************************************)
EXTENDS Integers, Sequences, SequencesExt, FiniteSetsExt

CONSTANTS Content,    \* the file
          BUF,        \* bytes a stream buffers
          LineSizes,  \* sizes fgets is called with
          Alphabet,   \* of the format
          MaxFormat   \* bound: its length

ASSUME StdioAssumption ==
    /\ Content \in Seq(STRING \ {"error"})
    /\ BUF \in Nat \ {0} /\ LineSizes \subseteq Nat \ {0}

VARIABLES
    fd,      \* position of the open file
    stream,  \* flags, blen, bat, buf
    line,    \* fgets: the room left, the characters so far
    took,    \* history: what fgetc has returned
    lines,   \* history: the string fgets returned last, and its room
    fmt, fp, sp   \* a format, vfprintf and vsprintf on it

fvars == <<fd, stream, line, took, lines>>
pvars == <<fmt, fp, sp>>
stdiovars == <<fvars, pvars>>

-----------------------------------------------------------------------------
(* Streams. *)

NoLine == [left |-> 0, s |-> <<>>, size |-> 0]

(* fopen of a file to read, or to read and write; stdin is not buffered.    *)
Flags == {"rdonly", "rdwr"}
FOpen(flags) == [flags |-> flags, blen |-> 0, bat |-> 1, buf |-> <<>>]

(* read of n bytes gives some of what there is, 0 at the end or an error.   *)
ReadLens(n) == LET there == Len(Content) - fd
               IN IF there = 0 THEN {0} ELSE 1 .. Min({n, there}) \cup {-1}

(* __buf_getc and fgetc: what can come of a call, as [c, fd, stream].       *)
Got(c, pos, str) == [c |-> c, fd |-> pos, stream |-> str]

RefilledAt(n) == [stream EXCEPT !.blen = n, !.buf = SubSeq(Content, fd + 1, fd + n)]
Refilled(n) == [stream EXCEPT !.blen = n, !.bat = 1, !.buf = SubSeq(Content, fd + 1, fd + n)]

NextByte(pos, str) ==
    Got(IF str.bat <= Len(str.buf) THEN str.buf[str.bat] ELSE "?",
        pos, [str EXCEPT !.blen = @ - 1, !.bat = @ + 1])

Fgetc ==
    IF stream.flags = "rdonly"
    THEN IF stream.blen > 0 THEN {NextByte(fd, stream)}
         ELSE {IF n <= 0 THEN Got("error", fd, stream) ELSE NextByte(fd + n, Refilled(n))
               : n \in ReadLens(BUF)}
    ELSE {IF n = 1 THEN Got(Content[fd + 1], fd + 1, stream) ELSE Got("error", fd, stream)
          : n \in ReadLens(1)}

(* fgets of a string of size bytes, and one turn of its loop: a newline     *)
(* ends it, as does a byte 0, which is dropped; at the end of the file and  *)
(* on an error the characters read so far are dropped.                      *)
Gets(size) ==
    /\ line = NoLine
    /\ line' = [left |-> size - 1, s |-> <<>>, size |-> size]
    /\ UNCHANGED <<fd, stream, took, lines>>

GetsTurn ==
    /\ line.left > 0
    /\ \E g \in Fgetc :
         /\ fd' = g.fd /\ stream' = g.stream
         /\ took' = IF g.c = "error" THEN took ELSE Append(took, g.c)
         /\ \/ /\ g.c \notin {"error", "nul", "nl"}
               /\ line' = [line EXCEPT !.left = @ - 1, !.s = Append(@, g.c)]
               /\ UNCHANGED lines
            \/ /\ g.c = "nl"
               /\ line' = NoLine
               /\ lines' = [s |-> Append(line.s, "nl"), size |-> line.size]
            \/ /\ g.c = "nul"
               /\ line' = NoLine
               /\ lines' = [s |-> line.s, size |-> line.size]
            \/ /\ g.c = "error" /\ line' = NoLine /\ UNCHANGED lines

GetsFull ==
    /\ line.size > 0 /\ line.left = 0
    /\ lines' = [s |-> line.s, size |-> line.size]
    /\ line' = NoLine
    /\ UNCHANGED <<fd, stream, took>>

FileNext == (\E size \in LineSizes : Gets(size)) \/ GetsTurn \/ GetsFull

-----------------------------------------------------------------------------
(* Formats: one more character of the format is read by both formatters.    *)

Start == [mode |-> "format", width |-> 0, arg |-> 0, out |-> <<>>, from |-> 1, len |-> 0]
Conversions == {"s", "d", "u", "x", "X", "c"}

(* What a flag character puts out and the mode after it.  A width matters   *)
(* to hexadecimal numbers only.                                             *)
Flag(st, c) ==
    CASE c \in Conversions ->
           [st EXCEPT !.mode = "format", !.arg = @ + 1,
                      !.out = Append(@, <<c, st.arg, IF c \in {"x", "X"} THEN st.width ELSE 0>>)]
      [] c = "%" -> [st EXCEPT !.mode = "format", !.out = Append(@, "%")]
      [] c = "0" -> st
      [] c \in {"2", "8"} -> [st EXCEPT !.width = IF c = "2" THEN 2 ELSE 8]
      [] OTHER -> [st EXCEPT !.mode = "format"]

(* vsprintf: every plain character goes out at once. *)
SChar(st, c) ==
    IF st.mode = "flag" THEN Flag(st, c)
    ELSE IF c = "%" THEN [st EXCEPT !.mode = "flag", !.width = 0]
    ELSE [st EXCEPT !.out = Append(@, c)]

(* vfprintf: plain characters are counted from a start in the format and    *)
(* written together, before a conversion and at the end.                    *)
Plain(st, f) == SubSeq(f, st.from, st.from + st.len - 1)

FCharLong(st, f, c) ==
    IF st.mode = "flag" THEN [Flag(st, c) EXCEPT !.from = Len(f) + 2]
    ELSE IF c = "%" THEN [st EXCEPT !.mode = "flag", !.width = 0, !.out = @ \o Plain(st, f)]
    ELSE [st EXCEPT !.len = @ + 1]

FChar(st, f, c) ==
    IF st.mode = "flag" THEN [Flag(st, c) EXCEPT !.from = Len(f) + 2]
    ELSE IF c = "%" THEN [st EXCEPT !.mode = "flag", !.width = 0, !.out = @ \o Plain(st, f),
                                    !.from = Len(f) + 1, !.len = 0]
    ELSE [st EXCEPT !.len = @ + 1]

FormatNext ==
    /\ Len(fmt) < MaxFormat
    /\ \E c \in Alphabet :
         /\ fmt' = Append(fmt, c)
         /\ fp' = FChar(fp, fmt, c)
         /\ sp' = SChar(sp, c)

-----------------------------------------------------------------------------
StdioInit ==
    /\ fd = 0 /\ stream \in {FOpen(f) : f \in Flags}
    /\ line = NoLine /\ took = <<>> /\ lines = NoLine
    /\ fmt = <<>> /\ fp = Start /\ sp = Start

(* What fgetc has returned and what waits in the buffer is the file from    *)
(* its start to the position of the descriptor: nothing is skipped or given *)
(* twice, however short the reads are and wherever they fail                *)
(* (stdio.c 195-262).                                                       *)
NothingSkipped ==
    took \o (IF stream.flags = "rdonly"
             THEN SubSeq(stream.buf, stream.bat, stream.bat + stream.blen - 1) ELSE <<>>)
       = SubSeq(Content, 1, fd)

(* The two formatters give the same text for a format, at every point of    *)
(* it: what vfprintf has written and the chunk it has open is what vsprintf *)
(* has put in the string (stdio.c 269-388, 469-578).                        *)
SameText ==
    /\ fp.out \o Plain(fp, fmt) = sp.out
    /\ fp.mode = sp.mode /\ fp.width = sp.width /\ fp.arg = sp.arg

=============================================================================
