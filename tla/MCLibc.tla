------------------------------- MODULE MCLibc -------------------------------
(* Libc with a heap of 80 bytes, two variables, one of which begins like the *)
(* other, and a file of nine bytes.                                          *)
EXTENDS Libc
MCLength == [x \in Names \cup Values |-> CASE x \in {"a", "b"} -> 1 [] x = "ab" -> 2 [] x = "v" -> 1 [] x = "w" -> 6]
MCContent == <<"a", "b", "nl", "c", "nul", "d", "nl", "nl", "e">>
MCBefore == [x \in Names |-> IF x = "ab" THEN {"a", "ab"} ELSE {x}]
MCVars == <<<<"ab", "v">>>>
=============================================================================
