------------------------------ MODULE MCRemote ------------------------------
(* Remote with one file of three bytes and one directory of one entry; the  *)
(* lengths of answers keep the order of the real ones.                      *)
EXTENDS Remote
MCBytes == [n \in Nodes |-> IF n \in Files THEN 3 ELSE 1]
MCAnswerLen == [op \in Kinds |-> CASE op \in {"C", "M", "R"} -> 2
                                   [] op = "D" -> 4
                                   [] OTHER -> 3]
MCMaxDescs == [f \in {"none", "noise", "late", "share", "reboot"} |->
                 CASE f = "late" -> 3 [] f \in {"none", "reboot"} -> 5 [] OTHER -> 4]
=============================================================================
