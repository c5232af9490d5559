------------------------------- MODULE MCFat -------------------------------
(* A volume with two root sectors, a directory of two clusters, a file of  *)
(* two and one without, which two directories name; sectors of two bytes   *)
(* and two entries, two sectors in a cluster.                              *)
EXTENDS Fat

MCEntry ==
    [sub   |-> [kind |-> "dir",  chain |-> <<2, 4>>, size |-> 0],
     big   |-> [kind |-> "file", chain |-> <<5, 3>>, size |-> 5],
     empty |-> [kind |-> "file", chain |-> <<>>,     size |-> 0]]

MCStream ==
    [root |-> <<"skip", "sub", "empty", "end">>,
     sub  |-> <<"skip", "empty", "skip", "skip", "big", "end">>]
=============================================================================
