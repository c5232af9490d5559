------------------------------- MODULE MCMem -------------------------------
(* Mem on eight blocks (four when everything may happen, with a word that   *)
(* three doublings overflow), for two or three users.                       *)
EXTENDS Mem
=============================================================================
