------------------------------ MODULE MCSystem ------------------------------
(* System with one file system server and two or three slots for user       *)
(* processes (K_PROC_COUNT 5 or 6): init, its shell, and a program or a     *)
(* shell started from the shell; fork fails when the table is full.         *)
EXTENDS System

NoRequest == Request("none", NONE)
=============================================================================
