------------------------------- MODULE MCVfs -------------------------------
(* Vfs with the system task and one or two processes of one descriptor.     *)
EXTENDS Vfs
=============================================================================
