-------------------------------- MODULE Libc --------------------------------
(***************************************************************************)
(* The C library of a user program: memory and environment (Environ on     *)
(* Heap) and stdio (Stdio).  These share no state but errno and, for the   *)
(* few bytes of a FILE, the heap; a behaviour follows one of them.         *)
(***************************************************************************)
EXTENDS Environ, Stdio

VARIABLE part   \* the part of the library the program uses

lvars == <<envvars, stdiovars, part>>

Init ==
    /\ EnvironInit /\ StdioInit
    /\ part \in {"memory", "file", "format"}
    /\ part # "memory" => boot = "none"
    /\ part # "file" => stream.flags = "rdwr"

Next ==
    \/ part = "memory" /\ EnvironNext /\ UNCHANGED <<stdiovars, part>>
    \/ part = "file" /\ FileNext /\ UNCHANGED <<envvars, pvars, part>>
    \/ part = "format" /\ FormatNext /\ UNCHANGED <<envvars, fvars, part>>

Spec == Init /\ [][Next]_lvars
=============================================================================
