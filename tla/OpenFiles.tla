----------------------------- MODULE OpenFiles -----------------------------
(***************************************************************************)
(* What the file server promises its clients: a descriptor names one       *)
(* object from the open that returned it to the close or the kill that     *)
(* ends it, a fork gives the child what its parent has, and what is done   *)
(* through a descriptor is done to the object it names.                    *)
(***************************************************************************)
EXTENDS Integers

CONSTANTS Procs,      \* pids
          Fds,        \* descriptors of a process
          Objects,    \* files, directories and devices
          None        \* no object

VARIABLES file,       \* the object of each descriptor of each process
          dir,        \* the current directory of each process
          io          \* the last use of a descriptor: process, descriptor, object;
                      \* empty if the last step was none

vars == <<file, dir, io>>

Used(p) == {i \in Fds : file[p][i] # None}

Open(p, i, o) ==
  /\ i \notin Used(p) /\ \A j \in Fds : j < i => j \in Used(p)
  /\ file' = [file EXCEPT ![p][i] = o]
  /\ io' = <<>> /\ UNCHANGED dir

Close(p, i) ==
  /\ i \in Used(p)
  /\ file' = [file EXCEPT ![p][i] = None]
  /\ io' = <<>> /\ UNCHANGED dir

\* A process changes or loses its own directory, or borrows that of another.
ChangeDir(p, o) ==
  /\ dir' = [dir EXCEPT ![p] = o]
  /\ io' = <<>> /\ UNCHANGED file

Fork(p, q) ==
  /\ p # q /\ Used(q) = {} /\ dir[q] = None
  /\ file' = [file EXCEPT ![q] = file[p]]
  /\ dir' = [dir EXCEPT ![q] = dir[p]]
  /\ io' = <<>>

Use(p, i) ==
  /\ i \in Used(p)
  /\ io' = <<p, i, file[p][i]>>
  /\ UNCHANGED <<file, dir>>

Rest == io' = <<>> /\ UNCHANGED <<file, dir>>

TypeOK ==
  /\ file \in [Procs -> [Fds -> Objects \cup {None}]]
  /\ dir \in [Procs -> Objects \cup {None}]

Next ==
  \/ \E p \in Procs, i \in Fds : Close(p, i) \/ Use(p, i)
  \/ \E p \in Procs, i \in Fds, o \in Objects : Open(p, i, o)
  \/ \E p \in Procs, o \in Objects \cup {None} : ChangeDir(p, o)
  \/ \E p, q \in Procs : Fork(p, q)
  \/ Rest

Spec == TypeOK /\ io = <<>> /\ [][Next]_vars
=============================================================================
