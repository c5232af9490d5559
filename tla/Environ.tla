------------------------------- MODULE Environ -------------------------------
(***************************************************************************)
(* The environment of a user program (lib/libc/src/stdlib.c: setenv,       *)
(* unsetenv, getenv; __libc.c: its copy from the image) on top of Heap:    *)
(* environ is a table of pointers to strings, and both the table and the   *)
(* strings are blocks of the heap.                                         *)
(***************************************************************************)
EXTENDS Heap

CONSTANTS Names, Values,    \* variables and what they are set to
          Length,           \* Length[x]: characters of a name or a value
          Before,           \* Before[m]: the names that m begins with, m too
          EnvAt, EnvLen,    \* the environment exec has left in the image
          Vars,             \* and its variables, as <<name, value>>
          MaxVars, MaxHeld  \* bounds: variables; blocks of the program's own

PTR == 4

ASSUME EnvironAssumption ==
    /\ Length \in [Names \cup Values -> Nat]
    /\ Before \in [Names -> SUBSET Names]
    /\ Vars \in Seq(Names \X Values)
    /\ EnvAt \in Nat /\ EnvLen \in Nat /\ MaxHeld \in Nat

VARIABLES
    environ,  \* [table, list]: the table's block, the strings [block, name, val]
    held,     \* the blocks the program has from malloc
    boot      \* what __libc_env_init has left to do

envvars == <<hvars, environ, held, boot>>

NoEnviron == [table |-> 0, list |-> <<>>]
String(block, name, val) == [block |-> block, name |-> name, val |-> val]
StringLen(name, val) == Length[name] + 1 + Length[val] + 1

EnvironInit ==
    /\ HeapInit
    /\ environ = NoEnviron
    /\ held = {}
    /\ boot \in {"env", "none"}

-----------------------------------------------------------------------------
(* __libc_env_init, with an environment or without: the table, the strings  *)
(* one by one, then the memory they were in goes to the heap.               *)

BootTable ==
    \E more \in BOOLEAN :
       LET count == IF boot = "env" THEN Len(Vars) ELSE 0
           r == Malloc(chunks, brk, (count + 1) * PTR, more)
       IN /\ boot \in {"env", "none"}
          /\ Allocated(r)
          /\ environ' = [table |-> r.block, list |-> <<>>]
          /\ boot' = IF boot = "none" THEN "main"
                       ELSE IF r.block = 0 \/ Vars = <<>> THEN "add" ELSE "copy"
    /\ UNCHANGED held

BootString ==
    /\ boot = "copy" /\ spoilt = "no"
    /\ \E more \in BOOLEAN :
         LET n == Len(environ.list) + 1
             r == Malloc(chunks, brk, StringLen(Vars[n][1], Vars[n][2]), more)
         IN /\ Allocated(r)
            /\ IF r.block = 0 THEN boot' = "add" /\ UNCHANGED environ
               ELSE /\ environ' = [environ EXCEPT !.list =
                                     Append(@, String(r.block, Vars[n][1], Vars[n][2]))]
                    /\ boot' = IF n = Len(Vars) THEN "add" ELSE "copy"
    /\ UNCHANGED held

BootAdd ==
    /\ boot = "add" /\ spoilt = "no"
    /\ boot' = "main"
    /\ LET n == IF EnvLen >= HEAD + 4 THEN EnvLen ELSE 0    \* what is shorter is left alone
       IN IF Overlaps(chunks, EnvAt, n)
          THEN spoilt' = "break" /\ UNCHANGED <<chunks, given>>
          ELSE /\ chunks' = AddChunk(chunks, EnvAt, n)
               /\ given' = given \cup Memory(EnvAt, n)
               /\ UNCHANGED spoilt
    /\ UNCHANGED <<brk, environ, held>>

-----------------------------------------------------------------------------
Ready == boot = "main" /\ spoilt = "no"

(* The program's own blocks. *)
Alloc(size, more) ==
    LET r == Malloc(chunks, brk, size, more)
    IN /\ Ready /\ Cardinality(held) < MaxHeld
       /\ Allocated(r)
       /\ held' = IF r.block = 0 THEN held ELSE held \cup {r.block}
       /\ UNCHANGED <<environ, boot>>

Release(block) ==
    /\ Ready
    /\ chunks' = Free(chunks, block) /\ held' = held \ {block}
    /\ UNCHANGED <<brk, given, spoilt, environ, boot>>

(* The strings that begin with the name: those of longer names too. *)
Matches(name) == {i \in DOMAIN environ.list : name \in Before[environ.list[i].name]}

(* setenv of a name that no string begins with: a longer table, the string, *)
(* and the old table goes.                                                  *)
SetNewKeeps(name, val, more) ==
    LET n == Len(environ.list)
        t == Malloc(chunks, brk, (n + 2) * PTR, more)
        s == Malloc(t.list, brk + t.grown, StringLen(name, val), more)
    IN /\ Ready /\ Matches(name) = {} /\ n < MaxVars
       /\ IF t.block = 0 \/ t.why # "no" THEN Allocated(t) /\ UNCHANGED environ
          ELSE /\ brk' = brk + t.grown + s.grown
               /\ given' = given \cup Memory(brk, t.grown) \cup Memory(brk + t.grown, s.grown)
               /\ spoilt' = s.why
               /\ IF s.block = 0 \/ s.why # "no"
                  THEN chunks' = s.list /\ UNCHANGED environ
                  ELSE /\ chunks' = Free(s.list, environ.table)
                       /\ environ' = [table |-> t.block,
                                      list |-> Append(environ.list, String(s.block, name, val))]
       /\ UNCHANGED <<held, boot>>

SetNew(name, val, more) ==
    LET n == Len(environ.list)
        t == Malloc(chunks, brk, (n + 2) * PTR, more)
        s == Malloc(t.list, brk + t.grown, StringLen(name, val), more)
    IN /\ Ready /\ Matches(name) = {} /\ n < MaxVars
       /\ IF t.block = 0 \/ t.why # "no" THEN Allocated(t) /\ UNCHANGED environ
          ELSE /\ brk' = brk + t.grown + s.grown
               /\ given' = given \cup Memory(brk, t.grown) \cup Memory(brk + t.grown, s.grown)
               /\ spoilt' = s.why
               /\ IF s.block = 0 \/ s.why # "no"
                  THEN chunks' = Free(s.list, t.block) /\ UNCHANGED environ
                  ELSE /\ chunks' = Free(s.list, environ.table)
                       /\ environ' = [table |-> t.block,
                                      list |-> Append(environ.list, String(s.block, name, val))]
       /\ UNCHANGED <<held, boot>>

(* setenv over the last string that begins with the name. *)
SetOld(name, val, more) ==
    LET i == Max(Matches(name))
        s == Malloc(chunks, brk, StringLen(name, val), more)
    IN /\ Ready /\ Matches(name) # {}
       /\ brk' = brk + s.grown /\ given' = given \cup Memory(brk, s.grown) /\ spoilt' = s.why
       /\ IF s.block = 0 \/ s.why # "no" THEN chunks' = s.list /\ UNCHANGED environ
          ELSE /\ chunks' = Free(s.list, environ.list[i].block)
               /\ environ' = [environ EXCEPT !.list[i] = String(s.block, name, val)]
       /\ UNCHANGED <<held, boot>>

(* unsetenv: the first string that begins with the name goes, the table     *)
(* keeps its length.  (Without a table it reads through a null pointer.)    *)
Unset(name) ==
    LET i == Min(Matches(name))
    IN /\ Ready /\ environ.table # 0 /\ Matches(name) # {}
       /\ chunks' = Free(chunks, environ.list[i].block)
       /\ environ' = [environ EXCEPT !.list = RemoveAt(@, i)]
       /\ UNCHANGED <<brk, given, spoilt, held, boot>>

EnvironNext ==
    \/ BootTable \/ BootString \/ BootAdd
    \/ \E size \in Sizes, more \in BOOLEAN : Alloc(size, more)
    \/ \E block \in held : Release(block)
    \/ \E name \in Names, val \in Values, more \in BOOLEAN :
         SetNew(name, val, more) \/ SetOld(name, val, more)
    \/ \E name \in Names : Unset(name)

-----------------------------------------------------------------------------
(* Every block that is taken is the table, a string of the environment or   *)
(* one the program holds, each for itself, and all of these are taken: the  *)
(* environment loses no block when a malloc in it fails half way, frees     *)
(* none that it goes on using, and shares none (stdlib.c 330-490,           *)
(* __libc.c 69-108).                                                        *)
TakenBlocks == {chunks[i].at + HEAD : i \in {j \in DOMAIN chunks : chunks[j].used}}
EnvBlocks == {environ.list[i].block : i \in DOMAIN environ.list}
BlocksOwned ==
    spoilt = "no" =>
       /\ TakenBlocks = EnvBlocks \cup held \cup ({environ.table} \ {0})
       /\ Cardinality(TakenBlocks) =
            Len(environ.list) + Cardinality(held) + IF environ.table = 0 THEN 0 ELSE 1
=============================================================================
