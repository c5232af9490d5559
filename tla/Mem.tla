-------------------------------- MODULE Mem --------------------------------
(***************************************************************************)
(* The memory of user processes: the block map of kernel/mem.c with the    *)
(* four ways kernel/proc.c uses it.  A process owns one aligned run of     *)
(* blocks, a power of two of them; fork allocates one, exec and brk        *)
(* reallocate it, kill frees it.                                           *)
(*                                                                         *)
(* An address is the number of a block; 0, a block of the kernel, also     *)
(* stands for no address.  Sizes are in units, BLOCK of them to a block.   *)
(* Fork and kill are one critical section; exec and brk look for room and  *)
(* then take it with interrupts enabled, and exec waits for the file       *)
(* system between its parts.                                               *)
(***************************************************************************)
EXTENDS Integers

CONSTANTS K_MEM_BLOCK_COUNT,
          K_MEM_RSVD_BLOCKS,    \* the first blocks hold the kernel
          BLOCK,                \* _K_MEM_BLOCK_SIZE
          WORD,                 \* 2^16: block counts are 16-bit
          Users,                \* pids of user processes
          Sizes,                \* sizes that programs and their files ask for
          Allowed               \* what may happen, see MemAssumption

ASSUME MemAssumption ==
  /\ K_MEM_BLOCK_COUNT \in Nat /\ K_MEM_RSVD_BLOCKS \in Nat \ {0}
  /\ K_MEM_RSVD_BLOCKS < K_MEM_BLOCK_COUNT
  /\ BLOCK \in Nat \ {0} /\ WORD \in Nat \ {0, 1}
  /\ Users \subseteq Nat \ {0}
  /\ Sizes \subseteq Nat
  /\ Allowed \subseteq {"exec",       \* processes call exec
                        "shrink",     \* an image smaller than the one it replaces
                        "full",       \* fork, or the end of exec, finds no room
                        "debug"}      \* the debug shell starts programs too

VARIABLES
  blk,      \* _blk_sts: the owner of each block, 0 if free
  mem,      \* mem_ad and mem_sz of each process
  live,     \* processes in the table
  ghosts,   \* slots that a failed fork has left out of the free list
  buf,      \* where the message buffer (pa_msg) of each process is, while it
            \* waits for an answer of the system task
  job,      \* what the system task and the debug task are doing
  ram       \* whose data each block holds; 0 is the kernel's or nobody's

vars == <<blk, mem, live, ghosts, buf, job, ram>>

Block == 0..(K_MEM_BLOCK_COUNT - 1)
Owner == Users \cup {0}
Tasks == {"system", "debug"}
NOBUF == -1
Nothing == [ad |-> 0, sz |-> 0]     \* the memory of a process that has none

calls == {p \in Users : buf[p] # NOBUF}

-----------------------------------------------------------------------------
(* Block counts and runs.                                                  *)

Powers == {n \in {1, 2, 4, 8, 16, 32, 64, 128, 256, 512, 1024, 2048, 4096,
                  8192, 16384, 32768} : n < WORD}

\* _mem_blocks: the least power of two of blocks that is enough; 0 when it
\* does not fit in a word.
Enough(size) == {n \in Powers : size <= n * BLOCK}
Blocks(size) ==
  IF Enough(size) = {} THEN 0
  ELSE CHOOSE n \in Enough(size) : \A m \in Enough(size) : n <= m

Run(b, n)       == b..(b + n - 1)
Region(p)       == Run(mem[p].ad, Blocks(mem[p].sz))

\* Blocks that a copy of size units to block b writes.
Span(b, size) == {k \in Block : k >= b /\ (k - b) * BLOCK < size}

\* Faulty variant: the last block of the run is not looked at.
FitsShort(p, n, b) ==
  /\ b >= K_MEM_RSVD_BLOCKS /\ b + n <= K_MEM_BLOCK_COUNT /\ b % n = 0
  /\ \A k \in Run(b, n - 1) : blk[k] \in {0, p}

\* Faulty variant: the blocks of the kernel are not left out.
FitsAnywhere(p, n, b) ==
  /\ b + n <= K_MEM_BLOCK_COUNT /\ b % n = 0
  /\ \A k \in Run(b, n) : blk[k] \in {0, p}

\* The run of n blocks at b can be given to p.  The table is a power of two
\* of blocks, so an aligned run that starts in it ends in it.
Fits(p, n, b) ==
  /\ b >= K_MEM_RSVD_BLOCKS /\ b + n <= K_MEM_BLOCK_COUNT /\ b % n = 0
  /\ \A k \in Run(b, n) : blk[k] \in {0, p}

\* The scan of mem_realloc: the first run that fits; none; no end.
Finds(p, size, b) ==
  /\ Blocks(size) # 0 /\ b \in Block
  /\ Fits(p, Blocks(size), b)
  /\ \A c \in Block : c < b => ~Fits(p, Blocks(size), c)

NoRoom(p, size) ==
  Blocks(size) # 0 /\ \A b \in Block : ~Fits(p, Blocks(size), b)

Endless(size) == Blocks(size) = 0

\* The end of mem_realloc: p gets the run at b.  If that is a move from
\* old.ad, as many units are copied as p had, and the old blocks are cleared.
Moves(old, b) == old.ad \notin {0, b}

\* Faulty variant: the blocks that p leaves are not given back.
TakeOnly(p, old, b, size) ==
  blk' = [k \in Block |-> IF k \in Run(b, Blocks(size)) THEN p ELSE blk[k]]

Take(p, old, b, size) ==
  blk' = [k \in Block |->
            IF k \in Run(b, Blocks(size)) THEN p
            ELSE IF Moves(old, b) /\ k \in Run(old.ad, Blocks(old.sz)) THEN 0
            ELSE blk[k]]

\* Faulty variant: one unit more is copied.
FillLong(p, old, b, size) ==
  ram' = [k \in Block |->
            IF \/ k \in Run(b, Blocks(size))
               \/ Moves(old, b) /\ k \in Span(b, old.sz + 1)
            THEN p ELSE ram[k]]

\* p then uses the memory it has.
Fill(p, old, b, size) ==
  ram' = [k \in Block |->
            IF \/ k \in Run(b, Blocks(size))
               \/ Moves(old, b) /\ k \in Span(b, old.sz)
            THEN p ELSE ram[k]]

\* What j has found room for is taken.
Realloc(j) ==
  /\ Take(j.pid, mem[j.pid], j.base, j.size)
  /\ Fill(j.pid, mem[j.pid], j.base, j.size)
  /\ mem' = [mem EXCEPT ![j.pid] = [ad |-> j.base, sz |-> j.size]]

-----------------------------------------------------------------------------

Job(pc, p, s, b, hi) == [pc |-> pc, pid |-> p, size |-> s, base |-> b, hi |-> hi]

FreeSlot(p)  == p \notin live \cup ghosts
Idle(t)      == job[t].pc = "idle"
Go(t, j)     == job' = [job EXCEPT ![t] = j]
Rest         == Job("idle", 0, 0, 0, 0)

\* proc_create_init at boot: init has one block and its image is loaded.
Init ==
  \E p \in Users :
    /\ live = {p} /\ ghosts = {}
    /\ blk = [k \in Block |-> IF k = K_MEM_RSVD_BLOCKS THEN p ELSE 0]
    /\ mem = [q \in Users |-> IF q = p THEN [ad |-> K_MEM_RSVD_BLOCKS, sz |-> 0] ELSE Nothing]
    /\ buf = [q \in Users |-> NOBUF]
    /\ job = [t \in Tasks |-> IF t = "system" THEN Job("load", p, 0, 0, 0) ELSE Rest]
    /\ ram = [k \in Block |-> IF k = K_MEM_RSVD_BLOCKS THEN p ELSE 0]

\* A program is started from the debug shell: proc_create_init, then exec.
\* No room is not an error here, the process has no memory then.
Start(p) ==
  /\ "debug" \in Allowed /\ Idle("debug") /\ FreeSlot(p)
  /\ live' = live \cup {p}
  /\ \/ \E b \in Block :
          /\ Finds(p, 0, b)
          /\ mem' = [mem EXCEPT ![p] = [ad |-> b, sz |-> 0]]
          /\ blk' = [blk EXCEPT ![b] = p] /\ ram' = [ram EXCEPT ![b] = p]
     \/ /\ NoRoom(p, 0)
        /\ mem' = [mem EXCEPT ![p] = Nothing]
        /\ UNCHANGED <<blk, ram>>
  /\ Go("debug", Job("load", p, 0, 0, 0))
  /\ UNCHANGED <<ghosts, buf>>

-----------------------------------------------------------------------------
(* Calls of the system task.                                               *)

\* p may call: the system task listens.  The message is in p's own memory.
Traps(p)   == Idle("system") /\ calls = {} /\ p \in live \ {job["debug"].pid}
Buffers(p) == Span(mem[p].ad, mem[p].sz)

\* The child gets a copy of the parent's memory, message buffer included.
Fork(p, c) ==
  /\ Traps(p) /\ FreeSlot(c)
  /\ \E k \in Buffers(p), b \in Block :
       /\ Finds(c, mem[p].sz, b)
       /\ Take(c, Nothing, b, mem[p].sz) /\ Fill(c, Nothing, b, mem[p].sz)
       /\ mem' = [mem EXCEPT ![c] = [ad |-> b, sz |-> mem[p].sz]]
       /\ buf' = [buf EXCEPT ![p] = k, ![c] = k - mem[p].ad + b]
  /\ live' = live \cup {c}
  /\ UNCHANGED <<ghosts, job>>

\* No room: the slot is not given back (and describes the parent's memory).
ForkFails(p, c) ==
  /\ "full" \in Allowed
  /\ Traps(p) /\ Buffers(p) # {} /\ FreeSlot(c)
  /\ NoRoom(c, mem[p].sz)
  /\ ghosts' = ghosts \cup {c}
  /\ UNCHANGED <<blk, mem, live, buf, job, ram>>

\* brk: look for room, then take it and remap the message buffer.
Brk(p) ==
  \E k \in Buffers(p), s \in Sizes :
    /\ Traps(p) /\ ("shrink" \in Allowed \/ s >= mem[p].sz)
    /\ buf' = [buf EXCEPT ![p] = k]
    /\ \/ \E b \in Block : Finds(p, s, b) /\ Go("system", Job("brk", p, s, b, 0))
       \/ NoRoom(p, s) /\ Go("system", Job("answer", p, 0, 0, 0))
       \/ Endless(s) /\ Go("system", Job("scan", p, s, 0, 0))
    /\ UNCHANGED <<blk, mem, live, ghosts, ram>>

BrkEnds ==
  LET j == job["system"] IN
  /\ j.pc = "brk" /\ Realloc(j)
  /\ buf' = [buf EXCEPT ![j.pid] = @ - mem[j.pid].ad + j.base]
  /\ Go("system", Job("answer", j.pid, 0, 0, 0))
  /\ UNCHANGED <<live, ghosts>>

Exec(p) ==
  /\ "exec" \in Allowed /\ Traps(p)
  /\ buf' \in {[buf EXCEPT ![p] = k] : k \in Buffers(p)}
  /\ Go("system", Job("load", p, 0, 0, 0))
  /\ UNCHANGED <<blk, mem, live, ghosts, ram>>

\* The answer is written to the buffers of those that wait for it.
Answers ==
  /\ job["system"].pc = "answer" \/ (Idle("system") /\ calls # {})
  /\ buf' = [p \in Users |-> NOBUF]
  /\ Go("system", Rest)
  /\ UNCHANGED <<blk, mem, live, ghosts, ram>>

Gone(p) ==
  /\ blk' = [k \in Block |-> IF k \in Region(p) THEN 0 ELSE blk[k]]
  /\ mem' = [mem EXCEPT ![p] = Nothing]
  /\ ram' = [k \in Block |-> IF ram[k] = p THEN 0 ELSE ram[k]]
  /\ live' = live \ {p}

Kill(p) ==
  /\ Traps(p) /\ Gone(p)
  /\ UNCHANGED <<ghosts, buf, job>>

-----------------------------------------------------------------------------
(* proc_exec, run by the system task or by the debug task.                 *)

\* A program header: the image is to reach up to s.
Segment(t) ==
  LET j == job[t] IN
  /\ j.pc = "load"
  /\ \E s \in Sizes :
       \/ s <= mem[j.pid].sz /\ s > j.hi /\ Go(t, [j EXCEPT !.hi = s])
       \/ /\ s > mem[j.pid].sz
          /\ \/ \E b \in Block : Finds(j.pid, s, b) /\ Go(t, Job("grow", j.pid, s, b, j.hi))
             \/ NoRoom(j.pid, s) /\ Go(t, [j EXCEPT !.pc = "fail"])
             \/ Endless(s) /\ Go(t, Job("scan", j.pid, s, 0, 0))
  /\ UNCHANGED <<blk, mem, live, ghosts, buf, ram>>

Grow(t) ==
  LET j == job[t] IN
  /\ j.pc = "grow" /\ Realloc(j)
  /\ Go(t, Job("load", j.pid, 0, 0, j.size))
  /\ UNCHANGED <<live, ghosts, buf>>

\* The whole image with its arguments: the size may be more or less.  No room
\* leaves address 0.
Whole(t) ==
  LET j == job[t] IN
  /\ j.pc = "load"
  /\ \E s \in Sizes :
       /\ s > j.hi /\ ("shrink" \in Allowed \/ s >= mem[j.pid].sz)
       /\ \/ /\ \E b \in Block : Finds(j.pid, s, b) /\ Go(t, Job("whole", j.pid, s, b, 0))
             /\ UNCHANGED mem
          \/ /\ "full" \in Allowed /\ NoRoom(j.pid, s)
             /\ mem' = [mem EXCEPT ![j.pid] = [ad |-> 0, sz |-> s]]
             /\ Go(t, [j EXCEPT !.pc = "fail"])
          \/ Endless(s) /\ Go(t, Job("scan", j.pid, s, 0, 0)) /\ UNCHANGED mem
  /\ UNCHANGED <<blk, live, ghosts, buf, ram>>

WholeEnds(t) ==
  LET j == job[t] IN
  /\ j.pc = "whole" /\ Realloc(j)
  /\ Go(t, IF t = "system" THEN Job("answer", j.pid, 0, 0, 0) ELSE Rest)
  /\ UNCHANGED <<live, ghosts, buf>>

\* The file is no good, at any point of it.
BadFile(t) ==
  /\ job[t].pc = "load" /\ Go(t, [job[t] EXCEPT !.pc = "fail"])
  /\ UNCHANGED <<blk, mem, live, ghosts, buf, ram>>

\* A caller is told; the debug shell kills what it has created.  (At boot there
\* is no caller, and without init nothing more happens.)
Fails(t) ==
  LET p == job[t].pid IN
  /\ job[t].pc = "fail" /\ (t = "system" => calls # {})
  /\ IF t = "system"
     THEN Go(t, Job("answer", p, 0, 0, 0)) /\ UNCHANGED <<blk, mem, live, ram>>
     ELSE Go(t, Rest) /\ Gone(p)
  /\ UNCHANGED <<ghosts, buf>>

-----------------------------------------------------------------------------

Next ==
  \/ \E p \in Users : Start(p) \/ Brk(p) \/ Exec(p) \/ Kill(p)
  \/ \E p, c \in Users : Fork(p, c) \/ ForkFails(p, c)
  \/ BrkEnds \/ Answers
  \/ \E t \in Tasks : \/ Segment(t) \/ Grow(t) \/ Whole(t) \/ WholeEnds(t)
                       \/ BadFile(t) \/ Fails(t)

Spec == Init /\ [][Next]_vars

-----------------------------------------------------------------------------
(* Properties.                                                             *)

JobType == [pc : {"idle", "load", "grow", "whole", "fail", "brk", "answer", "scan"},
            pid : Owner, size : Nat, base : Block, hi : Nat]

TypeOK ==
  /\ blk \in [Block -> Owner]
  /\ mem \in [Users -> [ad : Block, sz : Nat]]
  /\ live \subseteq Users /\ ghosts \subseteq Users \ live
  /\ buf \in [Users -> Int]
  /\ job \in [Tasks -> JobType]
  /\ ram \in [Block -> Owner]

\* mem.c, _K_MEM_RSVD_BLOCKS: whatever fails, and whoever else allocates, no
\* block of the kernel is ever given away.
KernelKept == \A k \in Block : k < K_MEM_RSVD_BLOCKS => blk[k] = 0

\* Every process owns all the blocks that the MMU maps for it, and none is the
\* kernel's.  As a block has one owner, processes do not share memory.
Owned ==
  \A p \in live : \A k \in Region(p) : k >= K_MEM_RSVD_BLOCKS /\ k \in Block /\ blk[k] = p

\* The blocks of a process hold its own data: what mem_realloc copies for one
\* process does not reach the blocks of another.
OwnData == \A p \in live : \A k \in Region(p) : ram[k] = p

\* Every block that is marked as owned is in the run of a living process.
NoLeak == \A k \in Block : blk[k] # 0 => blk[k] \in live /\ k \in Region(blk[k])
=============================================================================
