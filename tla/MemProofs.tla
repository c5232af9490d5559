----------------------------- MODULE MemProofs -----------------------------
(***************************************************************************)
(* What is proved of Mem, for every number of blocks, set of users and set *)
(* of sizes: its type; that every process owns the blocks mapped for it,   *)
(* as long as the calls that mistreat a failed allocation and the debug    *)
(* shell are out; and, if no size shrinks either, that no block is lost    *)
(* and none holds the data of another process.                             *)
(***************************************************************************)
EXTENDS Mem, WellFoundedInduction, TLAPS

-----------------------------------------------------------------------------
(* Block counts and runs.                                                  *)

\* mem.c, _mem_blocks: the count of blocks is 0 or the least power of two that
\* is enough for the size.
LEMMA BlocksLeast ==
  ASSUME NEW size
  PROVE  \/ Enough(size) = {} /\ Blocks(size) = 0
         \/ /\ Blocks(size) \in Enough(size)
            /\ \A n \in Enough(size) : Blocks(size) <= n
<1> DEFINE E == Enough(size)
<1>1. CASE E = {}  BY <1>1 DEF Blocks
<1>2. CASE E # {}
  <2>1. E \subseteq Nat  BY DEF Enough, Powers
  <2>2. \E n \in E : \A m \in E : ~(<<m, n>> \in OpToRel(<, Nat))
    <3> HIDE DEF E
    <3> QED  BY <1>2, <2>1, WFMin, NatLessThanWellFounded, Zenon
  <2>3. \E n \in E : \A m \in E : ~(m < n)
    <3> HIDE DEF E
    <3> QED  BY <2>1, <2>2 DEF OpToRel
  <2>4. \E n \in E : \A m \in E : n <= m
    <3> HIDE DEF E
    <3> QED  BY <2>1, <2>3
  <2> QED  BY <1>2, <2>4 DEF Blocks
<1> QED  BY <1>1, <1>2

LEMMA BlocksNat == ASSUME NEW size PROVE Blocks(size) \in Nat
<1>1. Enough(size) \subseteq Nat  BY DEF Enough, Powers
<1> QED  BY <1>1, BlocksLeast

\* A larger size that has a count needs at least as many blocks.
LEMMA BlocksGrow ==
  ASSUME NEW a \in Nat, NEW b \in Nat, a <= b, Blocks(b) # 0
  PROVE  Blocks(a) <= Blocks(b)
<1>1. Blocks(b) \in Enough(b)  BY BlocksLeast
<1>2. Blocks(b) \in Enough(a)
  <2> DEFINE n == Blocks(b)  m == n * BLOCK
  <2>1. n \in Powers /\ b <= m  BY <1>1 DEF Enough
  <2>2. n \in Nat  BY BlocksNat
  <2>3. m \in Nat  BY <2>2, MemAssumption
  <2>4. a <= m
    <3> HIDE DEF m
    <3> QED  BY <2>1, <2>3
  <2> QED  BY <2>1, <2>4 DEF Enough
<1> QED  BY <1>2, BlocksLeast

\* A process of size 0 has one block.
LEMMA OneBlock == Blocks(0) = 1
<1>1. 1 \in Powers  BY MemAssumption DEF Powers
<1>2. 1 \in Enough(0)  BY <1>1, MemAssumption DEF Enough
<1>3. Blocks(0) \in Enough(0) /\ Blocks(0) <= 1  BY <1>2, BlocksLeast
<1>4. \A n \in Powers : n >= 1  BY DEF Powers
<1> QED  BY <1>3, <1>4, BlocksNat DEF Enough

-----------------------------------------------------------------------------
(* Types.                                                                  *)

MapTypes ==
  /\ blk \in [Block -> Owner]
  /\ mem \in [Users -> [ad : Block, sz : Nat]]
  /\ ram \in [Block -> Owner]

LEMMA BlockFacts ==
  /\ 0 \in Block /\ K_MEM_RSVD_BLOCKS \in Block /\ Block \subseteq Int
  /\ 0 \notin Users /\ Users \subseteq Nat /\ Owner \subseteq Nat
  /\ NOBUF \in Int
BY MemAssumption DEF Block, Owner, NOBUF

LEMMA IdleJob ==
  /\ Rest \in JobType
  /\ \A p \in Users : Job("load", p, 0, 0, 0) \in JobType
  /\ \A p \in Users : Job("answer", p, 0, 0, 0) \in JobType
BY BlockFacts DEF Rest, Job, JobType, Owner

\* mem_realloc leaves the map and the process with a well-formed run.
LEMMA ReallocType ==
  ASSUME MapTypes, NEW j \in JobType, Realloc(j)
  PROVE  MapTypes'
<1>1. j.pid \in Owner /\ j.base \in Block /\ j.size \in Nat  BY DEF JobType
<1>2. blk' \in [Block -> Owner]
  BY <1>1 DEF Realloc, Take, MapTypes, Owner
<1>3. ram' \in [Block -> Owner]
  BY <1>1 DEF Realloc, Fill, MapTypes
<1>4. mem' \in [Users -> [ad : Block, sz : Nat]]
  BY <1>1 DEF Realloc, MapTypes
<1> QED  BY <1>2, <1>3, <1>4 DEF MapTypes

LEMMA GoneType ==
  ASSUME MapTypes, NEW p, Gone(p)
  PROVE  MapTypes'
<1>1. Nothing \in [ad : Block, sz : Nat]  BY BlockFacts DEF Nothing
<1>2. blk' \in [Block -> Owner]  BY DEF Gone, MapTypes, Owner
<1>3. ram' \in [Block -> Owner]  BY DEF Gone, MapTypes, Owner
<1>4. mem' \in [Users -> [ad : Block, sz : Nat]]
  BY <1>1 DEF Gone, MapTypes
<1> QED  BY <1>2, <1>3, <1>4 DEF MapTypes

LEMMA InitType == Init => TypeOK
<1> SUFFICES ASSUME Init PROVE TypeOK  OBVIOUS
<1> USE BlockFacts
<1>1. PICK p \in Users :
        /\ live = {p} /\ ghosts = {}
        /\ blk = [k \in Block |-> IF k = K_MEM_RSVD_BLOCKS THEN p ELSE 0]
        /\ mem = [q \in Users |-> IF q = p THEN [ad |-> K_MEM_RSVD_BLOCKS, sz |-> 0] ELSE Nothing]
        /\ buf = [q \in Users |-> NOBUF]
        /\ job = [t \in Tasks |-> IF t = "system" THEN Job("load", p, 0, 0, 0) ELSE Rest]
        /\ ram = [k \in Block |-> IF k = K_MEM_RSVD_BLOCKS THEN p ELSE 0]
  BY DEF Init
<1>2. blk \in [Block -> Owner] /\ ram \in [Block -> Owner]
  BY <1>1 DEF Owner
<1>3. mem \in [Users -> [ad : Block, sz : Nat]]
  BY <1>1 DEF Nothing
<1>4. job \in [Tasks -> JobType]  BY <1>1, IdleJob
<1>5. buf \in [Users -> Int] /\ live \subseteq Users /\ ghosts \subseteq Users \ live
  BY <1>1
<1> QED  BY <1>2, <1>3, <1>4, <1>5 DEF TypeOK

LEMMA StepType == TypeOK /\ [Next]_vars => TypeOK'
<1> SUFFICES ASSUME TypeOK, [Next]_vars PROVE TypeOK'  OBVIOUS
<1> USE BlockFacts
<1>a. MapTypes  BY DEF MapTypes, TypeOK
<1>b. /\ live \subseteq Users /\ ghosts \subseteq Users \ live
      /\ buf \in [Users -> Int] /\ job \in [Tasks -> JobType]
  BY DEF TypeOK
<1>c. ASSUME MapTypes', live' \subseteq Users, ghosts' \subseteq Users \ live',
             buf' \in [Users -> Int], job' \in [Tasks -> JobType]
      PROVE  TypeOK'
  BY <1>c DEF MapTypes, TypeOK
<1>d. "system" \in Tasks /\ "debug" \in Tasks  BY DEF Tasks
<1>e. \A t \in Tasks : job[t] \in JobType  BY <1>b
<1>f. ASSUME NEW t \in Tasks, NEW j \in JobType, Go(t, j)
      PROVE  job' \in [Tasks -> JobType]
  BY <1>b, <1>f DEF Go
<1>g. UNCHANGED <<blk, mem, ram>> => MapTypes'  BY <1>a DEF MapTypes
<1>1. CASE UNCHANGED vars  BY <1>1, <1>b, <1>c, <1>g DEF vars
<1>2. ASSUME NEW p \in Users, Start(p) PROVE TypeOK'
  <2>1. job' \in [Tasks -> JobType]  BY <1>2, <1>d, <1>f, IdleJob DEF Start
  <2>2. live' \subseteq Users /\ ghosts' \subseteq Users \ live'
    BY <1>2, <1>b DEF Start, FreeSlot
  <2>3. MapTypes'
    <3>1. Nothing \in [ad : Block, sz : Nat]  BY DEF Nothing
    <3>2. mem' \in [Users -> [ad : Block, sz : Nat]]
      BY <1>2, <1>a, <3>1 DEF Start, MapTypes
    <3>3. blk' \in [Block -> Owner] /\ ram' \in [Block -> Owner]
      BY <1>2, <1>a DEF Start, MapTypes, Owner
    <3> QED  BY <3>2, <3>3 DEF MapTypes
  <2> QED  BY <1>2, <1>b, <1>c, <2>1, <2>2, <2>3 DEF Start
<1>3. ASSUME NEW p \in Users, NEW c \in Users, Fork(p, c) PROVE TypeOK'
  <2>1. PICK k \in Buffers(p), b \in Block :
          /\ Finds(c, mem[p].sz, b)
          /\ Take(c, Nothing, b, mem[p].sz) /\ Fill(c, Nothing, b, mem[p].sz)
          /\ mem' = [mem EXCEPT ![c] = [ad |-> b, sz |-> mem[p].sz]]
          /\ buf' = [buf EXCEPT ![p] = k, ![c] = k - mem[p].ad + b]
    BY <1>3 DEF Fork
  <2>2. k \in Int  BY DEF Buffers, Span
  <2>3. mem[p].sz \in Nat /\ mem[p].ad \in Int  BY <1>a DEF MapTypes
  <2>4. MapTypes'
    <3>1. mem' \in [Users -> [ad : Block, sz : Nat]]
      BY <1>a, <2>1, <2>3 DEF MapTypes
    <3>2. blk' \in [Block -> Owner]
      BY <1>a, <2>1 DEF Take, MapTypes, Owner
    <3>3. ram' \in [Block -> Owner]
      BY <1>a, <2>1 DEF Fill, MapTypes, Owner
    <3> QED  BY <3>1, <3>2, <3>3 DEF MapTypes
  <2>5. buf' \in [Users -> Int]  BY <1>b, <2>1, <2>2, <2>3
  <2>6. live' \subseteq Users /\ ghosts' \subseteq Users \ live'
    BY <1>3, <1>b DEF Fork, FreeSlot
  <2> QED  BY <1>3, <1>b, <1>c, <2>4, <2>5, <2>6 DEF Fork
<1>4. ASSUME NEW p \in Users, NEW c \in Users, ForkFails(p, c) PROVE TypeOK'
  BY <1>4, <1>b, <1>c, <1>g DEF ForkFails, FreeSlot
<1>5. ASSUME NEW p \in Users, Brk(p) PROVE TypeOK'
  <2>1. PICK k \in Buffers(p), s \in Sizes :
          /\ buf' = [buf EXCEPT ![p] = k]
          /\ \/ \E b \in Block : Finds(p, s, b) /\ Go("system", Job("brk", p, s, b, 0))
             \/ NoRoom(p, s) /\ Go("system", Job("answer", p, 0, 0, 0))
             \/ Endless(s) /\ Go("system", Job("scan", p, s, 0, 0))
          /\ UNCHANGED <<blk, mem, live, ghosts, ram>>
    BY <1>5 DEF Brk
  <2>2. buf' \in [Users -> Int]  BY <1>b, <2>1 DEF Buffers, Span
  <2>3. s \in Nat  BY MemAssumption
  <2>4. \A b \in Block : Job("brk", p, s, b, 0) \in JobType
    BY <2>3 DEF Job, JobType, Owner
  <2>5. Job("scan", p, s, 0, 0) \in JobType  BY <2>3 DEF Job, JobType, Owner
  <2>6. job' \in [Tasks -> JobType]  BY <1>d, <1>f, <2>1, <2>4, <2>5, IdleJob
  <2> QED  BY <1>b, <1>c, <1>g, <2>1, <2>2, <2>6
<1>6. ASSUME NEW p \in Users, Exec(p) PROVE TypeOK'
  <2>1. job' \in [Tasks -> JobType]  BY <1>6, <1>d, <1>f, IdleJob DEF Exec
  <2>2. buf' \in [Users -> Int]  BY <1>6, <1>b DEF Exec, Buffers, Span
  <2> QED  BY <1>6, <1>b, <1>c, <1>g, <2>1, <2>2 DEF Exec
<1>7. ASSUME NEW p \in Users, Kill(p) PROVE TypeOK'
  <2>1. MapTypes'  BY <1>7, <1>a, GoneType DEF Kill
  <2>2. live' \subseteq live  BY <1>7 DEF Kill, Gone
  <2> QED  BY <1>7, <1>b, <1>c, <2>1, <2>2 DEF Kill
<1>8. CASE BrkEnds
  <2> DEFINE j == job["system"]
  <2>1. j \in JobType  BY <1>d, <1>e
  <2>2. MapTypes'  BY <1>8, <1>a, <2>1, ReallocType DEF BrkEnds
  <2>3. Job("answer", j.pid, 0, 0, 0) \in JobType
    BY <2>1 DEF Job, JobType
  <2>4. job' \in [Tasks -> JobType]  BY <1>8, <1>d, <1>f, <2>3 DEF BrkEnds
  <2>5. j.base \in Int  BY <2>1 DEF JobType
  <2>6. \A q \in Users : buf[q] - mem[q].ad + j.base \in Int
    <3>1. \A q \in Users : buf[q] \in Int /\ mem[q].ad \in Int
      BY <1>a, <1>b DEF MapTypes
    <3> HIDE DEF j
    <3> QED  BY <2>5, <3>1
  <2>7. buf' \in [Users -> Int]  BY <1>8, <1>b, <2>6 DEF BrkEnds
  <2> QED  BY <1>8, <1>b, <1>c, <2>2, <2>4, <2>7 DEF BrkEnds
<1>9. CASE Answers
  <2>1. job' \in [Tasks -> JobType]  BY <1>9, <1>d, <1>f, IdleJob DEF Answers
  <2> QED  BY <1>9, <1>b, <1>c, <1>g, <2>1 DEF Answers
<1>10. ASSUME NEW t \in Tasks, Segment(t) PROVE TypeOK'
  <2> DEFINE j == job[t]
  <2>1. j \in JobType  BY <1>e
  <2>2. PICK s \in Sizes :
       \/ s <= mem[j.pid].sz /\ s > j.hi /\ Go(t, [j EXCEPT !.hi = s])
       \/ /\ s > mem[j.pid].sz
          /\ \/ \E b \in Block : Finds(j.pid, s, b) /\ Go(t, Job("grow", j.pid, s, b, j.hi))
             \/ NoRoom(j.pid, s) /\ Go(t, [j EXCEPT !.pc = "fail"])
             \/ Endless(s) /\ Go(t, Job("scan", j.pid, s, 0, 0))
    BY <1>10 DEF Segment
  <2>3. s \in Nat  BY MemAssumption
  <2>4. /\ [j EXCEPT !.hi = s] \in JobType /\ [j EXCEPT !.pc = "fail"] \in JobType
        /\ Job("scan", j.pid, s, 0, 0) \in JobType
        /\ \A b \in Block : Job("grow", j.pid, s, b, j.hi) \in JobType
    BY <2>1, <2>3 DEF Job, JobType
  <2>5. job' \in [Tasks -> JobType]  BY <1>f, <2>2, <2>4
  <2> QED  BY <1>10, <1>b, <1>c, <1>g, <2>5 DEF Segment
<1>11. ASSUME NEW t \in Tasks, Grow(t) PROVE TypeOK'
  <2> DEFINE j == job[t]
  <2>1. j \in JobType  BY <1>e
  <2>2. MapTypes'  BY <1>11, <1>a, <2>1, ReallocType DEF Grow
  <2>3. Job("load", j.pid, 0, 0, j.size) \in JobType
    BY <2>1 DEF Job, JobType
  <2>4. job' \in [Tasks -> JobType]  BY <1>11, <1>f, <2>3 DEF Grow
  <2> QED  BY <1>11, <1>b, <1>c, <2>2, <2>4 DEF Grow
<1>12. ASSUME NEW t \in Tasks, Whole(t) PROVE TypeOK'
  <2> DEFINE j == job[t]
  <2>1. j \in JobType  BY <1>e
  <2>2. PICK s \in Sizes :
       \/ /\ \E b \in Block : Finds(j.pid, s, b) /\ Go(t, Job("whole", j.pid, s, b, 0))
          /\ UNCHANGED mem
       \/ /\ mem' = [mem EXCEPT ![j.pid] = [ad |-> 0, sz |-> s]]
          /\ Go(t, [j EXCEPT !.pc = "fail"])
       \/ Go(t, Job("scan", j.pid, s, 0, 0)) /\ UNCHANGED mem
    BY <1>12 DEF Whole
  <2>3. s \in Nat  BY MemAssumption
  <2>4. /\ [j EXCEPT !.pc = "fail"] \in JobType
        /\ Job("scan", j.pid, s, 0, 0) \in JobType
        /\ \A b \in Block : Job("whole", j.pid, s, b, 0) \in JobType
    BY <2>1, <2>3 DEF Job, JobType
  <2>5. job' \in [Tasks -> JobType]  BY <1>f, <2>2, <2>4
  <2>6. mem' \in [Users -> [ad : Block, sz : Nat]]
    BY <1>a, <2>2, <2>3 DEF MapTypes
  <2>7. MapTypes'  BY <1>12, <1>a, <2>6 DEF Whole, MapTypes
  <2> QED  BY <1>12, <1>b, <1>c, <2>5, <2>7 DEF Whole
<1>13. ASSUME NEW t \in Tasks, WholeEnds(t) PROVE TypeOK'
  <2> DEFINE j == job[t]
  <2>1. j \in JobType  BY <1>e
  <2>2. MapTypes'  BY <1>13, <1>a, <2>1, ReallocType DEF WholeEnds
  <2>3. Job("answer", j.pid, 0, 0, 0) \in JobType
    BY <2>1 DEF Job, JobType
  <2>4. job' \in [Tasks -> JobType]  BY <1>13, <1>f, <2>3, IdleJob DEF WholeEnds
  <2> QED  BY <1>13, <1>b, <1>c, <2>2, <2>4 DEF WholeEnds
<1>14. ASSUME NEW t \in Tasks, BadFile(t) PROVE TypeOK'
  <2>1. [job[t] EXCEPT !.pc = "fail"] \in JobType  BY <1>e DEF JobType
  <2>2. job' \in [Tasks -> JobType]  BY <1>14, <1>f, <2>1 DEF BadFile
  <2> QED  BY <1>14, <1>b, <1>c, <1>g, <2>2 DEF BadFile
<1>15. ASSUME NEW t \in Tasks, Fails(t) PROVE TypeOK'
  <2> DEFINE p == job[t].pid
  <2>1. Job("answer", p, 0, 0, 0) \in JobType
    BY <1>e DEF Job, JobType
  <2>2. job' \in [Tasks -> JobType]  BY <1>15, <1>f, <2>1, IdleJob DEF Fails
  <2>3. MapTypes' /\ live' \subseteq live
    <3>1. CASE t = "system"  BY <1>15, <1>g, <3>1 DEF Fails
    <3>2. CASE t # "system"
      <4>1. Gone(p)  BY <1>15, <3>2 DEF Fails
      <4>2. live' \subseteq live  BY <4>1 DEF Gone
      <4> QED  BY <1>a, <4>1, <4>2, GoneType
    <3> QED  BY <3>1, <3>2
  <2> QED  BY <1>15, <1>b, <1>c, <2>2, <2>3 DEF Fails
<1> QED
  BY <1>1, <1>2, <1>3, <1>4, <1>5, <1>6, <1>7, <1>8, <1>9, <1>10, <1>11, <1>12,
     <1>13, <1>14, <1>15 DEF Next

\* The block map, the descriptors and what the two tasks work on keep their
\* types, whatever is allowed to happen.
THEOREM TypeCorrect == Spec => []TypeOK
<1> QED  BY InitType, StepType, PTL DEF Spec

-----------------------------------------------------------------------------
(* The blocks of the kernel.                                               *)

\* What a task is about to take lies above the reserved blocks, whether or not
\* it is still free.
JobAbove ==
  \A t \in Tasks : job[t].pc \in {"grow", "whole", "brk"} => job[t].base >= K_MEM_RSVD_BLOCKS

KInv == TypeOK /\ KernelKept /\ JobAbove

LEMMA TakeKeepsKernel ==
  ASSUME TypeOK, KernelKept, NEW p, NEW old, NEW b \in Block, NEW size,
         b >= K_MEM_RSVD_BLOCKS, Take(p, old, b, size)
  PROVE  KernelKept'
<1>1. SUFFICES ASSUME NEW k \in Block, k < K_MEM_RSVD_BLOCKS
               PROVE  blk'[k] = 0
  BY DEF KernelKept
<1>2. b \in Int /\ k \in Int /\ K_MEM_RSVD_BLOCKS \in Int
  BY MemAssumption DEF Block
<1>3. k \notin Run(b, Blocks(size))  BY <1>1, <1>2, BlocksNat DEF Run
<1> QED  BY <1>1, <1>3 DEF Take, KernelKept

LEMMA GoneKeepsKernel ==
  ASSUME KernelKept, NEW p, Gone(p)
  PROVE  KernelKept'
BY DEF KernelKept, Gone

LEMMA StepKernel == KInv /\ [Next]_vars => KInv'
<1> SUFFICES ASSUME KInv, [Next]_vars PROVE KInv'  OBVIOUS
<1>a. TypeOK /\ KernelKept /\ JobAbove  BY DEF KInv
<1>b. TypeOK'  BY <1>a, StepType
<1>c. job \in [Tasks -> JobType]  BY <1>a DEF TypeOK
<1>d. ASSUME KernelKept', JobAbove' PROVE KInv'  BY <1>b, <1>d DEF KInv
<1>e. UNCHANGED job => JobAbove'  BY <1>a DEF JobAbove
<1>f. UNCHANGED blk => KernelKept'  BY <1>a DEF KernelKept
<1>g. ASSUME NEW t \in Tasks, NEW i, Go(t, i),
             i.pc \in {"grow", "whole", "brk"} => i.base >= K_MEM_RSVD_BLOCKS
      PROVE  JobAbove'
  <2> SUFFICES ASSUME NEW u \in Tasks, job'[u].pc \in {"grow", "whole", "brk"}
               PROVE  job'[u].base >= K_MEM_RSVD_BLOCKS
    BY DEF JobAbove
  <2>1. CASE u = t  BY <1>c, <1>g, <2>1 DEF Go
  <2>2. CASE u # t  BY <1>a, <1>c, <1>g, <2>2 DEF Go, JobAbove
  <2> QED  BY <2>1, <2>2
<1>h. ASSUME NEW t \in Tasks, NEW pc, NEW p, NEW s, NEW b, NEW hi,
             Finds(p, s, b), Go(t, Job(pc, p, s, b, hi))
      PROVE  JobAbove'
  <2>1. b >= K_MEM_RSVD_BLOCKS  BY <1>h DEF Finds, Fits
  <2>2. Job(pc, p, s, b, hi).base = b  BY DEF Job
  <2> QED  BY <1>g, <1>h, <2>1, <2>2
<1>i. ASSUME NEW t \in Tasks, job[t].pc \in {"grow", "whole", "brk"}, Realloc(job[t])
      PROVE  KernelKept'
  <2> DEFINE j == job[t]
  <2>1. j.base \in Block /\ j.base >= K_MEM_RSVD_BLOCKS
    BY <1>a, <1>c, <1>i DEF JobAbove, JobType
  <2>2. Take(j.pid, mem[j.pid], j.base, j.size)  BY <1>i DEF Realloc
  <2> HIDE DEF j
  <2> QED  BY <1>a, <2>1, <2>2, TakeKeepsKernel
<1>j. "system" \in Tasks /\ "debug" \in Tasks  BY DEF Tasks
<1>1. CASE UNCHANGED vars  BY <1>1, <1>d, <1>e, <1>f DEF vars
<1>2. ASSUME NEW p \in Users, Start(p) PROVE KInv'
  <2>1. Go("debug", Job("load", p, 0, 0, 0))  BY <1>2 DEF Start
  <2>2. JobAbove'  BY <1>g, <1>j, <2>1 DEF Job
  <2>3. KernelKept'
    <3>1. CASE \E b \in Block : Finds(p, 0, b) /\ blk' = [blk EXCEPT ![b] = p]
      <4>1. PICK b \in Block : Finds(p, 0, b) /\ blk' = [blk EXCEPT ![b] = p]
        BY <3>1
      <4>2. b >= K_MEM_RSVD_BLOCKS  BY <4>1 DEF Finds, Fits
      <4>3. b \in Int /\ K_MEM_RSVD_BLOCKS \in Int /\ Block \subseteq Int
        BY MemAssumption DEF Block
      <4> QED  BY <1>a, <4>1, <4>2, <4>3 DEF KernelKept, TypeOK
    <3>2. CASE UNCHANGED blk  BY <1>f, <3>2
    <3> QED  BY <1>2, <3>1, <3>2 DEF Start
  <2> QED  BY <1>d, <2>2, <2>3
<1>3. ASSUME NEW p \in Users, NEW c \in Users, Fork(p, c) PROVE KInv'
  <2>1. PICK b \in Block :
          Finds(c, mem[p].sz, b) /\ Take(c, Nothing, b, mem[p].sz)
    BY <1>3 DEF Fork
  <2>2. b >= K_MEM_RSVD_BLOCKS  BY <2>1 DEF Finds, Fits
  <2>3. KernelKept'  BY <1>a, <2>1, <2>2, TakeKeepsKernel
  <2> QED  BY <1>3, <1>d, <1>e, <2>3 DEF Fork
<1>4. ASSUME NEW p \in Users, NEW c \in Users, ForkFails(p, c) PROVE KInv'
  BY <1>4, <1>d, <1>e, <1>f DEF ForkFails
<1>5. ASSUME NEW p \in Users, Brk(p) PROVE KInv'
  <2>1. PICK s \in Sizes :
          \/ \E b \in Block : Finds(p, s, b) /\ Go("system", Job("brk", p, s, b, 0))
          \/ Go("system", Job("answer", p, 0, 0, 0))
          \/ Go("system", Job("scan", p, s, 0, 0))
    BY <1>5 DEF Brk
  <2>2. CASE \E b \in Block : Finds(p, s, b) /\ Go("system", Job("brk", p, s, b, 0))
    BY <1>5, <1>d, <1>f, <1>h, <1>j, <2>2 DEF Brk
  <2>3. CASE Go("system", Job("answer", p, 0, 0, 0)) \/ Go("system", Job("scan", p, s, 0, 0))
    <3>1. JobAbove'  BY <1>g, <1>j, <2>3 DEF Job
    <3> QED  BY <1>5, <1>d, <1>f, <3>1 DEF Brk
  <2> QED  BY <2>1, <2>2, <2>3
<1>6. ASSUME NEW p \in Users, Exec(p) PROVE KInv'
  <2>1. JobAbove'  BY <1>6, <1>g, <1>j DEF Exec, Job
  <2> QED  BY <1>6, <1>d, <1>f, <2>1 DEF Exec
<1>7. ASSUME NEW p \in Users, Kill(p) PROVE KInv'
  BY <1>7, <1>a, <1>d, <1>e, GoneKeepsKernel DEF Kill
<1>8. CASE BrkEnds
  <2>1. KernelKept'  BY <1>8, <1>i, <1>j DEF BrkEnds
  <2>2. JobAbove'  BY <1>8, <1>g, <1>j DEF BrkEnds, Job
  <2> QED  BY <1>d, <2>1, <2>2
<1>9. CASE Answers
  <2>1. JobAbove'  BY <1>9, <1>g, <1>j DEF Answers, Rest, Job
  <2> QED  BY <1>9, <1>d, <1>f, <2>1 DEF Answers
<1>10. ASSUME NEW t \in Tasks, Segment(t) PROVE KInv'
  <2> DEFINE j == job[t]
  <2>0. j \in JobType /\ j.pc = "load"  BY <1>10, <1>c DEF Segment
  <2>1. PICK s \in Sizes :
       \/ Go(t, [j EXCEPT !.hi = s])
       \/ \E b \in Block : Finds(j.pid, s, b) /\ Go(t, Job("grow", j.pid, s, b, j.hi))
       \/ Go(t, [j EXCEPT !.pc = "fail"])
       \/ Go(t, Job("scan", j.pid, s, 0, 0))
    BY <1>10 DEF Segment
  <2>2. /\ [j EXCEPT !.hi = s].pc = "load" /\ [j EXCEPT !.pc = "fail"].pc = "fail"
        /\ Job("scan", j.pid, s, 0, 0).pc = "scan"
    BY <2>0 DEF JobType, Job
  <2>3. JobAbove'
    <3>1. CASE \E b \in Block : Finds(j.pid, s, b) /\ Go(t, Job("grow", j.pid, s, b, j.hi))
      BY <1>h, <3>1
    <3>2. CASE \/ Go(t, [j EXCEPT !.hi = s]) \/ Go(t, [j EXCEPT !.pc = "fail"])
               \/ Go(t, Job("scan", j.pid, s, 0, 0))
      BY <1>g, <2>2, <3>2
    <3> QED  BY <2>1, <3>1, <3>2
  <2> QED  BY <1>10, <1>d, <1>f, <2>3 DEF Segment
<1>11. ASSUME NEW t \in Tasks, Grow(t) PROVE KInv'
  <2>1. KernelKept'  BY <1>11, <1>i DEF Grow
  <2>2. JobAbove'  BY <1>11, <1>g DEF Grow, Job
  <2> QED  BY <1>d, <2>1, <2>2
<1>12. ASSUME NEW t \in Tasks, Whole(t) PROVE KInv'
  <2> DEFINE j == job[t]
  <2>0. j \in JobType  BY <1>c
  <2>1. PICK s \in Sizes :
       \/ \E b \in Block : Finds(j.pid, s, b) /\ Go(t, Job("whole", j.pid, s, b, 0))
       \/ Go(t, [j EXCEPT !.pc = "fail"])
       \/ Go(t, Job("scan", j.pid, s, 0, 0))
    BY <1>12 DEF Whole
  <2>2. /\ [j EXCEPT !.pc = "fail"].pc = "fail"
        /\ Job("scan", j.pid, s, 0, 0).pc = "scan"
    BY <2>0 DEF JobType, Job
  <2>3. JobAbove'
    <3>1. CASE \E b \in Block : Finds(j.pid, s, b) /\ Go(t, Job("whole", j.pid, s, b, 0))
      BY <1>h, <3>1
    <3>2. CASE Go(t, [j EXCEPT !.pc = "fail"]) \/ Go(t, Job("scan", j.pid, s, 0, 0))
      BY <1>g, <2>2, <3>2
    <3> QED  BY <2>1, <3>1, <3>2
  <2> QED  BY <1>12, <1>d, <1>f, <2>3 DEF Whole
<1>13. ASSUME NEW t \in Tasks, WholeEnds(t) PROVE KInv'
  <2>1. KernelKept'  BY <1>13, <1>i DEF WholeEnds
  <2>2. Go(t, IF t = "system" THEN Job("answer", job[t].pid, 0, 0, 0) ELSE Rest)
    BY <1>13 DEF WholeEnds
  <2>3. JobAbove'  BY <1>g, <2>2 DEF Job, Rest
  <2> QED  BY <1>d, <2>1, <2>3
<1>14. ASSUME NEW t \in Tasks, BadFile(t) PROVE KInv'
  <2>1. JobAbove'  BY <1>14, <1>c, <1>g DEF BadFile, JobType
  <2> QED  BY <1>14, <1>d, <1>f, <2>1 DEF BadFile
<1>15. ASSUME NEW t \in Tasks, Fails(t) PROVE KInv'
  <2>1. \/ Go(t, Job("answer", job[t].pid, 0, 0, 0)) /\ UNCHANGED blk
        \/ Go(t, Rest) /\ Gone(job[t].pid)
    BY <1>15 DEF Fails
  <2>2. JobAbove'  BY <1>g, <2>1 DEF Rest, Job
  <2>3. KernelKept'  BY <1>a, <1>f, <2>1, GoneKeepsKernel
  <2> QED  BY <1>d, <2>2, <2>3
<1> QED
  BY <1>1, <1>2, <1>3, <1>4, <1>5, <1>6, <1>7, <1>8, <1>9, <1>10, <1>11, <1>12,
     <1>13, <1>14, <1>15 DEF Next

\* Whatever fails, and whoever else allocates, no block of the kernel is ever
\* given away.
THEOREM KernelIsKept == Spec => []KernelKept
<1>1. Init => KInv
  <2> SUFFICES ASSUME Init PROVE KInv  OBVIOUS
  <2>1. TypeOK  BY InitType
  <2>2. PICK p \in Users :
          /\ blk = [k \in Block |-> IF k = K_MEM_RSVD_BLOCKS THEN p ELSE 0]
          /\ job = [t \in Tasks |-> IF t = "system" THEN Job("load", p, 0, 0, 0) ELSE Rest]
    BY DEF Init
  <2>3. KernelKept  BY <2>2, MemAssumption DEF KernelKept
  <2>4. JobAbove  BY <2>2 DEF JobAbove, Job, Rest
  <2> QED  BY <2>1, <2>3, <2>4 DEF KInv
<1>2. KInv => KernelKept  BY DEF KInv
<1> QED  BY <1>1, <1>2, StepKernel, PTL DEF Spec

-----------------------------------------------------------------------------
(* Ownership.                                                              *)

\* What was found is still free when it is taken: until then no other step
\* changes the map, as long as the debug task stays out of it.
JobSound ==
  LET j == job["system"] IN
  /\ job["debug"] = Rest
  /\ j.pc \in {"load", "grow", "whole", "brk"} => j.pid \in live
  /\ j.pc \in {"grow", "whole", "brk"} =>
       Blocks(j.size) # 0 /\ Fits(j.pid, Blocks(j.size), j.base)

OInv == TypeOK /\ Owned /\ JobSound

LEMMA FitsRun ==
  ASSUME TypeOK, NEW p, NEW n \in Nat, NEW b \in Block, Fits(p, n, b),
         NEW k \in Run(b, n)
  PROVE  k \in Block /\ k >= K_MEM_RSVD_BLOCKS /\ blk[k] \in {0, p}
<1>1. b \in Nat /\ K_MEM_RSVD_BLOCKS \in Nat /\ K_MEM_BLOCK_COUNT \in Nat
  BY MemAssumption DEF Block
<1>2. /\ b >= K_MEM_RSVD_BLOCKS /\ b + n <= K_MEM_BLOCK_COUNT
      /\ blk[k] \in {0, p}
  BY DEF Fits
<1> QED  BY <1>1, <1>2 DEF Run, Block

\* The end of mem_realloc takes blocks that are free or the caller's, and gives
\* back none but the caller's.
LEMMA ReallocOwned ==
  ASSUME TypeOK, Owned, NEW j \in JobType, j.pid \in live,
         Fits(j.pid, Blocks(j.size), j.base), Realloc(j), live' = live
  PROVE  Owned'
<1> DEFINE p == j.pid  n == Blocks(j.size)
<1>1. /\ j.base \in Block /\ n \in Nat /\ p \in Users /\ live \subseteq Users
      /\ blk \in [Block -> Owner] /\ mem \in [Users -> [ad : Block, sz : Nat]]
  BY BlocksNat DEF JobType, TypeOK
<1>2. \A k \in Run(j.base, n) : k \in Block /\ k >= K_MEM_RSVD_BLOCKS /\ blk[k] \in {0, p}
  BY <1>1, FitsRun
<1>3. SUFFICES ASSUME NEW q \in live, NEW k \in Region(q)'
               PROVE  k >= K_MEM_RSVD_BLOCKS /\ k \in Block /\ blk'[k] = q
  BY DEF Owned
<1>4. CASE q = p
  <2>1. k \in Run(j.base, n)  BY <1>1, <1>3, <1>4 DEF Region, Realloc
  <2> QED  BY <1>2, <1>4, <2>1 DEF Realloc, Take
<1>5. CASE q # p
  <2>1. k \in Region(q)  BY <1>1, <1>3, <1>5 DEF Region, Realloc
  <2>2. k >= K_MEM_RSVD_BLOCKS /\ k \in Block /\ blk[k] = q  BY <2>1 DEF Owned
  <2>3. k \notin Run(j.base, n)
    BY <1>1, <1>2, <1>5, <2>2, BlockFacts
  <2>4. k \notin Run(mem[p].ad, Blocks(mem[p].sz))
    BY <1>5, <2>2 DEF Owned, Region
  <2> QED  BY <2>2, <2>3, <2>4 DEF Realloc, Take
<1> QED  BY <1>4, <1>5

\* fork takes blocks that nobody owns.
LEMMA ForkOwned ==
  ASSUME TypeOK, Owned, NEW p \in Users, NEW c \in Users, Fork(p, c)
  PROVE  Owned'
<1>1. PICK b \in Block :
        /\ Fits(c, Blocks(mem[p].sz), b)
        /\ Take(c, Nothing, b, mem[p].sz)
        /\ mem' = [mem EXCEPT ![c] = [ad |-> b, sz |-> mem[p].sz]]
  BY DEF Fork, Finds
<1> DEFINE n == Blocks(mem[p].sz)
<1>2. /\ n \in Nat /\ live \subseteq Users /\ c \notin live /\ live' = live \cup {c}
      /\ mem \in [Users -> [ad : Block, sz : Nat]]
  BY BlocksNat DEF TypeOK, Fork, FreeSlot
<1>3. \A k \in Run(b, n) : k \in Block /\ k >= K_MEM_RSVD_BLOCKS /\ blk[k] \in {0, c}
  BY <1>1, <1>2, FitsRun
<1>4. blk' = [k \in Block |-> IF k \in Run(b, n) THEN c ELSE blk[k]]
  BY <1>1 DEF Take, Moves, Nothing
<1>5. SUFFICES ASSUME NEW q \in live', NEW k \in Region(q)'
               PROVE  k >= K_MEM_RSVD_BLOCKS /\ k \in Block /\ blk'[k] = q
  BY DEF Owned
<1>6. CASE q = c
  <2>1. k \in Run(b, n)  BY <1>1, <1>2, <1>5, <1>6 DEF Region
  <2> QED  BY <1>3, <1>4, <1>6, <2>1
<1>7. CASE q # c
  <2>1. q \in live /\ k \in Region(q)  BY <1>1, <1>2, <1>5, <1>7 DEF Region
  <2>2. k >= K_MEM_RSVD_BLOCKS /\ k \in Block /\ blk[k] = q  BY <2>1 DEF Owned
  <2>3. k \notin Run(b, n)  BY <1>2, <1>3, <1>7, <2>1, <2>2, BlockFacts
  <2> QED  BY <1>4, <2>2, <2>3
<1> QED  BY <1>6, <1>7

\* kill gives back the blocks of the process that goes.
LEMMA KillOwned ==
  ASSUME TypeOK, Owned, NEW p \in Users, Kill(p)
  PROVE  Owned'
<1>1. /\ blk' = [k \in Block |-> IF k \in Region(p) THEN 0 ELSE blk[k]]
      /\ mem' = [mem EXCEPT ![p] = Nothing]
      /\ live' = live \ {p} /\ p \in live
  BY DEF Kill, Gone, Traps
<1>2. SUFFICES ASSUME NEW q \in live', NEW k \in Region(q)'
               PROVE  k >= K_MEM_RSVD_BLOCKS /\ k \in Block /\ blk'[k] = q
  BY DEF Owned
<1>3. q \in live /\ q # p /\ k \in Region(q)
  BY <1>1, <1>2 DEF Region, TypeOK
<1>4. k >= K_MEM_RSVD_BLOCKS /\ k \in Block /\ blk[k] = q  BY <1>3 DEF Owned
<1>5. k \notin Region(p)  BY <1>1, <1>3, <1>4 DEF Owned
<1> QED  BY <1>1, <1>4, <1>5

LEMMA SameOwned == Owned /\ UNCHANGED <<blk, mem, live>> => Owned'
BY DEF Owned, Region

LEMMA InitOwned == Init => OInv
<1> SUFFICES ASSUME Init PROVE OInv  OBVIOUS
<1>1. TypeOK  BY InitType
<1>2. PICK p \in Users :
        /\ live = {p}
        /\ blk = [k \in Block |-> IF k = K_MEM_RSVD_BLOCKS THEN p ELSE 0]
        /\ mem = [q \in Users |-> IF q = p THEN [ad |-> K_MEM_RSVD_BLOCKS, sz |-> 0] ELSE Nothing]
        /\ job = [t \in Tasks |-> IF t = "system" THEN Job("load", p, 0, 0, 0) ELSE Rest]
  BY DEF Init
<1>3. Region(p) = {K_MEM_RSVD_BLOCKS}
  BY <1>2, OneBlock, MemAssumption DEF Region, Run
<1>4. Owned
  BY <1>2, <1>3, BlockFacts, MemAssumption DEF Owned
<1>5. JobSound  BY <1>2 DEF JobSound, Job, Tasks
<1> QED  BY <1>1, <1>4, <1>5 DEF OInv

LEMMA StepOwned ==
  ASSUME Allowed \cap {"full", "debug"} = {}
  PROVE  OInv /\ [Next]_vars => OInv'
<1> SUFFICES ASSUME OInv, [Next]_vars PROVE OInv'  OBVIOUS
<1> DEFINE j == job["system"]
<1>a. TypeOK /\ Owned /\ JobSound  BY DEF OInv
<1>b. TypeOK'  BY <1>a, StepType
<1>c. j \in JobType /\ live \subseteq Users /\ job \in [Tasks -> JobType]
  BY <1>a DEF TypeOK, Tasks
<1>d. ASSUME Owned', JobSound' PROVE OInv'  BY <1>b, <1>d DEF OInv
<1>e. ASSUME UNCHANGED job, Idle("system") PROVE JobSound'
  BY <1>a, <1>e DEF JobSound, Idle
<1>f. ASSUME NEW i, Go("system", i), i.pc \in {"idle", "answer", "scan", "fail"}
      PROVE  JobSound'
  BY <1>a, <1>c, <1>f DEF JobSound, Go, Tasks
<1>g. ASSUME NEW i, Go("system", i), i.pc = "load", i.pid \in live'
      PROVE  JobSound'
  BY <1>a, <1>c, <1>g DEF JobSound, Go, Tasks
<1>h. ASSUME NEW pc \in {"grow", "whole", "brk"}, NEW p \in live, NEW s,
             NEW b \in Block, NEW hi, Finds(p, s, b),
             Go("system", Job(pc, p, s, b, hi)), UNCHANGED <<blk, live>>
      PROVE  JobSound'
  <2> DEFINE i == Job(pc, p, s, b, hi)
  <2>1. i.pc = pc /\ i.pid = p /\ i.size = s /\ i.base = b  BY DEF Job
  <2>2. job'["system"] = i /\ job'["debug"] = Rest
    BY <1>a, <1>c, <1>h DEF JobSound, Go, Tasks
  <2>3. Blocks(s) # 0 /\ Fits(p, Blocks(s), b)'
    BY <1>h DEF Finds, Fits
  <2> HIDE DEF i
  <2> QED  BY <1>h, <2>1, <2>2, <2>3 DEF JobSound
<1>i. \A t \in Tasks : job[t].pc # "idle" => t = "system"
  BY <1>a DEF JobSound, Rest, Job, Tasks
<1>j. ASSUME j.pc \in {"grow", "whole", "brk"}, Realloc(j), UNCHANGED live
      PROVE  Owned'
  BY <1>a, <1>c, <1>j, ReallocOwned DEF JobSound
<1>1. CASE UNCHANGED vars
  <2>1. JobSound'  BY <1>1, <1>a DEF vars, JobSound, Fits
  <2> QED  BY <1>1, <1>a, <1>d, <2>1, SameOwned DEF vars
<1>2. ASSUME NEW p \in Users, Start(p) PROVE FALSE
  BY <1>2 DEF Start
<1>3. ASSUME NEW p \in Users, NEW c \in Users, Fork(p, c) PROVE OInv'
  BY <1>3, <1>a, <1>d, <1>e, ForkOwned DEF Fork, Traps
<1>4. ASSUME NEW p \in Users, NEW c \in Users, ForkFails(p, c) PROVE FALSE
  BY <1>4 DEF ForkFails
<1>5. ASSUME NEW p \in Users, Brk(p) PROVE OInv'
  <2>1. PICK s \in Sizes :
          /\ p \in live
          /\ \/ \E b \in Block : Finds(p, s, b) /\ Go("system", Job("brk", p, s, b, 0))
             \/ Go("system", Job("answer", p, 0, 0, 0))
             \/ Go("system", Job("scan", p, s, 0, 0))
          /\ UNCHANGED <<blk, mem, live>>
    BY <1>5 DEF Brk, Traps
  <2>2. JobSound'
    <3>1. CASE \E b \in Block : Finds(p, s, b) /\ Go("system", Job("brk", p, s, b, 0))
      BY <1>h, <2>1, <3>1
    <3>2. CASE Go("system", Job("answer", p, 0, 0, 0))
      BY <1>f, <3>2 DEF Job
    <3>3. CASE Go("system", Job("scan", p, s, 0, 0))
      BY <1>f, <3>3 DEF Job
    <3> QED  BY <2>1, <3>1, <3>2, <3>3
  <2> QED  BY <1>a, <1>d, <2>1, <2>2, SameOwned
<1>6. ASSUME NEW p \in Users, Exec(p) PROVE OInv'
  <2>1. JobSound'  BY <1>6, <1>g DEF Exec, Traps, Job
  <2> QED  BY <1>6, <1>a, <1>d, <2>1, SameOwned DEF Exec
<1>7. ASSUME NEW p \in Users, Kill(p) PROVE OInv'
  BY <1>7, <1>a, <1>d, <1>e, KillOwned DEF Kill, Traps
<1>8. CASE BrkEnds
  <2>1. Owned'  BY <1>8, <1>j DEF BrkEnds
  <2>2. JobSound'  BY <1>8, <1>f DEF BrkEnds, Job
  <2> QED  BY <1>d, <2>1, <2>2
<1>9. CASE Answers
  <2>1. JobSound'  BY <1>9, <1>f DEF Answers, Rest, Job
  <2> QED  BY <1>9, <1>a, <1>d, <2>1, SameOwned DEF Answers
<1>10. ASSUME Segment("system") PROVE OInv'
  <2>0. j.pc = "load" /\ j.pid \in live /\ UNCHANGED <<blk, mem, live>>
    BY <1>10, <1>a DEF Segment, JobSound
  <2>1. PICK s \in Sizes :
       \/ Go("system", [j EXCEPT !.hi = s])
       \/ \E b \in Block : Finds(j.pid, s, b) /\ Go("system", Job("grow", j.pid, s, b, j.hi))
       \/ Go("system", [j EXCEPT !.pc = "fail"])
       \/ Go("system", Job("scan", j.pid, s, 0, 0))
    BY <1>10 DEF Segment
  <2>2. JobSound'
    <3>1. CASE Go("system", [j EXCEPT !.hi = s])
      <4>1. [j EXCEPT !.hi = s].pc = "load" /\ [j EXCEPT !.hi = s].pid \in live'
        BY <1>c, <2>0 DEF JobType
      <4> QED  BY <1>g, <3>1, <4>1
    <3>2. CASE \E b \in Block : Finds(j.pid, s, b) /\ Go("system", Job("grow", j.pid, s, b, j.hi))
      BY <1>h, <2>0, <3>2
    <3>3. CASE Go("system", [j EXCEPT !.pc = "fail"])
      BY <1>c, <1>f, <3>3 DEF JobType
    <3>4. CASE Go("system", Job("scan", j.pid, s, 0, 0))
      BY <1>f, <3>4 DEF Job
    <3> QED  BY <2>1, <3>1, <3>2, <3>3, <3>4
  <2> QED  BY <1>a, <1>d, <2>0, <2>2, SameOwned
<1>11. ASSUME Grow("system") PROVE OInv'
  <2>1. Owned'  BY <1>11, <1>j DEF Grow
  <2>2. j.pid \in live'  BY <1>11, <1>a DEF Grow, JobSound
  <2>3. JobSound'  BY <1>11, <1>g, <2>2 DEF Grow, Job
  <2> QED  BY <1>d, <2>1, <2>3
<1>12. ASSUME Whole("system") PROVE OInv'
  <2>0. j.pc = "load" /\ j.pid \in live /\ UNCHANGED <<blk, live>>
    BY <1>12, <1>a DEF Whole, JobSound
  <2>1. PICK s \in Sizes :
       /\ \/ \E b \in Block : Finds(j.pid, s, b) /\ Go("system", Job("whole", j.pid, s, b, 0))
          \/ Go("system", Job("scan", j.pid, s, 0, 0))
       /\ UNCHANGED mem
    BY <1>12 DEF Whole
  <2>2. JobSound'
    <3>1. CASE \E b \in Block : Finds(j.pid, s, b) /\ Go("system", Job("whole", j.pid, s, b, 0))
      BY <1>h, <2>0, <3>1
    <3>2. CASE Go("system", Job("scan", j.pid, s, 0, 0))
      BY <1>f, <3>2 DEF Job
    <3> QED  BY <2>1, <3>1, <3>2
  <2> QED  BY <1>a, <1>d, <2>0, <2>1, <2>2, SameOwned
<1>13. ASSUME WholeEnds("system") PROVE OInv'
  <2>1. Owned'  BY <1>13, <1>j DEF WholeEnds
  <2>2. JobSound'  BY <1>13, <1>f DEF WholeEnds, Job
  <2> QED  BY <1>d, <2>1, <2>2
<1>14. ASSUME BadFile("system") PROVE OInv'
  <2>1. JobSound'  BY <1>14, <1>c, <1>f DEF BadFile, JobType
  <2> QED  BY <1>14, <1>a, <1>d, <2>1, SameOwned DEF BadFile
<1>15. ASSUME Fails("system") PROVE OInv'
  <2>1. JobSound'  BY <1>15, <1>f DEF Fails, Job
  <2> QED  BY <1>15, <1>a, <1>d, <2>1, SameOwned DEF Fails
<1>16. ASSUME NEW t \in Tasks,
              \/ Segment(t) \/ Grow(t) \/ Whole(t) \/ WholeEnds(t)
              \/ BadFile(t) \/ Fails(t)
       PROVE  t = "system"
  BY <1>i, <1>16 DEF Segment, Grow, Whole, WholeEnds, BadFile, Fails
<1> QED
  BY <1>1, <1>2, <1>3, <1>4, <1>5, <1>6, <1>7, <1>8, <1>9, <1>10, <1>11, <1>12,
     <1>13, <1>14, <1>15, <1>16 DEF Next

\* Unless an allocation fails in fork or at the end of exec, or the debug shell
\* starts a program meanwhile, every process owns all the blocks that the MMU
\* maps for it, and none is the kernel's.
THEOREM ProcessesOwnTheirBlocks ==
  ASSUME Allowed \cap {"full", "debug"} = {}
  PROVE  Spec => []Owned
<1>1. OInv /\ [Next]_vars => OInv'  BY StepOwned
<1>2. OInv => Owned  BY DEF OInv
<1> QED  BY InitOwned, <1>1, <1>2, PTL DEF Spec

-----------------------------------------------------------------------------
(* No block is lost.                                                       *)

\* A reallocation that is under way asks for at least what the process has.
JobGrows ==
  LET j == job["system"] IN
  j.pc \in {"grow", "whole", "brk"} => mem[j.pid].sz <= j.size

LInv == OInv /\ NoLeak /\ JobGrows

\* A process has no block at 0, so one that has blocks moves or stays.
LEMMA OwnBase ==
  ASSUME TypeOK, Owned, NEW p \in live, NEW k \in Region(p)
  PROVE  mem[p].ad # 0
<1>1. mem[p].ad \in Nat /\ Blocks(mem[p].sz) \in Nat
  BY BlocksNat, MemAssumption DEF TypeOK, Block
<1>2. mem[p].ad \in Region(p)  BY <1>1 DEF Region, Run
<1> QED  BY <1>1, <1>2, MemAssumption DEF Owned

\* The end of mem_realloc, if it does not shrink, gives back all that it leaves.
LEMMA ReallocNoLeak ==
  ASSUME TypeOK, Owned, NoLeak, NEW j \in JobType, j.pid \in live,
         Blocks(j.size) # 0, mem[j.pid].sz <= j.size,
         Realloc(j), live' = live
  PROVE  NoLeak'
<1> DEFINE p == j.pid  n == Blocks(j.size)  o == Blocks(mem[p].sz)
<1>1. /\ j.base \in Nat /\ j.size \in Nat /\ p \in Users
      /\ mem[p].sz \in Nat /\ mem[p].ad \in Nat
      /\ mem \in [Users -> [ad : Block, sz : Nat]]
  <2>1. Block \subseteq Nat  BY MemAssumption DEF Block
  <2>2. j.base \in Block /\ j.size \in Nat  BY DEF JobType
  <2>3. p \in Users /\ mem \in [Users -> [ad : Block, sz : Nat]]  BY DEF TypeOK
  <2> QED  BY <2>1, <2>2, <2>3
<1>2. n \in Nat /\ o \in Nat /\ o <= n
  BY <1>1, BlocksNat, BlocksGrow
<1>3. SUFFICES ASSUME NEW k \in Block, NEW q, q = blk'[k], q # 0
               PROVE  q \in live /\ k \in Region(q)'
  BY DEF NoLeak, Region
<1>4. CASE k \in Run(j.base, n)
  BY <1>1, <1>3, <1>4 DEF Realloc, Take, Region
<1>5. CASE k \notin Run(j.base, n)
  <2>1. q = blk[k] /\ (Moves(mem[p], j.base) => k \notin Region(p))
    BY <1>3, <1>5 DEF Realloc, Take, Region
  <2>2. q \in live /\ k \in Region(q)  BY <1>3, <2>1 DEF NoLeak
  <2>3. q # p
    <3> SUFFICES ASSUME q = p PROVE FALSE  OBVIOUS
    <3>1. k \in Region(p)  BY <2>2
    <3>2. mem[p].ad # 0  BY <3>1, OwnBase
    <3>3. mem[p].ad = j.base  BY <2>1, <3>1, <3>2 DEF Moves
    <3>4. k \in Run(j.base, o)  BY <3>1, <3>3 DEF Region
    <3>5. k \in Run(j.base, n)
      <4> HIDE DEF n, o
      <4> QED  BY <1>1, <1>2, <3>4 DEF Run
    <3> QED  BY <1>5, <3>5
  <2>4. mem'[q] = mem[q]  BY <1>1, <2>2, <2>3 DEF Realloc, TypeOK
  <2> QED  BY <2>2, <2>4 DEF Region
<1> QED  BY <1>4, <1>5

LEMMA ForkNoLeak ==
  ASSUME TypeOK, NoLeak, NEW p \in Users, NEW c \in Users, Fork(p, c)
  PROVE  NoLeak'
<1>1. PICK b \in Block :
        /\ Take(c, Nothing, b, mem[p].sz)
        /\ mem' = [mem EXCEPT ![c] = [ad |-> b, sz |-> mem[p].sz]]
  BY DEF Fork
<1>2. /\ c \notin live /\ live' = live \cup {c} /\ live \subseteq Users
      /\ mem \in [Users -> [ad : Block, sz : Nat]]
  BY DEF TypeOK, Fork, FreeSlot
<1>3. SUFFICES ASSUME NEW k \in Block, NEW q, q = blk'[k], q # 0
               PROVE  q \in live' /\ k \in Region(q)'
  BY DEF NoLeak, Region
<1>4. CASE k \in Run(b, Blocks(mem[p].sz))
  BY <1>1, <1>2, <1>3, <1>4 DEF Take, Region
<1>5. CASE k \notin Run(b, Blocks(mem[p].sz))
  <2>1. q = blk[k]  BY <1>1, <1>3, <1>5 DEF Take, Moves, Nothing
  <2>2. q \in live /\ k \in Region(q)  BY <1>3, <2>1 DEF NoLeak
  <2>3. mem'[q] = mem[q]  BY <1>1, <1>2, <2>2
  <2> QED  BY <1>2, <2>2, <2>3 DEF Region
<1> QED  BY <1>4, <1>5

LEMMA KillNoLeak ==
  ASSUME TypeOK, NoLeak, NEW p \in Users, Kill(p)
  PROVE  NoLeak'
<1>1. /\ blk' = [k \in Block |-> IF k \in Region(p) THEN 0 ELSE blk[k]]
      /\ mem' = [mem EXCEPT ![p] = Nothing]
      /\ live' = live \ {p} /\ live \subseteq Users
      /\ mem \in [Users -> [ad : Block, sz : Nat]]
  BY DEF Kill, Gone, TypeOK
<1>2. SUFFICES ASSUME NEW k \in Block, NEW q, q = blk'[k], q # 0
               PROVE  q \in live' /\ k \in Region(q)'
  BY DEF NoLeak, Region
<1>3. q = blk[k] /\ k \notin Region(p)  BY <1>1, <1>2
<1>4. q \in live /\ k \in Region(q)  BY <1>2, <1>3 DEF NoLeak
<1>5. q # p  BY <1>3, <1>4
<1>6. mem'[q] = mem[q]  BY <1>1, <1>4, <1>5
<1> QED  BY <1>1, <1>4, <1>5, <1>6 DEF Region

LEMMA SameNoLeak == NoLeak /\ UNCHANGED <<blk, mem, live>> => NoLeak'
BY DEF NoLeak, Region

LEMMA InitNoLeak == Init => LInv
<1> SUFFICES ASSUME Init PROVE LInv  OBVIOUS
<1>1. OInv  BY InitOwned
<1>2. PICK p \in Users :
        /\ live = {p}
        /\ blk = [k \in Block |-> IF k = K_MEM_RSVD_BLOCKS THEN p ELSE 0]
        /\ mem = [q \in Users |-> IF q = p THEN [ad |-> K_MEM_RSVD_BLOCKS, sz |-> 0] ELSE Nothing]
        /\ job = [t \in Tasks |-> IF t = "system" THEN Job("load", p, 0, 0, 0) ELSE Rest]
  BY DEF Init
<1>3. Region(p) = {K_MEM_RSVD_BLOCKS}
  BY <1>2, OneBlock, MemAssumption DEF Region, Run
<1>4. NoLeak  BY <1>2, <1>3, BlockFacts DEF NoLeak
<1>5. JobGrows  BY <1>2 DEF JobGrows, Job, Tasks
<1> QED  BY <1>1, <1>4, <1>5 DEF LInv

LEMMA StepNoLeak ==
  ASSUME Allowed \cap {"full", "debug", "shrink"} = {}
  PROVE  LInv /\ [Next]_vars => LInv'
<1> SUFFICES ASSUME LInv, [Next]_vars PROVE LInv'  OBVIOUS
<1> DEFINE j == job["system"]
<1>a. OInv /\ TypeOK /\ Owned /\ JobSound /\ NoLeak /\ JobGrows
  BY DEF LInv, OInv
<1>b. OInv'  BY <1>a, StepOwned
<1>c. j \in JobType /\ live \subseteq Users /\ job \in [Tasks -> JobType]
  BY <1>a DEF TypeOK, Tasks
<1>d. ASSUME NoLeak', JobGrows' PROVE LInv'  BY <1>b, <1>d DEF LInv
<1>e. ASSUME UNCHANGED job, Idle("system") PROVE JobGrows'
  BY <1>e DEF JobGrows, Idle
<1>f. ASSUME NEW i, Go("system", i), i.pc \in {"idle", "answer", "scan", "fail", "load"}
      PROVE  JobGrows'
  BY <1>c, <1>f DEF JobGrows, Go, Tasks
<1>g. ASSUME NEW pc, NEW p, NEW s, NEW b, NEW hi, mem[p].sz <= s,
             Go("system", Job(pc, p, s, b, hi)), UNCHANGED mem
      PROVE  JobGrows'
  <2> DEFINE i == Job(pc, p, s, b, hi)
  <2>1. i.pid = p /\ i.size = s  BY DEF Job
  <2>2. job'["system"] = i  BY <1>c, <1>g DEF Go, Tasks
  <2> HIDE DEF i
  <2> QED  BY <1>g, <2>1, <2>2 DEF JobGrows
<1>h. \A t \in Tasks : job[t].pc # "idle" => t = "system"
  BY <1>a DEF JobSound, Rest, Job, Tasks
<1>i. ASSUME j.pc \in {"grow", "whole", "brk"}, Realloc(j), UNCHANGED live
      PROVE  NoLeak'
  BY <1>a, <1>c, <1>i, ReallocNoLeak DEF JobSound, JobGrows
<1>j. ASSUME NEW s \in Sizes PROVE s \in Nat  BY MemAssumption
<1>1. CASE UNCHANGED vars
  BY <1>1, <1>a, <1>d, SameNoLeak DEF vars, JobGrows
<1>2. ASSUME NEW p \in Users, Start(p) PROVE FALSE
  BY <1>2 DEF Start
<1>3. ASSUME NEW p \in Users, NEW c \in Users, Fork(p, c) PROVE LInv'
  BY <1>3, <1>a, <1>d, <1>e, ForkNoLeak DEF Fork, Traps
<1>4. ASSUME NEW p \in Users, NEW c \in Users, ForkFails(p, c) PROVE FALSE
  BY <1>4 DEF ForkFails
<1>5. ASSUME NEW p \in Users, Brk(p) PROVE LInv'
  <2>1. PICK s \in Sizes :
          /\ s >= mem[p].sz /\ p \in live
          /\ \/ \E b \in Block : Go("system", Job("brk", p, s, b, 0))
             \/ Go("system", Job("answer", p, 0, 0, 0))
             \/ Go("system", Job("scan", p, s, 0, 0))
          /\ UNCHANGED <<blk, mem, live>>
    BY <1>5 DEF Brk, Traps
  <2>2. mem[p].sz <= s  BY <1>a, <1>j, <2>1 DEF TypeOK
  <2>3. JobGrows'
    <3>1. CASE \E b \in Block : Go("system", Job("brk", p, s, b, 0))
      BY <1>g, <2>1, <2>2, <3>1
    <3>2. CASE Go("system", Job("answer", p, 0, 0, 0))
      BY <1>f, <3>2 DEF Job
    <3>3. CASE Go("system", Job("scan", p, s, 0, 0))
      BY <1>f, <3>3 DEF Job
    <3> QED  BY <2>1, <3>1, <3>2, <3>3
  <2> QED  BY <1>a, <1>d, <2>1, <2>3, SameNoLeak
<1>6. ASSUME NEW p \in Users, Exec(p) PROVE LInv'
  <2>1. JobGrows'  BY <1>6, <1>f DEF Exec, Job
  <2> QED  BY <1>6, <1>a, <1>d, <2>1, SameNoLeak DEF Exec
<1>7. ASSUME NEW p \in Users, Kill(p) PROVE LInv'
  BY <1>7, <1>a, <1>d, <1>e, KillNoLeak DEF Kill, Traps
<1>8. CASE BrkEnds
  <2>1. NoLeak'  BY <1>8, <1>i DEF BrkEnds
  <2>2. JobGrows'  BY <1>8, <1>f DEF BrkEnds, Job
  <2> QED  BY <1>d, <2>1, <2>2
<1>9. CASE Answers
  <2>1. JobGrows'  BY <1>9, <1>f DEF Answers, Rest, Job
  <2> QED  BY <1>9, <1>a, <1>d, <2>1, SameNoLeak DEF Answers
<1>10. ASSUME Segment("system") PROVE LInv'
  <2>0. j.pc = "load" /\ j.pid \in live /\ UNCHANGED <<blk, mem, live>>
    BY <1>10, <1>a DEF Segment, JobSound
  <2>1. PICK s \in Sizes :
       \/ Go("system", [j EXCEPT !.hi = s])
       \/ s > mem[j.pid].sz /\ \E b \in Block : Go("system", Job("grow", j.pid, s, b, j.hi))
       \/ Go("system", [j EXCEPT !.pc = "fail"])
       \/ Go("system", Job("scan", j.pid, s, 0, 0))
    BY <1>10 DEF Segment
  <2>2. s \in Nat /\ mem[j.pid].sz \in Nat
    BY <1>a, <1>c, <1>j, <2>0 DEF TypeOK
  <2>3. JobGrows'
    <3>1. CASE Go("system", [j EXCEPT !.hi = s])
      BY <1>c, <1>f, <2>0, <3>1 DEF JobType
    <3>2. CASE s > mem[j.pid].sz /\ \E b \in Block : Go("system", Job("grow", j.pid, s, b, j.hi))
      BY <1>g, <2>0, <2>2, <3>2
    <3>3. CASE Go("system", [j EXCEPT !.pc = "fail"])
      BY <1>c, <1>f, <3>3 DEF JobType
    <3>4. CASE Go("system", Job("scan", j.pid, s, 0, 0))
      BY <1>f, <3>4 DEF Job
    <3> QED  BY <2>1, <3>1, <3>2, <3>3, <3>4
  <2> QED  BY <1>a, <1>d, <2>0, <2>3, SameNoLeak
<1>11. ASSUME Grow("system") PROVE LInv'
  <2>1. NoLeak'  BY <1>11, <1>i DEF Grow
  <2>2. JobGrows'  BY <1>11, <1>f DEF Grow, Job
  <2> QED  BY <1>d, <2>1, <2>2
<1>12. ASSUME Whole("system") PROVE LInv'
  <2>0. j.pc = "load" /\ j.pid \in live /\ UNCHANGED <<blk, live>>
    BY <1>12, <1>a DEF Whole, JobSound
  <2>1. PICK s \in Sizes :
       /\ s >= mem[j.pid].sz
       /\ \/ \E b \in Block : Go("system", Job("whole", j.pid, s, b, 0))
          \/ Go("system", Job("scan", j.pid, s, 0, 0))
       /\ UNCHANGED mem
    BY <1>12 DEF Whole
  <2>2. s \in Nat /\ mem[j.pid].sz \in Nat
    BY <1>a, <1>c, <1>j, <2>0 DEF TypeOK
  <2>3. JobGrows'
    <3>1. CASE \E b \in Block : Go("system", Job("whole", j.pid, s, b, 0))
      BY <1>g, <2>1, <2>2, <3>1
    <3>2. CASE Go("system", Job("scan", j.pid, s, 0, 0))
      BY <1>f, <3>2 DEF Job
    <3> QED  BY <2>1, <3>1, <3>2
  <2> QED  BY <1>a, <1>d, <2>0, <2>1, <2>3, SameNoLeak
<1>13. ASSUME WholeEnds("system") PROVE LInv'
  <2>1. NoLeak'  BY <1>13, <1>i DEF WholeEnds
  <2>2. JobGrows'  BY <1>13, <1>f DEF WholeEnds, Job
  <2> QED  BY <1>d, <2>1, <2>2
<1>14. ASSUME BadFile("system") PROVE LInv'
  <2>1. JobGrows'  BY <1>14, <1>c, <1>f DEF BadFile, JobType
  <2> QED  BY <1>14, <1>a, <1>d, <2>1, SameNoLeak DEF BadFile
<1>15. ASSUME Fails("system") PROVE LInv'
  <2>1. JobGrows'  BY <1>15, <1>f DEF Fails, Job
  <2> QED  BY <1>15, <1>a, <1>d, <2>1, SameNoLeak DEF Fails
<1>16. ASSUME NEW t \in Tasks,
              \/ Segment(t) \/ Grow(t) \/ Whole(t) \/ WholeEnds(t)
              \/ BadFile(t) \/ Fails(t)
       PROVE  t = "system"
  BY <1>h, <1>16 DEF Segment, Grow, Whole, WholeEnds, BadFile, Fails
<1> QED
  BY <1>1, <1>2, <1>3, <1>4, <1>5, <1>6, <1>7, <1>8, <1>9, <1>10, <1>11, <1>12,
     <1>13, <1>14, <1>15, <1>16 DEF Next

\* As long as, besides, no process asks for less memory than it has, every
\* block that is marked as owned belongs to a living process.
THEOREM NoBlockIsLost ==
  ASSUME Allowed \cap {"full", "debug", "shrink"} = {}
  PROVE  Spec => []NoLeak
<1>1. LInv /\ [Next]_vars => LInv'  BY StepNoLeak
<1>2. LInv => NoLeak  BY DEF LInv
<1> QED  BY InitNoLeak, <1>1, <1>2, PTL DEF Spec

-----------------------------------------------------------------------------
(* Contents.                                                               *)

\* What a move copies stays in the run it moves to, if that is no smaller than
\* what the process had.
LEMMA SpanInRun ==
  ASSUME NEW b \in Block, NEW old \in Nat, NEW size \in Nat, old <= size, Blocks(size) # 0,
         NEW k \in Span(b, old)
  PROVE  k \in Run(b, Blocks(size))
<1>1. PICK n \in Nat : n = Blocks(size) /\ size <= n * BLOCK
  BY BlocksLeast, BlocksNat DEF Enough
<1>2. k \in Int /\ b \in Int /\ k >= b /\ (k - b) * BLOCK < old
  BY MemAssumption DEF Span, Block
<1>3. PICK d \in Nat : d = k - b  BY <1>2
<1>4. d < n
  <2> SUFFICES ASSUME d >= n PROVE FALSE  BY <1>1, <1>3
  <2>1. PICK e \in Nat : e = d - n  BY <1>1, <1>3
  <2>2. d * BLOCK = n * BLOCK + e * BLOCK /\ e * BLOCK >= 0 /\ n * BLOCK \in Nat
    <3>1. d = n + e  BY <1>1, <1>3, <2>1
    <3> QED  BY <1>1, <2>1, <3>1, MemAssumption
  <2>3. d * BLOCK < size  BY <1>2, <1>3, MemAssumption
  <2> QED  BY <1>1, <2>2, <2>3, MemAssumption
<1> QED  BY <1>1, <1>2, <1>3, <1>4 DEF Run

\* The end of mem_realloc, if it does not shrink, writes into no block that is
\* not the caller's then.
LEMMA ReallocOwnData ==
  ASSUME TypeOK, Owned, OwnData, NEW j \in JobType, j.pid \in live,
         Blocks(j.size) # 0, mem[j.pid].sz <= j.size,
         Fits(j.pid, Blocks(j.size), j.base), Realloc(j), live' = live
  PROVE  OwnData'
<1> DEFINE p == j.pid  n == Blocks(j.size)
<1>1. /\ j.base \in Block /\ n \in Nat /\ p \in Users /\ live \subseteq Users
      /\ j.size \in Nat /\ mem[p].sz \in Nat
      /\ mem \in [Users -> [ad : Block, sz : Nat]]
  BY BlocksNat DEF JobType, TypeOK
<1>2. \A k \in Run(j.base, n) : k \in Block /\ blk[k] \in {0, p}
  BY <1>1, FitsRun
<1>3. \A k \in Span(j.base, mem[p].sz) : k \in Run(j.base, n)
  BY <1>1, SpanInRun
<1>4. ram' = [k \in Block |-> IF k \in Run(j.base, n) THEN p ELSE ram[k]]
  BY <1>3 DEF Realloc, Fill
<1>5. SUFFICES ASSUME NEW q \in live, NEW k \in Region(q)' PROVE ram'[k] = q
  BY DEF OwnData
<1>6. CASE q = p
  <2>1. k \in Run(j.base, n)  BY <1>1, <1>5, <1>6 DEF Region, Realloc
  <2> QED  BY <1>2, <1>4, <1>6, <2>1
<1>7. CASE q # p
  <2>1. k \in Region(q)  BY <1>1, <1>5, <1>7 DEF Region, Realloc
  <2>2. k \in Block /\ blk[k] = q /\ ram[k] = q  BY <2>1 DEF Owned, OwnData
  <2>3. k \notin Run(j.base, n)  BY <1>1, <1>2, <1>7, <2>2, BlockFacts
  <2> QED  BY <1>4, <2>2, <2>3
<1> QED  BY <1>6, <1>7

LEMMA ForkOwnData ==
  ASSUME TypeOK, Owned, OwnData, NEW p \in Users, NEW c \in Users, Fork(p, c)
  PROVE  OwnData'
<1>1. PICK b \in Block :
        /\ Fits(c, Blocks(mem[p].sz), b)
        /\ Fill(c, Nothing, b, mem[p].sz)
        /\ mem' = [mem EXCEPT ![c] = [ad |-> b, sz |-> mem[p].sz]]
  BY DEF Fork, Finds
<1> DEFINE n == Blocks(mem[p].sz)
<1>2. /\ n \in Nat /\ live \subseteq Users /\ c \notin live /\ live' = live \cup {c}
      /\ mem \in [Users -> [ad : Block, sz : Nat]]
  BY BlocksNat DEF TypeOK, Fork, FreeSlot
<1>3. \A k \in Run(b, n) : k \in Block /\ blk[k] \in {0, c}
  BY <1>1, <1>2, FitsRun
<1>4. ram' = [k \in Block |-> IF k \in Run(b, n) THEN c ELSE ram[k]]
  BY <1>1 DEF Fill, Moves, Nothing
<1>5. SUFFICES ASSUME NEW q \in live', NEW k \in Region(q)' PROVE ram'[k] = q
  BY DEF OwnData
<1>6. CASE q = c
  <2>1. k \in Run(b, n)  BY <1>1, <1>2, <1>5, <1>6 DEF Region
  <2> QED  BY <1>3, <1>4, <1>6, <2>1
<1>7. CASE q # c
  <2>1. q \in live /\ k \in Region(q)  BY <1>1, <1>2, <1>5, <1>7 DEF Region
  <2>2. k \in Block /\ blk[k] = q /\ ram[k] = q  BY <2>1 DEF Owned, OwnData
  <2>3. k \notin Run(b, n)  BY <1>2, <1>3, <1>7, <2>1, <2>2, BlockFacts
  <2> QED  BY <1>4, <2>2, <2>3
<1> QED  BY <1>6, <1>7

LEMMA KillOwnData ==
  ASSUME TypeOK, Owned, OwnData, NEW p \in Users, Kill(p)
  PROVE  OwnData'
<1>1. /\ ram' = [k \in Block |-> IF ram[k] = p THEN 0 ELSE ram[k]]
      /\ mem' = [mem EXCEPT ![p] = Nothing] /\ live' = live \ {p}
  BY DEF Kill, Gone
<1>2. SUFFICES ASSUME NEW q \in live', NEW k \in Region(q)' PROVE ram'[k] = q
  BY DEF OwnData
<1>3. q \in live /\ q # p /\ k \in Region(q)
  BY <1>1, <1>2 DEF Region, TypeOK
<1> QED  BY <1>1, <1>3 DEF Owned, OwnData

LEMMA SameOwnData == OwnData /\ UNCHANGED <<mem, live, ram>> => OwnData'
BY DEF OwnData, Region

LEMMA InitOwnData == Init => OwnData
<1> SUFFICES ASSUME Init PROVE OwnData  OBVIOUS
<1>1. PICK p \in Users :
        /\ live = {p}
        /\ ram = [k \in Block |-> IF k = K_MEM_RSVD_BLOCKS THEN p ELSE 0]
        /\ mem = [q \in Users |-> IF q = p THEN [ad |-> K_MEM_RSVD_BLOCKS, sz |-> 0] ELSE Nothing]
  BY DEF Init
<1>2. Region(p) = {K_MEM_RSVD_BLOCKS}
  BY <1>1, OneBlock, MemAssumption DEF Region, Run
<1> QED  BY <1>1, <1>2, BlockFacts, MemAssumption DEF OwnData

LEMMA StepOwnData ==
  ASSUME Allowed \cap {"full", "debug", "shrink"} = {}
  PROVE  LInv /\ OwnData /\ [Next]_vars => OwnData'
<1> SUFFICES ASSUME LInv, OwnData, [Next]_vars PROVE OwnData'  OBVIOUS
<1> DEFINE j == job["system"]
<1>1. TypeOK /\ Owned /\ JobSound /\ JobGrows  BY DEF LInv, OInv
<1>2. j \in JobType  BY <1>1 DEF TypeOK, Tasks
<1>3. ASSUME j.pc \in {"grow", "whole", "brk"}, Realloc(j), UNCHANGED live
      PROVE  OwnData'
  BY <1>1, <1>2, <1>3, ReallocOwnData DEF JobSound, JobGrows
<1>4. \A t \in Tasks : job[t].pc # "idle" => t = "system"
  BY <1>1 DEF JobSound, Rest, Job, Tasks
<1>5. ASSUME NEW t \in Tasks, Grow(t) \/ WholeEnds(t) PROVE OwnData'
  <2>1. t = "system"  BY <1>4, <1>5 DEF Grow, WholeEnds
  <2> QED  BY <1>3, <1>5, <2>1 DEF Grow, WholeEnds
<1>6. ASSUME NEW t \in Tasks, Segment(t) \/ Whole(t) \/ BadFile(t) \/ Fails(t) PROVE OwnData'
  <2>1. t = "system"  BY <1>4, <1>6 DEF Segment, Whole, BadFile, Fails
  <2>2. UNCHANGED <<mem, live, ram>>  BY <1>6, <2>1 DEF Segment, Whole, BadFile, Fails
  <2> QED  BY <2>2, SameOwnData
<1>7. CASE BrkEnds  BY <1>3, <1>7 DEF BrkEnds
<1>8. ASSUME NEW p \in Users, Brk(p) \/ Exec(p) \/ Kill(p) PROVE OwnData'
  BY <1>1, <1>8, KillOwnData, SameOwnData DEF Brk, Exec
<1>9. ASSUME NEW p \in Users, NEW c \in Users, Fork(p, c) PROVE OwnData'
  BY <1>1, <1>9, ForkOwnData
<1>10. CASE Answers \/ UNCHANGED vars  BY <1>10, SameOwnData DEF Answers, vars
<1>11. ASSUME NEW p \in Users, NEW c \in Users, Start(p) \/ ForkFails(p, c) PROVE FALSE
  BY <1>11 DEF Start, ForkFails
<1> QED  BY <1>5, <1>6, <1>7, <1>8, <1>9, <1>10, <1>11 DEF Next

\* Then, too, the blocks of every process hold its own data: what a reallocation
\* copies for one process never reaches the blocks of another.
THEOREM ProcessesKeepTheirData ==
  ASSUME Allowed \cap {"full", "debug", "shrink"} = {}
  PROVE  Spec => []OwnData
<1>1. LInv /\ [Next]_vars => LInv'  BY StepNoLeak
<1>2. LInv /\ OwnData /\ [Next]_vars => OwnData'  BY StepOwnData
<1> QED  BY InitNoLeak, InitOwnData, <1>1, <1>2, PTL DEF Spec

=============================================================================
