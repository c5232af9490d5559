-------------------------------- MODULE Heap --------------------------------
(***************************************************************************)
(* malloc and free of user programs (lib/libc/src/stdlib.c), with the      *)
(* break of the process (lib/libc/src/unistd.c) as the source of more      *)
(* memory.  Chunks are listed in the order of the pointers that link them: *)
(* [at, len, used], with the header of HEAD bytes at at and len bytes      *)
(* behind it.  Addresses and lengths are bytes, multiples of 4.            *)
(*                                                                         *)
(* Two things spoil the heap, after which it is not followed any further:  *)
(* a split that leaves less than a header, and a break that starts in      *)
(* memory that is in use (__libc_init takes the word it finds at the end   *)
(* of the heap, a pointer to the arguments, for its address).              *)
(***************************************************************************)
EXTENDS Integers, Sequences, FiniteSets, FiniteSetsExt, SequencesExt

CONSTANTS HEAPSTART, HEAPEND,   \* __s_heap, __e_heap
          ARGV0,                \* where the first argument is: the word at __e_heap
          BRK_INCREMENT_MIN,
          TOP,                  \* the kernel gives no memory beyond
          Sizes                 \* what a program asks for

HEAD == 8
ALIGN32(n) == ((n + 3) \div 4) * 4

ASSUME HeapAssumption ==
    /\ \A n \in {HEAPSTART, HEAPEND, ARGV0, BRK_INCREMENT_MIN, TOP} : n \in Nat /\ n % 4 = 0
    /\ HEAPSTART + HEAD < HEAPEND /\ HEAPEND < ARGV0 /\ ARGV0 < TOP /\ Sizes \subseteq Nat

VARIABLES
    chunks,   \* the list _ck_list
    brk,      \* __libc_brk
    given,    \* history: the memory the heap has been given, <<start, length>>
    spoilt    \* history: "no", or what broke the list

hvars == <<chunks, brk, given, spoilt>>

-----------------------------------------------------------------------------
Chunk(at, len, used) == [at |-> at, len |-> len, used |-> used]
End(c) == c.at + HEAD + c.len
Touch(c, d) == End(c) = d.at
Extent(c) == c.at .. End(c) - 1

(* __mem_init, and the break that __libc_init takes for the heap's end. *)
HeapInit ==
    /\ chunks = <<Chunk(HEAPSTART, HEAPEND - HEAPSTART - HEAD, FALSE)>>
    /\ brk = ARGV0
    /\ given = {<<HEAPSTART, HEAPEND - HEAPSTART>>}
    /\ spoilt = "no"

(* __mem_add_chunk: in front of the list, if there is room for a word. *)
AddChunk(list, at, len) ==
    IF len >= HEAD + 4 THEN <<Chunk(at, len - HEAD, FALSE)>> \o list ELSE list

(* _find_chunk: the first of the free chunks that fit most closely, 0 if    *)
(* there is none.                                                           *)
Fitting(list, size) == {i \in DOMAIN list : ~list[i].used /\ list[i].len >= size}
FindChunk(list, size) ==
    LET fit  == Fitting(list, size)
        best == Min({list[i].len : i \in fit})
    IN IF fit = {} THEN 0 ELSE Min({i \in fit : list[i].len = best})

(* The chunk i of the list is taken as it is, or its end is cut off.        *)
SplitShort(list, i, size) ==
    LET c == list[i]
        rest == c.len - size - HEAD
    IN IF c.len = size THEN [list EXCEPT ![i].used = TRUE]
       ELSE SubSeq(list, 1, i - 1)
            \o <<[c EXCEPT !.len = rest + HEAD], Chunk(c.at + HEAD + rest, size, TRUE)>>
            \o SubSeq(list, i + 1, Len(list))

Split(list, i, size) ==
    LET c == list[i]
        rest == c.len - size - HEAD
    IN IF c.len = size THEN [list EXCEPT ![i].used = TRUE]
       ELSE SubSeq(list, 1, i - 1)
            \o <<[c EXCEPT !.len = rest], Chunk(c.at + HEAD + rest, size, TRUE)>>
            \o SubSeq(list, i + 1, Len(list))

(* What the split leaves is shorter than a header: the link to the new      *)
(* chunk is written over the new chunk's length.                            *)
Tears(list, i, size) == list[i].len # size /\ list[i].len < size + HEAD

Grown(size) == IF size + HEAD > BRK_INCREMENT_MIN THEN size + HEAD ELSE BRK_INCREMENT_MIN

(* The result of malloc: the list, the block (0: none), the break, and      *)
(* whether the list is still sound.  more: does the kernel give memory.     *)
Result(list, block, grown, why) ==
    [list |-> list, block |-> block, grown |-> grown, why |-> why]

Taken(list, i, size, grown) ==
    LET after == Split(list, i, size)
        c == IF list[i].len = size THEN list[i] ELSE after[i + 1]
    IN Result(after, c.at + HEAD, grown, IF Tears(list, i, size) THEN "split" ELSE "no")

Overlaps(list, at, len) == \E i \in DOMAIN list : Extent(list[i]) \cap at .. at + len - 1 # {}

Malloc(list, top, asked, more) ==
    LET size == ALIGN32(asked)
        i    == FindChunk(list, size)
        n    == Grown(size)
        longer == Append(list, Chunk(top, n - HEAD, FALSE))
    IN CASE asked = 0 -> Result(list, 0, 0, "no")
         [] asked > 0 /\ i > 0 -> Taken(list, i, size, 0)
         [] asked > 0 /\ i = 0 /\ more /\ top + n <= TOP ->
              IF Overlaps(list, top, n) THEN Result(longer, top + HEAD, n, "break")
              ELSE Taken(longer, Len(longer), size, n)
         [] OTHER -> Result(list, 0, 0, "no")

(* free: the chunk is joined with the next one, then with the one before,   *)
(* where they are free and touch.  A block that is not listed is ignored.   *)
Joined(list, i) ==
    IF i \in 1 .. Len(list) - 1 /\ ~list[i].used /\ ~list[i + 1].used /\ Touch(list[i], list[i + 1])
    THEN SubSeq(list, 1, i - 1)
         \o <<[list[i] EXCEPT !.len = @ + list[i + 1].len + HEAD]>>
         \o SubSeq(list, i + 2, Len(list))
    ELSE list

Free(list, block) ==
    LET at == {i \in DOMAIN list : list[i].at + HEAD = block}
        i  == Min(at)
    IN IF at = {} THEN list
       ELSE Joined(Joined([list EXCEPT ![i].used = FALSE], i), i - 1)

Memory(start, n) == IF n = 0 THEN {} ELSE {<<start, n>>}

(* The state after a malloc with result r. *)
Allocated(r) ==
    /\ chunks' = r.list
    /\ brk' = brk + r.grown
    /\ given' = given \cup Memory(brk, r.grown)
    /\ spoilt' = r.why

-----------------------------------------------------------------------------
(* While nothing has spoilt the heap: chunks do not overlap, and every byte *)
(* the heap was given is in one of them (stdlib.c 152-324).                 *)
NothingLost ==
    spoilt = "no" =>
       /\ \A i, j \in DOMAIN chunks : i < j => Extent(chunks[i]) \cap Extent(chunks[j]) = {}
       /\ UNION {Extent(chunks[i]) : i \in DOMAIN chunks}
             = UNION {g[1] .. g[1] + g[2] - 1 : g \in given}

=============================================================================
