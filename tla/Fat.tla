-------------------------------- MODULE Fat --------------------------------
(***************************************************************************)
(* The FAT file system of the file system server (kernel/fs/fat.c): the    *)
(* vnodes of the files and directories in use, each with its position (the *)
(* cluster, the sector in it, the byte in that) and a buffer of one        *)
(* sector, and the walks through directories and cluster chains.           *)
(*                                                                         *)
(* The volume is a constant: a tree of entries with their cluster chains.  *)
(* A sector is known by its number, a byte by its place on the disk.  A    *)
(* buffer remembers which sector was read into it, besides the number the  *)
(* code notes in buf_sector.  The server does one call at a time; reading  *)
(* a sector may fail, reading the FAT does not (its result is not tested). *)
(***************************************************************************)
EXTENDS Integers, Sequences, FiniteSets, FiniteSetsExt, SequencesExt

CONSTANTS Names, ROOT,      \* entries of the volume; the root directory
          Entry,            \* Entry[n]: [dir, kind, chain, size]
          Stream,           \* Stream[d]: the entries of directory d, in order
          SkipEntry, EndEntry, \* a free, label or long-name entry; the end mark
          B, SPC, EPS,      \* bytes and entries in a sector, sectors in a cluster
          MaxRootEntries,
          VnodeCount,       \* vnodes the pool has for this volume
          MaxReferences,    \* bound: references to the vnodes
          MaxRootSectors,   \* bound: sectors a listing of the root goes through
          Sizes             \* counts a reader asks for

EntrySize == B \div EPS
RootStart == 2              \* after a reserved sector and one of FAT
DataStart == RootStart + MaxRootEntries \div EPS
NoSector  == 0
EndOfChain == 65528         \* 0xFFF8
Unopened == -1              \* no position yet
AtEnd    == -2              \* the listing has met the end mark
Beyond   == -3              \* and has given a name behind it

ASSUME FatAssumption ==
    /\ {B, SPC, EPS, VnodeCount} \subseteq Nat \ {0} /\ MaxRootEntries \in Nat
    /\ MaxRootEntries % EPS = 0 /\ B % EPS = 0
    /\ Sizes \subseteq Nat

(* A volume in order: the end mark is the last entry of a directory, chains *)
(* have no cluster in common and room for what their entry says.  Only      *)
(* files are given a size.                                                  *)
Directories == {n \in Names : Entry[n].kind = "dir"}
ASSUME VolumeAssumption ==
    /\ DOMAIN Stream = {ROOT} \cup Directories /\ ROOT \notin Names
    /\ {SkipEntry, EndEntry} \cap (Names \cup {"none"}) = {} /\ SkipEntry # EndEntry
    /\ \A d \in DOMAIN Stream :
         /\ Stream[d] \in Seq(Names \cup {SkipEntry, EndEntry}) /\ Stream[d] # <<>>
         /\ \A i \in DOMAIN Stream[d] : Stream[d][i] = EndEntry <=> i = Len(Stream[d])
    /\ Len(Stream[ROOT]) <= MaxRootEntries
    /\ \A n \in Names :
         /\ Entry[n].chain \in Seq(2 .. EndOfChain - 1) /\ Entry[n].size \in Nat
         /\ Entry[n].size <= Len(Entry[n].chain) * SPC * B
         /\ \A m \in Names : \A i \in DOMAIN Entry[n].chain, j \in DOMAIN Entry[m].chain :
              Entry[n].chain[i] = Entry[m].chain[j] => n = m /\ i = j
    /\ \A n \in Directories :
         Entry[n].size = 0 /\ Len(Stream[n]) <= Len(Entry[n].chain) * SPC * EPS

VARIABLES
    vn,      \* the volume's vnodes: number -> fnode, where it is, its buffer
    op,      \* the read in progress
    out,     \* history: the file read, where the read began, what it gave
    shown    \* history: per vnode the names getdents has read since open

vars == <<vn, op, out, shown>>

Vnodes == 1..VnodeCount
NoVn   == [count |-> 0]
Idle   == [v |-> 0, left |-> 0, from |-> 0]
Nothing == [file |-> ROOT, from |-> 0, bytes |-> <<>>]
InUse  == {v \in Vnodes : vn[v].count > 0}

Sector(c, k) == DataStart + (c - 2) * SPC + k

(* The FAT: the cluster after c in the chain it belongs to. *)
Chains == {Entry[n].chain : n \in Names}
FatTable == [c \in UNION {Range(ch) : ch \in Chains} |->
               LET ch == CHOOSE x \in Chains : c \in Range(x)
                   i  == CHOOSE j \in DOMAIN ch : ch[j] = c
               IN IF i = Len(ch) THEN EndOfChain ELSE ch[i + 1]]
NextCluster(c) == IF c \in DOMAIN FatTable THEN FatTable[c] ELSE EndOfChain

First(n) == IF Entry[n].chain = <<>> THEN 0 ELSE Entry[n].chain[1]

-----------------------------------------------------------------------------
(* Vnodes. *)

References == MapThenSumSet(LAMBDA v : vn[v].count, InUse)

Root == CHOOSE v \in InUse : vn[v].fnode = RootStart
Named(fnode) == {v \in InUse : vn[v].fnode = fnode}
Free == Vnodes \ InUse

Fresh(fnode, entry, first, dir, size) ==
    [count |-> 1, fnode |-> fnode, entry |-> entry, first |-> first, dir |-> dir, size |-> size,
     cluster |-> 0, sec |-> 0, byte |-> 0, pos |-> 0,
     buf |-> NoSector, tag |-> NoSector, want |-> Unopened]

(* fat_mount and _fat_root. *)
Init ==
    /\ vn = [v \in Vnodes |-> IF v = 1 THEN Fresh(RootStart, ROOT, 0, TRUE, 0) ELSE NoVn]
    /\ op = Idle
    /\ out = Nothing
    /\ shown = [v \in Vnodes |-> <<>>]

(* The sector that holds the i-th entry of directory d, and the place of   *)
(* the entry on the disk; what is found at a place.                         *)
DirSector(d, i) ==
    LET k == (i - 1) \div EPS
    IN IF d = ROOT THEN RootStart + k ELSE Sector(Entry[d].chain[k \div SPC + 1], k % SPC)

Place(d, i) == <<DirSector(d, i), ((i - 1) % EPS) * EntrySize>>
Slots == UNION {{d} \X DOMAIN Stream[d] : d \in DOMAIN Stream}
Catalogue == [at \in {Place(p[1], p[2]) : p \in Slots} |->
                LET p == CHOOSE q \in Slots : Place(q[1], q[2]) = at IN Stream[p[1]][p[2]]]
\* Anything may be found where no directory lies.
EntryOn(at) == IF at \in DOMAIN Catalogue THEN {Catalogue[at]}
               ELSE Names \cup {SkipEntry, EndEntry}

(* Where the search for nm ends: at a match or at the end mark. *)
Stop(v, nm) == Min({i \in DOMAIN Stream[vn[v].entry] : Stream[vn[v].entry][i] \in {nm, EndEntry}})

(* The vnode with sector s in its buffer, read unless it is there; and with *)
(* a buffer marked invalid, as it is while the FAT is read into it.         *)
Loaded(r, s) == [r EXCEPT !.buf = IF r.tag = s THEN @ ELSE s, !.tag = s]
DroppedUnmarked(r) == [r EXCEPT !.buf = NoSector]
Dropped(r) == [r EXCEPT !.buf = NoSector, !.tag = NoSector]

(* What a directory's buffer holds after a search up to entry i: in the     *)
(* root it is not marked valid, elsewhere it is.                            *)
SearchedMarked(v, i) ==
    [vn EXCEPT ![v].buf = DirSector(vn[v].entry, i),
               ![v].tag = IF vn[v].fnode = RootStart THEN @ ELSE DirSector(vn[v].entry, i)]
Searched(v, i) ==
    [vn EXCEPT ![v] = IF vn[v].fnode = RootStart THEN Dropped(vn[v])
                      ELSE Loaded(Dropped(vn[v]), DirSector(vn[v].entry, i))]

(* A sector of the search cannot be read. *)
SearchFails(v) == vn' = [vn EXCEPT ![v] = Dropped(vn[v])]

(* The name is not there. *)
NotFound(v, nm) ==
    /\ Stream[vn[v].entry][Stop(v, nm)] = EndEntry
    /\ vn' = Searched(v, Stop(v, nm))

(* The vnode of the entry's start sector, an old one or a new one.  Files   *)
(* without a cluster all have the same.                                     *)
Found(v, nm) ==
    LET fnode == Sector(First(nm), 0)
        after == Searched(v, Stop(v, nm))
    IN /\ Stream[vn[v].entry][Stop(v, nm)] = nm
       /\ \/ \E w \in Named(fnode) :
               /\ References < MaxReferences
               /\ vn' = [after EXCEPT ![w].count = @ + 1]
               /\ UNCHANGED shown
          \/ /\ Named(fnode) = {} /\ Free # {} /\ References < MaxReferences
             /\ \E w \in Free :
                  /\ w = Min(Free)
                  /\ vn' = [after EXCEPT ![w] =
                       [Fresh(fnode, nm, First(nm), Entry[nm].kind = "dir", Entry[nm].size)
                        EXCEPT !.cluster = IF vn[v].fnode = RootStart THEN First(nm) ELSE 0]]
                  /\ shown' = [shown EXCEPT ![w] = <<>>]
          \/ Named(fnode) = {} /\ Free = {} /\ vn' = after /\ UNCHANGED shown

(* _fnode_lookup: nm in the directory of vnode v. *)
Lookup(v, nm) ==
    /\ op = Idle /\ vn[v].dir
    /\ \/ (SearchFails(v) \/ NotFound(v, nm)) /\ UNCHANGED shown
       \/ Found(v, nm)
    /\ UNCHANGED <<op, out>>

(* VN_RELE, and _fnode_inactive with the last reference. *)
Release(v) ==
    /\ op = Idle /\ (v # Root \/ vn[v].count > 1)
    /\ vn' = IF vn[v].count = 1 THEN [vn EXCEPT ![v] = NoVn] ELSE [vn EXCEPT ![v].count = @ - 1]
    /\ UNCHANGED <<op, out, shown>>

(* _fnode_open rewinds the vnode, for all who have it open, also when the   *)
(* flags do not fit and it returns -1.                                      *)
Open(v) ==
    /\ op = Idle
    /\ vn' = [vn EXCEPT ![v].cluster = vn[v].first, ![v].sec = 0, ![v].byte = 0,
                        ![v].pos = 0, ![v].want = 0]
    /\ shown' = [shown EXCEPT ![v] = <<>>]
    /\ UNCHANGED <<op, out>>

-----------------------------------------------------------------------------
(* _fnode_read. *)

(* The vnode n bytes on in its sector, or at the start of the next one, for *)
(* which the FAT may be read.                                               *)
Moved(r, n) ==
    IF r.byte + n < B THEN [r EXCEPT !.byte = @ + n]
    ELSE IF r.sec + 1 < SPC THEN [Dropped(r) EXCEPT !.byte = 0, !.sec = @ + 1]
    ELSE [Dropped(r) EXCEPT !.byte = 0, !.sec = 0, !.cluster = NextCluster(@)]

Here(r) == Sector(r.cluster, r.sec)

(* The count of a read is cut at the end of the file by CurrentByte. *)
Clipped(r, n) == IF r.pos + n >= r.size THEN r.size - r.pos ELSE n

BeginRead(v, n) ==
    /\ op = Idle /\ ~vn[v].dir /\ vn[v].want >= 0
    /\ op' = [v |-> v, left |-> Clipped(vn[v], n), from |-> 0]
    /\ out' = [file |-> vn[v].entry, from |-> vn[v].want, bytes |-> <<>>]
    /\ UNCHANGED <<vn, shown>>

(* One turn of the loop: to the end of the sector or of the count. *)
Chunk ==
    /\ op.left > 0 /\ ~vn[op.v].dir
    /\ LET r == Loaded(vn[op.v], Here(vn[op.v]))
           n == Min({op.left, B - r.byte})
       IN /\ vn' = [vn EXCEPT ![op.v] = [Moved(r, n) EXCEPT !.pos = @ + n, !.want = @ + n]]
          /\ out' = [out EXCEPT !.bytes = @ \o [i \in 1..n |-> <<r.buf, r.byte + i - 1>>]]
          /\ op' = [op EXCEPT !.left = @ - n]
    /\ UNCHANGED shown

End ==
    /\ op # Idle /\ op.left = 0
    /\ op' = Idle /\ out' = Nothing
    /\ UNCHANGED <<vn, shown>>

-----------------------------------------------------------------------------
(* _fnode_getdents with room for n entries.  The root, whose cluster is 0,  *)
(* is read by _fat_get_root_entry, other directories through _fnode_read.   *)
(* Nothing remembers the end mark: the next call goes on behind it.         *)

BeginDents(v, n) ==
    /\ op = Idle /\ vn[v].dir /\ vn[v].want # Unopened /\ n > 0
    /\ op' = [v |-> v, left |-> n, from |-> Len(shown[v])]
    /\ UNCHANGED <<vn, out, shown>>

DentSector(r) == IF r.cluster = 0 THEN RootStart + r.sec ELSE Here(r)

(* The vnode after an entry: the root's sectors follow each other. *)
RootEntered(r) ==
    IF r.byte + EntrySize < B THEN [r EXCEPT !.byte = @ + EntrySize]
    ELSE [r EXCEPT !.byte = 0, !.sec = @ + 1]
Entered(r) == IF r.cluster = 0 THEN RootEntered(r) ELSE Moved(r, EntrySize)

Past(r) == r.want \in {AtEnd, Beyond}

(* How far the listing is when entry e has been met. *)
Wants(r, e) == IF Past(r) THEN (IF e \in Names THEN Beyond ELSE r.want)
               ELSE IF e = EndEntry THEN AtEnd ELSE 0

(* One entry: skipped, the last, or put into the reader's buffer. *)
Dent ==
    /\ op.left > 0 /\ vn[op.v].dir
    /\ vn[op.v].cluster = 0 => vn[op.v].sec < MaxRootSectors
    /\ LET r == Loaded(vn[op.v], DentSector(vn[op.v]))
       IN \E e \in EntryOn(<<r.buf, r.byte>>) :
          /\ vn' = [vn EXCEPT ![op.v] = [Entered(r) EXCEPT !.want = Wants(r, e)]]
          /\ \/ e = SkipEntry /\ UNCHANGED <<op, shown>>
             \/ e = EndEntry /\ op' = [op EXCEPT !.left = 0] /\ UNCHANGED shown
             \/ /\ e \in Names
                /\ op' = [op EXCEPT !.left = @ - 1]
                /\ shown' = IF Past(r) THEN shown ELSE [shown EXCEPT ![op.v] = Append(@, e)]
    /\ UNCHANGED out

(* The names a failed call has put into a buffer nobody looks at. *)
Lost == SkipEntry
Losing(s, from) == [i \in DOMAIN s |-> IF i > from THEN Lost ELSE s[i]]

(* The sector of a file or a directory other than the root cannot be read:  *)
(* the call returns -1 whatever it had read, and the position has moved.    *)
ReadFails ==
    LET r == vn[op.v]
    IN /\ op.left > 0 /\ (r.dir => r.cluster # 0) /\ r.tag # Here(r)
       /\ vn' = [vn EXCEPT ![op.v] = Dropped(r)]
       /\ op' = Idle /\ out' = Nothing
       /\ shown' = [shown EXCEPT ![op.v] = Losing(@, op.from)]

(* A sector of the root cannot be read: the entry is taken from address 0,  *)
(* where the vector table of the kernel begins with zeros, an end mark.     *)
RootFails ==
    LET r == vn[op.v]
    IN /\ op.left > 0 /\ r.dir /\ r.cluster = 0 /\ r.tag # DentSector(r)
       /\ vn' = [vn EXCEPT ![op.v] = Dropped(r)]
       /\ op' = [op EXCEPT !.left = 0]
       /\ UNCHANGED <<out, shown>>

-----------------------------------------------------------------------------
(* _fnode_lseek to byte o of the file: sector by sector from its start. *)
Walk(first, o) ==
    LET at[k \in 0 .. o \div B] ==
          IF k = 0 THEN <<first, 0>>
          ELSE IF at[k - 1][2] = SPC - 1 THEN <<NextCluster(at[k - 1][1]), 0>>
          ELSE <<at[k - 1][1], at[k - 1][2] + 1>>
    IN at[o \div B]

(* CurrentByte, the position reads are cut by, stays where it was.  From   *)
(* the start a file may be left behind; a directory is only rewound.        *)
Lseek(v, whence, offset) ==
    LET o == CASE whence = "set" -> offset
               [] whence = "end" -> vn[v].size - offset
               [] whence = "cur" -> vn[v].pos + offset
        at == Walk(vn[v].first, o)
        r  == IF o >= SPC * B THEN Dropped(vn[v]) ELSE vn[v]
    IN /\ op = Idle /\ vn[v].want # Unopened /\ o \in Nat
       /\ (whence # "set" \/ vn[v].dir) => o <= vn[v].size
       /\ vn' = [vn EXCEPT ![v] = [r EXCEPT !.cluster = at[1], !.sec = at[2], !.byte = o % B,
                                            !.want = o]]
       /\ shown' = [shown EXCEPT ![v] = <<>>]
       /\ UNCHANGED <<op, out>>

Step == Chunk \/ Dent \/ End

Next ==
    \/ \E v \in InUse :
         \/ \E nm \in Names \cup {"none"} : Lookup(v, nm)
         \/ Release(v) \/ Open(v)
         \/ \E n \in Sizes : BeginRead(v, n) \/ BeginDents(v, n)
         \/ \E w \in {"set", "cur", "end"}, o \in Sizes \cup {0} : Lseek(v, w, o)
    \/ Step \/ ReadFails \/ RootFails

Spec == Init /\ [][Next]_vars

-----------------------------------------------------------------------------
(* A read gives the bytes of the file in their order, wherever it begins:   *)
(* after an open, a seek or an earlier read, also one that failed half way, *)
(* and whatever searches and other vnodes did to the buffers in between     *)
(* (fat.c 579-653, 660-705, 326-350).  Bytes beyond the end, which a read   *)
(* after a seek can give because lseek does not move CurrentByte, are left  *)
(* out.                                                                     *)
Location(n, o) ==
    <<Sector(Entry[n].chain[o \div (SPC * B) + 1], (o \div B) % SPC), o % B>>
ReadRight ==
    \A i \in DOMAIN out.bytes :
       out.from + i <= Entry[out.file].size =>
          out.bytes[i] = Location(out.file, out.from + i - 1)

(* Up to the end mark a listing names the live entries of the directory in  *)
(* their order, each once, and has named them all when it meets the mark;   *)
(* searches in the directory between two calls do not disturb it, and a     *)
(* call that fails loses the names it had read and no others (fat.c         *)
(* 737-852).                                                                *)
Live(d, n) == {i \in 1..n : Stream[d][i] \notin {SkipEntry, EndEntry}}

\* s lists the live ones of the first n entries of directory d.
Lists(s, d, n) ==
    \E at \in [DOMAIN s -> Live(d, n)] :
       /\ Range(at) = Live(d, n)
       /\ \A i, j \in DOMAIN s : i < j => at[i] < at[j]
       /\ \A i \in DOMAIN s : s[i] \in {Stream[d][at[i]], Lost}

ListedOnce ==
    \A v \in InUse : vn[v].dir =>
       \E n \in 0..Len(Stream[vn[v].entry]) :
          /\ Lists(shown[v], vn[v].entry, n)
          /\ Past(vn[v]) => n = Len(Stream[vn[v].entry])

(* The end mark is the "end of catalogue" (fat.c 826-828): no name is given *)
(* after it.  That does not hold: no run checks it, and TLC finds a listing *)
(* that goes on behind the mark (README).                                   *)
NothingBeyond == \A v \in InUse : vn[v].want # Beyond
=============================================================================
