----------------------------- MODULE FatProofs -----------------------------
(***************************************************************************)
(* Proofs about Fat, for every volume in order (VolumeAssumption), any size *)
(* of its sectors and clusters and any number of vnodes: a read gives the   *)
(* bytes of its file, and a listing the entries of its directory.           *)
(*                                                                         *)
(* The invariant says of each vnode in use that it is where it is meant to  *)
(* be (OnFile, OnDir): its cluster is that of the chain in which the byte or *)
(* the entry lies that comes next, and its buffer holds what it is marked   *)
(* with.  Beyond the chain, where a read after a seek may go, nothing is    *)
(* said of the cluster.                                                     *)
(***************************************************************************)
EXTENDS Fat, WellFoundedInduction, TLAPS

-----------------------------------------------------------------------------
(* The invariant.                                                          *)

Held == [count : Nat \ {0}, fnode : Int, entry : Names \cup {ROOT}, first : Nat, dir : BOOLEAN,
         size : Nat, cluster : Int, sec : Nat, byte : Nat, pos : Nat,
         buf : Int, tag : Int, want : Int]

Typed ==
    /\ vn \in [Vnodes -> Held \cup {NoVn}]
    /\ op \in [v : Nat, left : Nat, from : Nat]
    /\ out \in [file : Names \cup {ROOT}, from : Nat, bytes : Seq(Int \X Int)]
    /\ shown \in [Vnodes -> Seq(Names \cup {Lost})]

\* The vnode says what its entry says.
Described(r) ==
    IF r.entry = ROOT THEN r.dir /\ r.first = 0 /\ r.size = 0
    ELSE /\ r.dir = (r.entry \in Directories)
         /\ r.first = First(r.entry) /\ r.size = Entry[r.entry].size

\* Cluster k of the chain, as far as it goes.
Follows(r, k) == k < Len(Entry[r.entry].chain) => r.cluster = Entry[r.entry].chain[k + 1]

\* The vnode of a file is at the byte its reader wants.
OnFile(r) ==
    \E k \in 0..r.want :
       /\ r.want = (k * SPC + r.sec) * B + r.byte
       /\ r.sec < SPC /\ r.byte < B /\ Follows(r, k)

\* The vnode of a directory has i entries behind it.
OnDir(r, i) ==
    \E j \in 0..EPS-1 :
       /\ r.byte = j * EntrySize
       /\ IF r.entry = ROOT THEN r.cluster = 0 /\ i = r.sec * EPS + j
          ELSE \E k \in 0..i :
                 i = (k * SPC + r.sec) * EPS + j /\ r.sec < SPC /\ Follows(r, k)

Settled(r, s) ==
    IF r.dir THEN
       \/ r.want = Unopened /\ s = <<>>
       \/ Past(r) /\ Lists(s, r.entry, Len(Stream[r.entry]))
       \/ r.want = 0 /\ \E i \in 0 .. Len(Stream[r.entry]) - 1 : OnDir(r, i) /\ Lists(s, r.entry, i)
    ELSE r.pos <= r.size /\ (r.want = Unopened \/ (r.want >= 0 /\ OnFile(r)))

VnodeOK(r, s) == Described(r) /\ r.buf = r.tag /\ Settled(r, s)

\* The read in progress is at the byte after those it gave, and has what it
\* was cut to before it.
Reading(r) ==
    IF r.dir THEN out.bytes = <<>> /\ (op.left > 0 => r.want # Unopened)
    ELSE /\ r.want >= 0 /\ out.file = r.entry /\ r.want = out.from + Len(out.bytes)
         /\ r.pos + op.left <= r.size

OpOK == IF op = Idle THEN out.bytes = <<>> ELSE op.v \in InUse /\ Reading(vn[op.v])

IInv ==
    /\ Typed
    /\ \A v \in InUse : VnodeOK(vn[v], shown[v])
    /\ OpOK
    /\ ReadRight
-----------------------------------------------------------------------------
(* Constants and arithmetic.                                               *)

\* A multiple and a rest decide the quotient and the remainder.
LEMMA Division ==
  ASSUME NEW b \in Nat, b > 0, NEW q \in Nat, NEW r \in Nat, r < b
  PROVE  q * b + r \in Nat /\ (q * b + r) \div b = q /\ (q * b + r) % b = r
<1>1. PICK a : a = q * b + r OBVIOUS
<1>2. a \in Nat BY <1>1
<1>3. PICK c, s : c = a \div b /\ s = a % b OBVIOUS
<1>4. c \in Int /\ s \in Nat /\ s < b /\ a = c * b + s BY <1>2, <1>3
<1>5. (q - c) * b = s - r BY <1>1, <1>4
<1>6. q = c
  <2>1. CASE q > c
    <3>1. (q - c) * b >= b BY <1>4, <2>1
    <3>. QED BY <1>4, <1>5, <3>1
  <2>2. CASE q < c
    <3>1. (c - q) * b >= b BY <1>4, <2>2
    <3>2. (c - q) * b = r - s BY <1>4, <1>5
    <3>. QED BY <1>4, <3>1, <3>2
  <2>. QED BY <1>4, <2>1, <2>2
<1>. QED BY <1>1, <1>2, <1>3, <1>4, <1>5, <1>6

LEMMA Divided ==
  ASSUME NEW b \in Nat, b > 0, NEW a \in Nat
  PROVE  \E q \in Nat, r \in Nat : q = a \div b /\ r = a % b /\ r < b /\ a = q * b + r
<1>1. PICK c, s : c = a \div b /\ s = a % b OBVIOUS
<1>2. c \in Int /\ s \in Nat /\ s < b /\ a = c * b + s BY <1>1
<1>3. c >= 0
  <2>1. SUFFICES ASSUME c < 0 PROVE FALSE BY <1>2
  <2>2. PICK m \in Nat : m = -c /\ m >= 1 BY <1>2, <2>1
  <2>3. m * b >= b BY <2>2
  <2>4. c * b = -(m * b) BY <1>2, <2>2
  <2>5. PICK w \in Nat : w = m * b BY <2>2
  <2>6. a = -w + s /\ w >= b BY <1>2, <2>3, <2>4, <2>5
  <2>. QED BY <1>2, <2>6
<1>4. c \in Nat BY <1>2, <1>3
<1>. QED BY <1>1, <1>2, <1>4

LEMMA Sizing ==
  /\ B \in Nat /\ B > 0 /\ SPC \in Nat /\ SPC > 0 /\ EPS \in Nat /\ EPS > 0
  /\ EntrySize \in Nat /\ EntrySize > 0 /\ EntrySize * EPS = B
  /\ VnodeCount \in Nat /\ VnodeCount > 0 /\ Sizes \subseteq Nat
<1>1. /\ B \in Nat /\ B > 0 /\ SPC \in Nat /\ SPC > 0 /\ EPS \in Nat /\ EPS > 0
      /\ VnodeCount \in Nat /\ VnodeCount > 0 /\ Sizes \subseteq Nat
  BY FatAssumption
<1>2. B % EPS = 0 BY FatAssumption
<1>3. PICK q \in Nat, r \in Nat : q = B \div EPS /\ r = B % EPS /\ B = q * EPS + r
  BY <1>1, Divided
<1>4. B = q * EPS BY <1>1, <1>2, <1>3
<1>5. q > 0 BY <1>1, <1>4
<1>. QED BY <1>1, <1>3, <1>4, <1>5 DEF EntrySize

\* A place in sectors of clusters, taken apart.
LEMMA Split3 ==
  ASSUME NEW c \in Nat, c > 0, NEW k \in Nat, NEW s \in Nat, s < SPC, NEW x \in Nat, x < c,
         NEW m, m = k * SPC + s, NEW a, a = m * c + x
  PROVE  /\ a \in Nat /\ a \div c = m /\ a % c = x /\ a \div (SPC * c) = k
         /\ (a \div c) \div SPC = k /\ (a \div c) % SPC = s
<1>0. SPC \in Nat /\ SPC > 0 BY Sizing
<1>1. k * SPC + s \in Nat /\ (k * SPC + s) \div SPC = k /\ (k * SPC + s) % SPC = s
  BY <1>0, Division
<1>2. PICK q \in Nat : q = k * SPC + s BY <1>1
<1>3. q * c + x \in Nat /\ (q * c + x) \div c = q /\ (q * c + x) % c = x BY Division
<1>4. PICK d \in Nat, y \in Nat : d = SPC * c /\ y = s * c + x BY <1>0
<1>5. d > 0 BY <1>0, <1>4
<1>6. y < d
  <2>1. s * c + c <= SPC * c
    <3>1. (s + 1) * c <= SPC * c BY <1>0
    <3>. QED BY <1>0, <3>1
  <2>. QED BY <1>0, <1>4, <2>1
<1>7. q * c + x = k * d + y
  <2>1. q * c = k * SPC * c + s * c BY <1>0, <1>2
  <2>2. k * SPC * c = k * (SPC * c) BY <1>0
  <2>. QED BY <1>0, <1>4, <2>1, <2>2
<1>8. (k * d + y) \div d = k BY <1>5, <1>6, Division
<1>. QED BY <1>1, <1>2, <1>3, <1>4, <1>7, <1>8

-----------------------------------------------------------------------------
(* The volume.                                                             *)

LEMMA Chained ==
  ASSUME NEW n \in Names
  PROVE  /\ Entry[n].chain \in Seq(Nat \ {0, 1}) /\ Len(Entry[n].chain) \in Nat
         /\ \A k \in Nat : k < Len(Entry[n].chain) => Entry[n].chain[k + 1] \in Nat /\ Entry[n].chain[k + 1] >= 2
         /\ Entry[n].size \in Nat /\ First(n) \in Nat
         /\ Entry[n].chain # <<>> => First(n) = Entry[n].chain[1]
         /\ Entry[n].chain = <<>> => First(n) = 0
<1>1. PICK ch : ch = Entry[n].chain OBVIOUS
<1>7. ch \in Seq(2 .. EndOfChain - 1) /\ Entry[n].size \in Nat BY <1>1, VolumeAssumption
<1>2. ch \in Seq(Nat \ {0, 1}) /\ Entry[n].size \in Nat
  <2>1. PICK S : S = 2 .. EndOfChain - 1 OBVIOUS
  <2>2. S \subseteq Nat \ {0, 1} BY <2>1 DEF EndOfChain
  <2>3. ch \in Seq(S) BY <1>7, <2>1
  <2>4. PICK l \in Nat : l = Len(ch) /\ ch \in [1..l -> S] BY <2>3
  <2>5. ch \in [1..l -> Nat \ {0, 1}] BY <2>2, <2>4
  <2>6. \A T : [1..l -> T] \subseteq Seq(T) OBVIOUS
  <2>. QED BY <1>7, <2>5, <2>6
<1>3. Len(ch) \in Nat /\ \A i \in 1..Len(ch) : ch[i] \in Nat \ {0, 1} BY <1>2
<1>4. \A k \in Nat : k < Len(ch) => ch[k + 1] \in Nat /\ ch[k + 1] >= 2
  <2>1. ASSUME NEW k \in Nat, k < Len(ch) PROVE ch[k + 1] \in Nat /\ ch[k + 1] >= 2
    <3>1. k + 1 \in 1..Len(ch) BY <1>3, <2>1
    <3>2. ch[k + 1] \in Nat \ {0, 1} BY <1>3, <3>1
    <3>. QED BY <3>2
  <2>. QED BY <2>1
<1>5. First(n) = IF ch = <<>> THEN 0 ELSE ch[1] BY <1>1 DEF First
<1>6. ch # <<>> => ch[1] \in Nat
  <2>1. ch # <<>> => 0 < Len(ch) BY <1>2
  <2>. QED BY <1>4, <2>1
<1>. QED BY <1>1, <1>2, <1>3, <1>4, <1>5, <1>6

LEMMA DirectoryFacts ==
  ASSUME NEW d \in {ROOT} \cup Directories
  PROVE  /\ Stream[d] \in Seq(Names \cup {SkipEntry, EndEntry})
         /\ Len(Stream[d]) \in Nat /\ Len(Stream[d]) >= 1
         /\ \A i \in 1..Len(Stream[d]) :
              /\ Stream[d][i] \in Names \cup {SkipEntry, EndEntry}
              /\ Stream[d][i] = EndEntry <=> i = Len(Stream[d])
         /\ d = ROOT => Len(Stream[d]) <= MaxRootEntries
         /\ d # ROOT => /\ d \in Names /\ Entry[d].size = 0
                        /\ Len(Stream[d]) <= Len(Entry[d].chain) * SPC * EPS
<1>1. PICK s : s = Stream[d] OBVIOUS
<1>2. /\ s \in Seq(Names \cup {SkipEntry, EndEntry}) /\ s # <<>>
      /\ \A i \in DOMAIN s : s[i] = EndEntry <=> i = Len(s)
  BY <1>1, VolumeAssumption
<1>3. /\ Len(s) \in Nat /\ Len(s) >= 1 /\ DOMAIN s = 1..Len(s)
      /\ \A i \in 1..Len(s) : s[i] \in Names \cup {SkipEntry, EndEntry}
  BY <1>2
<1>4. d = ROOT => Len(s) <= MaxRootEntries BY <1>1, VolumeAssumption
<1>5. d # ROOT => d \in Directories BY <1>1
<1>6. d \in Directories => d \in Names BY DEF Directories
<1>7. d \in Directories => Entry[d].size = 0 /\ Len(s) <= Len(Entry[d].chain) * SPC * EPS
  BY <1>1, VolumeAssumption
<1>. QED BY <1>1, <1>2, <1>3, <1>4, <1>5, <1>6, <1>7

\* The FAT leads along the chain a cluster is in.
LEMMA NextOf ==
  ASSUME NEW n \in Names, NEW k \in Nat, k < Len(Entry[n].chain)
  PROVE  NextCluster(Entry[n].chain[k + 1])
           = IF k + 1 < Len(Entry[n].chain) THEN Entry[n].chain[k + 2] ELSE EndOfChain
<1>1. PICK ch, L : ch = Entry[n].chain /\ L = Len(ch) OBVIOUS
<1>2. PICK i : i = k + 1 OBVIOUS
<1>3. L \in Nat /\ ch \in Seq(Nat \ {0, 1}) /\ i \in 1..L /\ DOMAIN ch = 1..L BY <1>1, <1>2, Chained
<1>4. PICK c : c = ch[i] OBVIOUS
<1>5. ch \in Chains /\ c \in Range(ch) BY <1>1, <1>3, <1>4 DEF Chains, Range
<1>6. \A x \in Chains : c \in Range(x) => x = ch
  <2>1. ASSUME NEW m \in Names, c \in Range(Entry[m].chain) PROVE Entry[m].chain = ch
    <3>1. PICK j \in DOMAIN Entry[m].chain : Entry[m].chain[j] = c BY <2>1 DEF Range
    <3>2. n = m BY <1>1, <1>3, <1>4, <3>1, VolumeAssumption
    <3>. QED BY <1>1, <3>2
  <2>. QED BY <2>1 DEF Chains
<1>7. \A j \in DOMAIN ch : ch[j] = c => j = i
  BY <1>1, <1>3, <1>4, VolumeAssumption
<1>8. PICK x : x = CHOOSE y \in Chains : c \in Range(y) OBVIOUS
<1>9. PICK j : j = CHOOSE l \in DOMAIN x : x[l] = c OBVIOUS
<1>14. x = ch BY <1>5, <1>6, <1>8
<1>15. j = i BY <1>3, <1>4, <1>7, <1>9, <1>14
<1>10. c \in UNION {Range(y) : y \in Chains} BY <1>5
<1>11. c \in DOMAIN FatTable /\ FatTable[c] = IF i = Len(ch) THEN EndOfChain ELSE ch[i + 1]
  <2>1. c \in DOMAIN FatTable /\ FatTable[c] = IF j = Len(x) THEN EndOfChain ELSE x[j + 1]
    BY <1>8, <1>9, <1>10 DEF FatTable
  <2>. QED BY <2>1, <1>14, <1>15
<1>12. NextCluster(c) = IF i = Len(ch) THEN EndOfChain ELSE ch[i + 1] BY <1>11 DEF NextCluster
<1>13. (i = Len(ch) <=> ~(k + 1 < L)) /\ i + 1 = k + 2 BY <1>1, <1>2, <1>3
<1>. QED BY <1>1, <1>2, <1>4, <1>12, <1>13

\* Nothing follows what is in no chain.
LEMMA NextOfNone == NextCluster(0) = EndOfChain /\ NextCluster(EndOfChain) = EndOfChain
<1>3. PICK S : S = 2 .. EndOfChain - 1 OBVIOUS
<1>1. ASSUME NEW c \in DOMAIN FatTable PROVE c \in S
  <2>1. PICK n \in Names : c \in Range(Entry[n].chain) BY <1>1 DEF FatTable, Chains
  <2>2. PICK ch : ch = Entry[n].chain /\ ch \in Seq(S) BY <1>3, VolumeAssumption
  <2>3. PICK i \in DOMAIN ch : c = ch[i] BY <2>1, <2>2 DEF Range
  <2>4. i \in 1..Len(ch) BY <2>2
  <2>. QED BY <2>2, <2>3, <2>4
<1>4. 0 \notin S /\ EndOfChain \notin S BY <1>3 DEF EndOfChain
<1>2. 0 \notin DOMAIN FatTable /\ EndOfChain \notin DOMAIN FatTable BY <1>1, <1>4
<1>. QED BY <1>2 DEF NextCluster

LEMMA NextInt == \A c : NextCluster(c) \in Int
<1>1. EndOfChain \in Int BY DEF EndOfChain
<1>2. ASSUME NEW c \in DOMAIN FatTable PROVE FatTable[c] \in Int
  <2>1. c \in UNION {Range(x) : x \in Chains} BY <1>2 DEF FatTable
  <2>2. PICK ch : ch = CHOOSE x \in Chains : c \in Range(x) OBVIOUS
  <2>3. ch \in Chains /\ c \in Range(ch) BY <2>1, <2>2
  <2>4. PICK n \in Names : ch = Entry[n].chain BY <2>3 DEF Chains
  <2>5. ch \in Seq(Nat \ {0, 1}) BY <2>4, Chained
  <2>6. PICK i : i = CHOOSE j \in DOMAIN ch : ch[j] = c OBVIOUS
  <2>7. i \in DOMAIN ch BY <2>3, <2>6 DEF Range
  <2>8. i \in 1..Len(ch) /\ Len(ch) \in Nat BY <2>5, <2>7
  <2>9. i # Len(ch) => i + 1 \in 1..Len(ch) BY <2>8
  <2>10. i # Len(ch) => ch[i + 1] \in Int BY <2>5, <2>9
  <2>11. FatTable[c] = IF i = Len(ch) THEN EndOfChain ELSE ch[i + 1]
    BY <2>1, <2>2, <2>6 DEF FatTable
  <2>. QED BY <1>1, <2>10, <2>11
<1>. QED BY <1>1, <1>2 DEF NextCluster

-----------------------------------------------------------------------------
(* Moving on.                                                              *)

\* The fields a move leaves alone.
SameNode(q, r) ==
    /\ q.count = r.count /\ q.fnode = r.fnode /\ q.entry = r.entry /\ q.first = r.first
    /\ q.dir = r.dir /\ q.size = r.size

\* q stands n units after r, of which a sector has c and of which r has x behind it.
Advanced(q, r, c, x, n) ==
    IF x + n < c THEN q.cluster = r.cluster /\ q.sec = r.sec
    ELSE IF r.sec + 1 < SPC THEN q.cluster = r.cluster /\ q.sec = r.sec + 1
    ELSE q.cluster = NextCluster(r.cluster) /\ q.sec = 0

LEMMA DroppedFields ==
  ASSUME NEW r \in Held
  PROVE  /\ Dropped(r) \in Held /\ SameNode(Dropped(r), r) /\ Dropped(r).buf = Dropped(r).tag
         /\ Dropped(r).cluster = r.cluster /\ Dropped(r).sec = r.sec /\ Dropped(r).byte = r.byte
         /\ Dropped(r).pos = r.pos /\ Dropped(r).want = r.want
<1>1. PICK z \in Int : z = NoSector BY DEF NoSector
<1>2. Dropped(r) = [r EXCEPT !.buf = z, !.tag = z] BY <1>1 DEF Dropped
<1>3. Dropped(r) \in Held BY <1>2 DEF Held
<1>. QED BY <1>2, <1>3 DEF Held, SameNode

LEMMA LoadedFields ==
  ASSUME NEW r \in Held, NEW s \in Int, r.buf = r.tag
  PROVE  /\ Loaded(r, s) \in Held /\ SameNode(Loaded(r, s), r)
         /\ Loaded(r, s).buf = s /\ Loaded(r, s).tag = s
         /\ Loaded(r, s).cluster = r.cluster /\ Loaded(r, s).sec = r.sec
         /\ Loaded(r, s).byte = r.byte
         /\ Loaded(r, s).pos = r.pos /\ Loaded(r, s).want = r.want
BY DEF Loaded, Held, SameNode

LEMMA MovedFields ==
  ASSUME NEW r \in Held, NEW n \in Nat, r.buf = r.tag
  PROVE  /\ Moved(r, n) \in Held /\ SameNode(Moved(r, n), r) /\ Moved(r, n).buf = Moved(r, n).tag
         /\ Moved(r, n).pos = r.pos /\ Moved(r, n).want = r.want
         /\ Moved(r, n).byte = IF r.byte + n < B THEN r.byte + n ELSE 0
         /\ Advanced(Moved(r, n), r, B, r.byte, n)
<1>1. CASE r.byte + n < B
  BY <1>1 DEF Moved, Held, SameNode, Advanced
<1>2. CASE ~(r.byte + n < B) /\ r.sec + 1 < SPC
  <2>1. Moved(r, n) = [Dropped(r) EXCEPT !.byte = 0, !.sec = @ + 1] BY <1>2 DEF Moved
  <2>2. PICK d \in Held : /\ d = Dropped(r) /\ SameNode(d, r) /\ d.buf = d.tag
                          /\ d.cluster = r.cluster /\ d.sec = r.sec
                          /\ d.pos = r.pos /\ d.want = r.want
    BY DroppedFields
  <2>3. Moved(r, n) = [d EXCEPT !.byte = 0, !.sec = @ + 1] BY <2>1, <2>2
  <2>4. PICK q : q = Moved(r, n) OBVIOUS
  <2>10. PICK s \in Nat : s = d.sec + 1 BY DEF Held
  <2>5. q = [d EXCEPT !.byte = 0, !.sec = s] BY <2>3, <2>4, <2>10
  <2>6. q \in Held BY <2>5 DEF Held
  <2>7. /\ SameNode(q, d) /\ q.buf = d.buf /\ q.tag = d.tag /\ q.pos = d.pos /\ q.want = d.want
        /\ q.byte = 0 /\ q.sec = d.sec + 1 /\ q.cluster = d.cluster
    BY <2>5, <2>10 DEF Held, SameNode
  <2>8. SameNode(q, r) BY <2>2, <2>7 DEF SameNode
  <2>9. Advanced(q, r, B, r.byte, n) BY <1>2, <2>2, <2>7 DEF Advanced
  <2>. QED BY <1>2, <2>2, <2>4, <2>6, <2>7, <2>8, <2>9
<1>3. CASE ~(r.byte + n < B) /\ ~(r.sec + 1 < SPC)
  <2>1. Moved(r, n) = [Dropped(r) EXCEPT !.byte = 0, !.sec = 0, !.cluster = NextCluster(@)]
    BY <1>3 DEF Moved
  <2>2. PICK d \in Held : /\ d = Dropped(r) /\ SameNode(d, r) /\ d.buf = d.tag
                          /\ d.cluster = r.cluster /\ d.sec = r.sec
                          /\ d.pos = r.pos /\ d.want = r.want
    BY DroppedFields
  <2>3. PICK c \in Int : c = NextCluster(r.cluster) BY NextInt
  <2>4. Moved(r, n) = [d EXCEPT !.byte = 0, !.sec = 0, !.cluster = c] BY <2>1, <2>2, <2>3
  <2>5. PICK q : q = Moved(r, n) OBVIOUS
  <2>6. q = [d EXCEPT !.byte = 0, !.sec = 0, !.cluster = c] BY <2>4, <2>5
  <2>7. q \in Held BY <2>6 DEF Held
  <2>8. /\ SameNode(q, d) /\ q.buf = d.buf /\ q.tag = d.tag /\ q.pos = d.pos /\ q.want = d.want
        /\ q.byte = 0 /\ q.sec = 0 /\ q.cluster = c
    BY <2>6 DEF Held, SameNode
  <2>9. SameNode(q, r) BY <2>2, <2>8 DEF SameNode
  <2>10. Advanced(q, r, B, r.byte, n) BY <1>3, <2>3, <2>8 DEF Advanced
  <2>. QED BY <1>3, <2>2, <2>5, <2>7, <2>8, <2>9, <2>10
<1>. QED BY <1>1, <1>2, <1>3

\* A cluster number is no more than the units before it.
LEMMA Reach ==
  ASSUME NEW c \in Nat, c > 0, NEW k \in Nat, NEW s \in Nat, NEW x \in Nat
  PROVE  (k * SPC + s) * c + x \in Nat /\ k <= (k * SPC + s) * c + x
<1>1. SPC \in Nat /\ SPC > 0 BY Sizing
<1>2. PICK m \in Nat : m = k * SPC + s BY <1>1
<1>3. k <= m
  <2>1. k * SPC >= k BY <1>1
  <2>. QED BY <1>1, <1>2, <2>1
<1>4. m * c >= m /\ m * c \in Nat OBVIOUS
<1>. QED BY <1>2, <1>3, <1>4

\* A vnode c units from the start of its sector is n units on after a move.
LEMMA Further ==
  ASSUME NEW c \in Nat, c > 0, NEW e \in Names, NEW r, NEW q, NEW k \in Nat, NEW x \in Nat,
         NEW n \in Nat, n > 0, x < c, x + n <= c, r.entry = e, q.entry = e,
         r.sec \in Nat, q.sec \in Nat,
         r.sec < SPC, Follows(r, k), Advanced(q, r, c, x, n)
  PROVE  \E l \in Nat :
           /\ (k * SPC + r.sec) * c + x + n
                = (l * SPC + q.sec) * c + (IF x + n < c THEN x + n ELSE 0)
           /\ q.sec < SPC /\ Follows(q, l)
<1>1. SPC \in Nat /\ SPC > 0 BY Sizing
<1>2. CASE x + n < c
  <2>1. q.cluster = r.cluster /\ q.sec = r.sec BY <1>2 DEF Advanced
  <2>2. Follows(q, k) BY <2>1 DEF Follows
  <2>. QED BY <1>1, <1>2, <2>1, <2>2
<1>3. CASE ~(x + n < c) /\ r.sec + 1 < SPC
  <2>1. q.cluster = r.cluster /\ q.sec = r.sec + 1 BY <1>3 DEF Advanced
  <2>2. Follows(q, k) BY <2>1 DEF Follows
  <2>3. x + n = c BY <1>3
  <2>4. PICK m \in Nat : m = k * SPC + r.sec BY <1>1
  <2>5. m * c + x + n = (m + 1) * c + 0 BY <2>3
  <2>6. k * SPC + q.sec = m + 1 BY <1>1, <2>1, <2>4
  <2>. QED BY <1>3, <2>1, <2>2, <2>4, <2>5, <2>6
<1>4. CASE ~(x + n < c) /\ ~(r.sec + 1 < SPC)
  <2>1. q.cluster = NextCluster(r.cluster) /\ q.sec = 0 BY <1>4 DEF Advanced
  <2>2. r.sec = SPC - 1 /\ x + n = c BY <1>1, <1>4
  <2>3. PICK L \in Nat : L = Len(Entry[e].chain) BY Chained
  <2>4. Follows(q, k + 1)
    <3>1. SUFFICES ASSUME k + 1 < L PROVE q.cluster = Entry[e].chain[k + 2]
      BY <2>3 DEF Follows
    <3>2. k < L BY <2>3, <3>1
    <3>3. r.cluster = Entry[e].chain[k + 1] BY <2>3, <3>2 DEF Follows
    <3>. QED BY <2>1, <2>3, <3>1, <3>2, <3>3, NextOf
  <2>5. PICK m \in Nat : m = k * SPC + r.sec BY <1>1
  <2>6. m * c + x + n = (m + 1) * c + 0 BY <2>2
  <2>7. (k + 1) * SPC + q.sec = m + 1 BY <1>1, <2>1, <2>2, <2>5
  <2>. QED BY <1>1, <1>4, <2>1, <2>4, <2>5, <2>6, <2>7
<1>. QED BY <1>2, <1>3, <1>4

\* _fnode_read: after n bytes of its sector a file is n bytes on.
LEMMA FileMoves ==
  ASSUME NEW r \in Held, r.entry \in Names, r.want >= 0, OnFile(r), r.buf = r.tag,
         NEW n \in Nat, n > 0, r.byte + n <= B,
         NEW q \in Held, SameNode(q, r), q.want = r.want + n,
         Advanced(q, r, B, r.byte, n), q.byte = IF r.byte + n < B THEN r.byte + n ELSE 0
  PROVE  OnFile(q)
<1>1. r.entry = q.entry /\ r.sec \in Nat /\ q.sec \in Nat /\ r.byte \in Nat /\ r.want \in Nat
  BY DEF Held, SameNode
<1>2. PICK k \in 0..r.want :
        r.want = (k * SPC + r.sec) * B + r.byte /\ r.sec < SPC /\ r.byte < B /\ Follows(r, k)
  BY DEF OnFile
<1>3. k \in Nat BY <1>1, <1>2
<1>4. PICK l \in Nat :
         /\ (k * SPC + r.sec) * B + r.byte + n
              = (l * SPC + q.sec) * B + (IF r.byte + n < B THEN r.byte + n ELSE 0)
         /\ q.sec < SPC /\ Follows(q, l)
  <2>1. PICK e \in Names, x \in Nat : e = r.entry /\ x = r.byte BY <1>1
  <2>2. \E l \in Nat :
         /\ (k * SPC + r.sec) * B + x + n
              = (l * SPC + q.sec) * B + (IF x + n < B THEN x + n ELSE 0)
         /\ q.sec < SPC /\ Follows(q, l)
    BY <1>1, <1>2, <1>3, <2>1, Sizing, Further
  <2>. QED BY <2>1, <2>2
<1>5. q.want = (l * SPC + q.sec) * B + q.byte BY <1>2, <1>4
<1>6. q.byte \in Nat /\ q.byte < B BY <1>1, Sizing
<1>7. l <= q.want
  <2>1. l <= (l * SPC + q.sec) * B + q.byte BY <1>1, <1>6, Sizing, Reach
  <2>. QED BY <1>5, <2>1
<1>8. l \in 0..q.want BY <1>1, <1>7
<1>. QED BY <1>4, <1>5, <1>6, <1>8 DEF OnFile

-----------------------------------------------------------------------------
(* Where entries and bytes are.                                            *)

\* Short of the end of the chain there is a cluster left.
LEMMA Below ==
  ASSUME NEW c \in Nat, c > 0, NEW k \in Nat, NEW s \in Nat, NEW x \in Nat, NEW L \in Nat,
         (k * SPC + s) * c + x < L * SPC * c
  PROVE  k < L
<1>1. SPC \in Nat /\ SPC > 0 BY Sizing
<1>2. SUFFICES ASSUME k >= L PROVE FALSE OBVIOUS
<1>3. k * SPC >= L * SPC /\ L * SPC \in Nat /\ k * SPC \in Nat BY <1>1, <1>2
<1>4. PICK m \in Nat, l \in Nat : m = k * SPC + s /\ l = L * SPC /\ m >= l BY <1>1, <1>3
<1>5. m * c >= l * c BY <1>4
<1>6. PICK mc \in Nat, lc \in Nat : mc = m * c /\ lc = l * c BY <1>4
<1>7. mc + x < lc BY <1>4, <1>6
<1>. QED BY <1>5, <1>6, <1>7

\* _fnode_read: where the byte after the first n of those a vnode is before lies.
LEMMA ByteHere ==
  ASSUME NEW r \in Held, r.entry \in Names, r.want >= 0, OnFile(r), NEW n \in Nat,
         r.byte + n < B, r.want + n < Entry[r.entry].size
  PROVE  Location(r.entry, r.want + n) = <<Here(r), r.byte + n>>
<1>1. PICK e \in Names, L \in Nat : e = r.entry /\ L = Len(Entry[e].chain) BY Chained
<1>2. r.sec \in Nat /\ r.byte \in Nat /\ r.want \in Nat BY DEF Held
<1>3. PICK k \in 0..r.want :
        r.want = (k * SPC + r.sec) * B + r.byte /\ r.sec < SPC /\ Follows(r, k)
  BY DEF OnFile
<1>4. k \in Nat BY <1>2, <1>3
<1>5. PICK x \in Nat : x = r.byte + n BY <1>2
<1>6. PICK q \in Nat : q = r.want + n BY <1>2
<1>7. q = (k * SPC + r.sec) * B + x
  <2>1. PICK w \in Nat : w = (k * SPC + r.sec) * B BY <1>2, <1>4, Sizing
  <2>. QED BY <1>2, <1>3, <1>5, <1>6, <2>1
<1>8. Entry[e].size <= L * SPC * B /\ Entry[e].size \in Nat BY <1>1, VolumeAssumption
<1>9. L * SPC * B \in Nat BY Sizing
<1>10. q < L * SPC * B BY <1>1, <1>6, <1>8, <1>9
<1>11. k < L BY <1>2, <1>4, <1>5, <1>7, <1>10, Sizing, Below
<1>12. r.cluster = Entry[e].chain[k + 1] BY <1>1, <1>3, <1>11 DEF Follows
<1>13. q \div (SPC * B) = k /\ (q \div B) % SPC = r.sec /\ q % B = x
  <2>1. PICK s \in Nat : s = r.sec /\ s < SPC BY <1>2, <1>3
  <2>2. x < B BY <1>5
  <2>3. PICK m : m = k * SPC + s /\ q = m * B + x BY <1>7, <2>1
  <2>4. B \in Nat /\ B > 0 BY Sizing
  <2>5. q \div (SPC * B) = k /\ q % B = x /\ (q \div B) % SPC = s
    BY <1>4, <2>1, <2>2, <2>3, <2>4, Split3
  <2>. QED BY <2>1, <2>5
<1>14. Location(e, q) = <<Sector(Entry[e].chain[k + 1], r.sec), x>> BY <1>13 DEF Location
<1>. QED BY <1>1, <1>5, <1>6, <1>12, <1>14 DEF Here

\* The entry that follows the first i of a directory.
EntryPlace(d, i, a, x) ==
    /\ i = a * EPS + x /\ x < EPS
    /\ Place(d, i + 1) = <<DirSector(d, i + 1), x * EntrySize>>
    /\ d = ROOT => DirSector(d, i + 1) = RootStart + a /\ a < MaxRootEntries \div EPS
    /\ d # ROOT => \E k, s \in Nat :
                     /\ a = k * SPC + s /\ s < SPC /\ k < Len(Entry[d].chain)
                     /\ DirSector(d, i + 1) = Sector(Entry[d].chain[k + 1], s)

LEMMA RootRoom == MaxRootEntries \div EPS \in Nat /\ MaxRootEntries = (MaxRootEntries \div EPS) * EPS
<1>1. MaxRootEntries \in Nat /\ MaxRootEntries % EPS = 0 BY FatAssumption
<1>2. PICK q \in Nat, r \in Nat :
        q = MaxRootEntries \div EPS /\ r = MaxRootEntries % EPS /\ MaxRootEntries = q * EPS + r
  BY <1>1, Sizing, Divided
<1>3. MaxRootEntries = q * EPS BY <1>1, <1>2, Sizing
<1>. QED BY <1>2, <1>3

LEMMA Placed ==
  ASSUME NEW d \in {ROOT} \cup Directories, NEW i \in Nat, i < Len(Stream[d])
  PROVE  \E a, x \in Nat : EntryPlace(d, i, a, x)
<1>1. PICK a \in Nat, x \in Nat : a = i \div EPS /\ x = i % EPS /\ x < EPS /\ i = a * EPS + x
  BY Sizing, Divided
<1>2. (i + 1) - 1 = i OBVIOUS
<1>3. Place(d, i + 1) = <<DirSector(d, i + 1), x * EntrySize>> BY <1>1, <1>2 DEF Place
<1>4. PICK S \in Nat : S = Len(Stream[d]) /\ i < S BY DirectoryFacts
<1>5. CASE d = ROOT
  <2>1. DirSector(d, i + 1) = RootStart + a BY <1>1, <1>2, <1>5 DEF DirSector
  <2>2. PICK m \in Nat : m = MaxRootEntries \div EPS /\ MaxRootEntries = m * EPS BY RootRoom
  <2>3. a * EPS < m * EPS BY <1>1, <1>4, <1>5, <2>2, DirectoryFacts, Sizing
  <2>4. a < m
    <3>1. SUFFICES ASSUME a >= m PROVE FALSE OBVIOUS
    <3>2. a * EPS >= m * EPS BY <3>1, Sizing
    <3>. QED BY <2>3, <3>2, Sizing
  <2>. QED BY <1>1, <1>3, <1>5, <2>1, <2>2, <2>4 DEF EntryPlace
<1>6. CASE d # ROOT
  <2>1. PICK L \in Nat : L = Len(Entry[d].chain) /\ S <= L * SPC * EPS
    BY <1>4, <1>6, DirectoryFacts, Chained
  <2>2. PICK k \in Nat, s \in Nat : k = a \div SPC /\ s = a % SPC /\ s < SPC /\ a = k * SPC + s
    BY Sizing, Divided
  <2>3. L * SPC * EPS \in Nat BY Sizing
  <2>4. (k * SPC + s) * EPS + x < L * SPC * EPS BY <1>1, <1>4, <2>1, <2>2, <2>3
  <2>5. k < L BY <2>4, Sizing, Below
  <2>6. DirSector(d, i + 1) = Sector(Entry[d].chain[k + 1], s)
    BY <1>1, <1>2, <1>6, <2>2 DEF DirSector
  <2>. QED BY <1>1, <1>3, <1>6, <2>1, <2>2, <2>5, <2>6 DEF EntryPlace
<1>. QED BY <1>5, <1>6

\* Sectors in different places of different clusters differ.
LEMMA SectorApart ==
  ASSUME NEW c \in Nat, c >= 2, NEW d \in Nat, d >= 2, NEW s \in Nat, s < SPC,
         NEW t \in Nat, t < SPC, Sector(c, s) = Sector(d, t)
  PROVE  c = d /\ s = t
<1>1. PICK i \in Nat, j \in Nat : i = c - 2 /\ j = d - 2 OBVIOUS
<1>2. DataStart \in Int BY RootRoom DEF DataStart, RootStart
<1>3. i * SPC + s \in Nat /\ j * SPC + t \in Nat BY Sizing
<1>4. Sector(c, s) = DataStart + (i * SPC + s) /\ Sector(d, t) = DataStart + (j * SPC + t)
  BY <1>1, <1>2, <1>3, Sizing DEF Sector
<1>9. PICK u \in Nat, w \in Nat : u = i * SPC + s /\ w = j * SPC + t BY <1>3
<1>5. DataStart + u = DataStart + w BY <1>4, <1>9
<1>10. u = w BY <1>2, <1>5
<1>6. PICK a : a = i * SPC + s /\ a = j * SPC + t BY <1>9, <1>10
<1>7. a \div SPC = i /\ a % SPC = s BY <1>6, Sizing, Division
<1>8. a \div SPC = j /\ a % SPC = t BY <1>6, Sizing, Division
<1>. QED BY <1>1, <1>7, <1>8

LEMMA SectorHigh ==
  ASSUME NEW c \in Nat, c >= 2, NEW s \in Nat
  PROVE  Sector(c, s) \in Int /\ Sector(c, s) >= DataStart
<1>1. PICK i \in Nat : i = c - 2 OBVIOUS
<1>2. DataStart \in Int BY RootRoom DEF DataStart, RootStart
<1>3. i * SPC \in Nat BY Sizing
<1>. QED BY <1>1, <1>2, <1>3, Sizing DEF Sector

LEMMA Apart ==
  ASSUME NEW d \in {ROOT} \cup Directories, NEW e \in {ROOT} \cup Directories,
         NEW i \in Nat, i < Len(Stream[d]), NEW j \in Nat, j < Len(Stream[e]),
         Place(d, i + 1) = Place(e, j + 1)
  PROVE  d = e /\ i = j
<1>1. PICK a \in Nat, x \in Nat : EntryPlace(d, i, a, x) BY Placed
<1>2. PICK b \in Nat, y \in Nat : EntryPlace(e, j, b, y) BY Placed
<1>3. DirSector(d, i + 1) = DirSector(e, j + 1) /\ x * EntrySize = y * EntrySize
  BY <1>1, <1>2 DEF EntryPlace
<1>4. x = y
  <2>1. PICK w \in Nat : w = EntrySize /\ w > 0 BY Sizing
  <2>2. (x * w) \div w = x /\ (y * w) \div w = y
    <3>1. x * w + 0 = x * w /\ y * w + 0 = y * w BY <2>1
    <3>. QED BY <2>1, <3>1, Division
  <2>. QED BY <1>3, <2>1, <2>2
<1>5. a = b => i = j
  <2>1. i = a * EPS + x /\ j = b * EPS + y BY <1>1, <1>2 DEF EntryPlace
  <2>. QED BY <1>4, <2>1
<1>6. PICK M \in Nat : M = MaxRootEntries \div EPS BY RootRoom
<1>7. RootStart \in Int /\ DataStart = RootStart + M BY <1>6 DEF DataStart, RootStart
<1>8. CASE d = ROOT /\ e = ROOT
  <2>1. RootStart + a = RootStart + b BY <1>1, <1>2, <1>3, <1>8 DEF EntryPlace
  <2>. QED BY <1>5, <1>7, <1>8, <2>1
<1>9. \A f \in {ROOT} \cup Directories : f # ROOT => f \in Names
  BY DEF Directories
<1>10. CASE d # ROOT /\ e = ROOT
  <2>1. PICK k \in Nat, s \in Nat : k < Len(Entry[d].chain)
                                    /\ DirSector(d, i + 1) = Sector(Entry[d].chain[k + 1], s)
    BY <1>1, <1>10 DEF EntryPlace
  <2>2. Sector(Entry[d].chain[k + 1], s) >= DataStart BY <1>9, <1>10, <2>1, Chained, SectorHigh
  <2>3. DirSector(e, j + 1) = RootStart + b /\ b < M BY <1>2, <1>6, <1>10 DEF EntryPlace
  <2>. QED BY <1>3, <1>7, <2>1, <2>2, <2>3
<1>11. CASE d = ROOT /\ e # ROOT
  <2>1. PICK k \in Nat, s \in Nat : k < Len(Entry[e].chain)
                                    /\ DirSector(e, j + 1) = Sector(Entry[e].chain[k + 1], s)
    BY <1>2, <1>11 DEF EntryPlace
  <2>2. Sector(Entry[e].chain[k + 1], s) >= DataStart BY <1>9, <1>11, <2>1, Chained, SectorHigh
  <2>3. DirSector(d, i + 1) = RootStart + a /\ a < M BY <1>1, <1>6, <1>11 DEF EntryPlace
  <2>. QED BY <1>3, <1>7, <2>1, <2>2, <2>3
<1>12. CASE d # ROOT /\ e # ROOT
  <2>1. PICK k \in Nat, s \in Nat : /\ a = k * SPC + s /\ s < SPC /\ k < Len(Entry[d].chain)
                                    /\ DirSector(d, i + 1) = Sector(Entry[d].chain[k + 1], s)
    BY <1>1, <1>12 DEF EntryPlace
  <2>2. PICK l \in Nat, t \in Nat : /\ b = l * SPC + t /\ t < SPC /\ l < Len(Entry[e].chain)
                                    /\ DirSector(e, j + 1) = Sector(Entry[e].chain[l + 1], t)
    BY <1>2, <1>12 DEF EntryPlace
  <2>3. d \in Names /\ e \in Names BY <1>9, <1>12
  <2>4. PICK g, h : g = Entry[d].chain /\ h = Entry[e].chain OBVIOUS
  <2>5. /\ g[k + 1] \in Nat /\ g[k + 1] >= 2 /\ h[l + 1] \in Nat /\ h[l + 1] >= 2
        /\ k + 1 \in DOMAIN g /\ l + 1 \in DOMAIN h
    <3>1. g \in Seq(Nat \ {0, 1}) /\ h \in Seq(Nat \ {0, 1}) BY <2>3, <2>4, Chained
    <3>3. PICK K \in Nat, L \in Nat : K = Len(g) /\ L = Len(h) /\ k < K /\ l < L
      BY <2>1, <2>2, <2>3, <2>4, Chained
    <3>4. DOMAIN g = 1..K /\ DOMAIN h = 1..L BY <3>1, <3>3
    <3>2. k + 1 \in DOMAIN g /\ l + 1 \in DOMAIN h BY <3>3, <3>4
    <3>. QED BY <2>1, <2>2, <2>3, <2>4, <3>2, Chained
  <2>6. Sector(g[k + 1], s) = Sector(h[l + 1], t) BY <1>3, <2>1, <2>2, <2>4
  <2>7. g[k + 1] = h[l + 1] /\ s = t BY <2>1, <2>2, <2>5, <2>6, SectorApart
  <2>8. PICK i1, j1 : i1 = k + 1 /\ j1 = l + 1 OBVIOUS
  <2>10. i1 \in DOMAIN Entry[d].chain /\ j1 \in DOMAIN Entry[e].chain
         /\ Entry[d].chain[i1] = Entry[e].chain[j1]
    BY <2>4, <2>5, <2>7, <2>8
  <2>11. d = e /\ i1 = j1 BY <2>3, <2>10, VolumeAssumption
  <2>9. d = e /\ k = l BY <2>8, <2>11
  <2>. QED BY <1>5, <2>1, <2>2, <2>7, <2>9
<1>. QED BY <1>8, <1>10, <1>11, <1>12

\* What is found on the disk in the place of an entry is that entry.
LEMMA EntryRight ==
  ASSUME NEW d \in {ROOT} \cup Directories, NEW i \in Nat, i < Len(Stream[d])
  PROVE  EntryOn(Place(d, i + 1)) = {Stream[d][i + 1]}
<1>1. DOMAIN Stream = {ROOT} \cup Directories BY VolumeAssumption
<1>2. \A e \in DOMAIN Stream : DOMAIN Stream[e] = 1..Len(Stream[e]) /\ Len(Stream[e]) \in Nat
  BY <1>1, DirectoryFacts
<1>3. PICK p : p = <<d, i + 1>> OBVIOUS
<1>4. p \in Slots
  <2>1. i + 1 \in DOMAIN Stream[d] BY <1>1, <1>2
  <2>2. p \in {d} \X DOMAIN Stream[d] BY <1>3, <2>1
  <2>. QED BY <1>1, <2>2 DEF Slots
<1>5. PICK at : at = Place(d, i + 1) OBVIOUS
<1>6. \A q \in Slots : Place(q[1], q[2]) = at => q = p
  <2>1. SUFFICES ASSUME NEW q \in Slots, Place(q[1], q[2]) = at PROVE q = p OBVIOUS
  <2>2. PICK e \in DOMAIN Stream : q \in {e} \X DOMAIN Stream[e] BY DEF Slots
  <2>3. PICK m \in 1..Len(Stream[e]) : q = <<e, m>> BY <1>2, <2>2
  <2>4. PICK j \in Nat : j + 1 = m /\ j < Len(Stream[e])
    <3>1. m - 1 \in Nat /\ (m - 1) + 1 = m /\ m - 1 < Len(Stream[e]) BY <1>2, <2>3
    <3>. QED BY <3>1
  <2>5. Place(e, j + 1) = Place(d, i + 1) BY <1>5, <2>1, <2>3, <2>4
  <2>6. e = d /\ j = i BY <1>1, <2>4, <2>5, Apart
  <2>. QED BY <1>3, <2>3, <2>4, <2>6
<1>7. PICK q : q = CHOOSE r \in Slots : Place(r[1], r[2]) = at OBVIOUS
<1>8. Place(p[1], p[2]) = at BY <1>3, <1>5
<1>9. q = p BY <1>4, <1>6, <1>7, <1>8
<1>10. at \in DOMAIN Catalogue BY <1>4, <1>8 DEF Catalogue
<1>11. Catalogue[at] = Stream[q[1]][q[2]]
  BY <1>4, <1>7, <1>8 DEF Catalogue
<1>. QED BY <1>3, <1>5, <1>9, <1>10, <1>11 DEF EntryOn

\* Where the vnode of a directory other than the root is.
LEMMA InDirectory ==
  ASSUME NEW r \in Held, r.entry \in Directories, NEW i \in Nat, i < Len(Stream[r.entry]), OnDir(r, i)
  PROVE  \E j \in Nat, k \in Nat :
           /\ j < EPS /\ r.byte = j * EntrySize /\ i = (k * SPC + r.sec) * EPS + j /\ r.sec < SPC
           /\ Follows(r, k) /\ k < Len(Entry[r.entry].chain)
           /\ r.cluster = Entry[r.entry].chain[k + 1] /\ r.cluster >= 2
<1>1. r.entry \in Names /\ r.entry # ROOT BY VolumeAssumption DEF Directories
<1>2. PICK j \in 0..EPS-1, k \in 0..i :
        /\ r.byte = j * EntrySize
        /\ i = (k * SPC + r.sec) * EPS + j /\ r.sec < SPC /\ Follows(r, k)
  BY <1>1 DEF OnDir
<1>3. j \in Nat /\ j < EPS /\ k \in Nat /\ r.sec \in Nat BY <1>2, Sizing DEF Held
<1>4. PICK L \in Nat, S \in Nat : /\ L = Len(Entry[r.entry].chain) /\ S = Len(Stream[r.entry])
                                  /\ i < S /\ S <= L * SPC * EPS
  BY <1>1, DirectoryFacts, Chained
<1>5. L * SPC * EPS \in Nat BY Sizing
<1>6. (k * SPC + r.sec) * EPS + j < L * SPC * EPS BY <1>2, <1>4, <1>5
<1>7. k < L BY <1>3, <1>6, Sizing, Below
<1>8. r.cluster = Entry[r.entry].chain[k + 1] BY <1>2, <1>4, <1>7 DEF Follows
<1>9. Entry[r.entry].chain[k + 1] >= 2 BY <1>1, <1>3, <1>4, <1>7, Chained
<1>. QED BY <1>2, <1>3, <1>4, <1>7, <1>8, <1>9

\* _fnode_getdents: the entry that is read is the next.
LEMMA EntryHere ==
  ASSUME NEW r \in Held, r.entry \in {ROOT} \cup Directories,
         NEW i \in Nat, i < Len(Stream[r.entry]), OnDir(r, i)
  PROVE  /\ DentSector(r) \in Int /\ (r.cluster = 0 <=> r.entry = ROOT)
         /\ EntryOn(<<DentSector(r), r.byte>>) = {Stream[r.entry][i + 1]}
<1>1. PICK d \in {ROOT} \cup Directories : d = r.entry OBVIOUS
<1>2. (i + 1) - 1 = i OBVIOUS
<1>3. CASE d = ROOT
  <2>1. PICK j \in 0..EPS-1 : r.byte = j * EntrySize /\ r.cluster = 0 /\ i = r.sec * EPS + j
    BY <1>1, <1>3 DEF OnDir
  <2>2. r.sec \in Nat /\ j \in Nat /\ j < EPS BY <2>1, Sizing DEF Held
  <2>3. i \div EPS = r.sec /\ i % EPS = j BY <2>1, <2>2, Sizing, Division
  <2>4. Place(d, i + 1) = <<RootStart + r.sec, r.byte>>
    BY <1>2, <1>3, <2>1, <2>3 DEF Place, DirSector
  <2>5. DentSector(r) = RootStart + r.sec BY <2>1 DEF DentSector
  <2>6. RootStart + r.sec \in Int BY <2>2 DEF RootStart
  <2>. QED BY <1>1, <1>3, <2>1, <2>4, <2>5, <2>6, EntryRight
<1>4. CASE d # ROOT
  <2>1. PICK j \in Nat, k \in Nat :
           /\ j < EPS /\ r.byte = j * EntrySize /\ i = (k * SPC + r.sec) * EPS + j /\ r.sec < SPC
           /\ k < Len(Entry[d].chain)
           /\ r.cluster = Entry[d].chain[k + 1] /\ r.cluster >= 2
    BY <1>1, <1>4, InDirectory
  <2>2. r.sec \in Nat /\ d \in Names BY <1>4 DEF Held, Directories
  <2>3. PICK s \in Nat : s = r.sec /\ s < SPC BY <2>1, <2>2
  <2>8. PICK m \in Nat : m = k * SPC + s BY Sizing
  <2>9. i = m * EPS + j BY <2>1, <2>3, <2>8
  <2>10. j < EPS BY <2>1
  <2>4. i % EPS = j /\ (i \div EPS) \div SPC = k /\ (i \div EPS) % SPC = s
    <3>1. PICK c \in Nat : c = EPS /\ c > 0 BY Sizing
    <3>2. j < c /\ i = m * c + j BY <2>9, <2>10, <3>1
    <3>3. i \div c = m /\ i % c = j /\ (i \div c) \div SPC = k /\ (i \div c) % SPC = s
      BY <2>3, <2>8, <3>1, <3>2, Split3
    <3>. QED BY <3>1, <3>3
  <2>5. Place(d, i + 1) = <<Sector(r.cluster, r.sec), r.byte>>
    BY <1>2, <1>4, <2>1, <2>3, <2>4 DEF Place, DirSector
  <2>6. DentSector(r) = Sector(r.cluster, r.sec) BY <2>1 DEF DentSector, Here
  <2>7. Sector(r.cluster, r.sec) \in Int
    <3>1. r.cluster \in Nat BY <2>1, <2>2, Chained
    <3>. QED BY <2>1, <2>2, <3>1, SectorHigh
  <2>11. r.cluster # 0 BY <2>1
  <2>12. EntryOn(<<DentSector(r), r.byte>>) = {Stream[d][i + 1]} BY <1>1, <2>5, <2>6, EntryRight
  <2>. QED BY <1>1, <1>4, <2>6, <2>7, <2>11, <2>12
<1>. QED BY <1>3, <1>4

\* What comes after an entry.
LEMMA EnteredFields ==
  ASSUME NEW r \in Held, r.buf = r.tag
  PROVE  /\ Entered(r) \in Held /\ SameNode(Entered(r), r) /\ Entered(r).buf = Entered(r).tag
         /\ Entered(r).pos = r.pos /\ Entered(r).want = r.want
         /\ Entered(r).byte = IF r.byte + EntrySize < B THEN r.byte + EntrySize ELSE 0
         /\ r.cluster # 0 => Advanced(Entered(r), r, B, r.byte, EntrySize)
         /\ r.cluster = 0 => /\ Entered(r).cluster = 0
                             /\ Entered(r).sec = IF r.byte + EntrySize < B THEN r.sec ELSE r.sec + 1
<1>1. PICK w \in Nat : w = EntrySize BY Sizing
<1>2. CASE r.cluster # 0
  <2>1. Entered(r) = Moved(r, w) BY <1>1, <1>2 DEF Entered
  <2>. QED BY <1>1, <1>2, <2>1, MovedFields
<1>3. CASE r.cluster = 0
  <2>1. PICK s \in Nat, b \in Nat : s = r.sec + 1 /\ b = r.byte + w BY DEF Held
  <2>2. Entered(r) = IF b < B THEN [r EXCEPT !.byte = b] ELSE [r EXCEPT !.byte = 0, !.sec = s]
    BY <1>1, <1>3, <2>1 DEF Entered, RootEntered
  <2>3. CASE b < B
    <3>1. Entered(r) = [r EXCEPT !.byte = b] BY <2>2, <2>3
    <3>2. Entered(r) \in Held BY <3>1 DEF Held
    <3>. QED BY <1>1, <1>3, <2>1, <2>3, <3>1, <3>2 DEF Held, SameNode
  <2>4. CASE ~(b < B)
    <3>3. PICK z \in Nat : z = 0 OBVIOUS
    <3>1. Entered(r) = [r EXCEPT !.byte = z, !.sec = s] BY <2>2, <2>4, <3>3
    <3>2. Entered(r) \in Held BY <3>1 DEF Held
    <3>. QED BY <1>1, <1>3, <2>1, <2>4, <3>1, <3>2, <3>3 DEF Held, SameNode
  <2>. QED BY <2>3, <2>4
<1>. QED BY <1>2, <1>3

LEMMA DirectoryMoves ==
  ASSUME NEW r \in Held, r.entry \in {ROOT} \cup Directories, r.buf = r.tag,
         NEW i \in Nat, i < Len(Stream[r.entry]), OnDir(r, i),
         NEW q \in Held, q.entry = r.entry, q.cluster = Entered(r).cluster,
         q.sec = Entered(r).sec, q.byte = Entered(r).byte
  PROVE  OnDir(q, i + 1)
<1>1. PICK w \in Nat : w = EntrySize /\ w > 0 /\ w * EPS = B BY Sizing
<1>2. \A j \in Nat : j < EPS => (j * w + w < B <=> j + 1 < EPS)
  <2>1. SUFFICES ASSUME NEW j \in Nat, j < EPS PROVE j * w + w < B <=> j + 1 < EPS OBVIOUS
  <2>2. CASE j + 1 < EPS
    <3>1. (j + 2) * w <= EPS * w BY <1>1, <2>2, Sizing
    <3>2. (j + 2) * w = j * w + w + w BY <1>1
    <3>. QED BY <1>1, <2>2, <3>1, <3>2, Sizing
  <2>3. CASE ~(j + 1 < EPS)
    <3>1. j + 1 = EPS BY <2>1, <2>3, Sizing
    <3>2. j * w + w = (j + 1) * w BY <1>1
    <3>. QED BY <1>1, <2>3, <3>1, <3>2, Sizing
  <2>. QED BY <2>2, <2>3
<1>3. \A j \in Nat : j * w + w = (j + 1) * w BY <1>1
<1>4. r.sec \in Nat /\ q.sec \in Nat BY DEF Held
<1>5. CASE r.entry = ROOT
  <2>1. PICK j \in 0..EPS-1 : r.byte = j * w /\ r.cluster = 0 /\ i = r.sec * EPS + j
    BY <1>1, <1>5 DEF OnDir
  <2>2. j \in Nat /\ j < EPS BY <2>1, Sizing
  <2>3. q.cluster = 0 /\ q.sec = (IF r.byte + w < B THEN r.sec ELSE r.sec + 1)
        /\ q.byte = (IF r.byte + w < B THEN r.byte + w ELSE 0)
    BY <1>1, <2>1, EnteredFields
  <2>4. CASE j + 1 < EPS
    <3>1. q.sec = r.sec /\ q.byte = (j + 1) * w BY <1>2, <1>3, <2>1, <2>2, <2>3, <2>4
    <3>4. PICK y \in Nat : y = r.sec * EPS BY <1>4, Sizing
    <3>5. i = y + j /\ q.sec * EPS = y BY <2>1, <3>1, <3>4
    <3>2. i + 1 = q.sec * EPS + (j + 1) BY <2>2, <3>4, <3>5
    <3>3. j + 1 \in 0..EPS-1 BY <2>2, <2>4, Sizing
    <3>. QED BY <1>1, <1>5, <2>3, <3>1, <3>2, <3>3 DEF OnDir
  <2>5. CASE ~(j + 1 < EPS)
    <3>1. q.sec = r.sec + 1 /\ q.byte = 0 * w BY <1>1, <1>2, <2>1, <2>2, <2>3, <2>5
    <3>2. j + 1 = EPS BY <2>2, <2>5, Sizing
    <3>5. (r.sec + 1) * EPS = r.sec * EPS + EPS /\ r.sec * EPS \in Nat BY <1>4, Sizing
    <3>3. i + 1 = q.sec * EPS + 0 BY <2>1, <2>2, <3>1, <3>2, <3>5, Sizing
    <3>4. 0 \in 0..EPS-1 BY Sizing
    <3>. QED BY <1>1, <1>5, <2>3, <3>1, <3>3, <3>4 DEF OnDir
  <2>. QED BY <2>4, <2>5
<1>6. CASE r.entry # ROOT
  <2>1. PICK j \in Nat, k \in Nat :
           /\ j < EPS /\ r.byte = j * w /\ i = (k * SPC + r.sec) * EPS + j /\ r.sec < SPC
           /\ Follows(r, k) /\ r.cluster >= 2
    BY <1>1, <1>6, InDirectory
  <2>2. PICK e \in Names : e = r.entry /\ e = q.entry BY <1>6 DEF Directories
  <2>3. r.cluster # 0 BY <2>1
  <2>4. Advanced(q, r, B, r.byte, w) /\ q.byte = IF r.byte + w < B THEN r.byte + w ELSE 0
    BY <1>1, <2>3, EnteredFields DEF Advanced
  <2>5. Advanced(q, r, EPS, j, 1) BY <1>2, <2>1, <2>4 DEF Advanced
  <2>6. PICK l \in Nat :
           /\ (k * SPC + r.sec) * EPS + j + 1
                = (l * SPC + q.sec) * EPS + (IF j + 1 < EPS THEN j + 1 ELSE 0)
           /\ q.sec < SPC /\ Follows(q, l)
    <3>1. j + 1 <= EPS BY <2>1, Sizing
    <3>2. PICK n \in Nat : n = 1 OBVIOUS
    <3>3. Advanced(q, r, EPS, j, n) BY <2>5, <3>2
    <3>4. \E l \in Nat :
           /\ (k * SPC + r.sec) * EPS + j + n
                = (l * SPC + q.sec) * EPS + (IF j + n < EPS THEN j + n ELSE 0)
           /\ q.sec < SPC /\ Follows(q, l)
      <4>1. j < EPS /\ r.sec < SPC /\ Follows(r, k) BY <2>1
      <4>2. n > 0 /\ j + n <= EPS BY <3>1, <3>2
      <4>3. PICK c \in Nat : c = EPS /\ c > 0 BY Sizing
      <4>4. Advanced(q, r, c, j, n) /\ j < c /\ j + n <= c BY <3>3, <4>1, <4>2, <4>3
      <4>5. \E l \in Nat :
           /\ (k * SPC + r.sec) * c + j + n
                = (l * SPC + q.sec) * c + (IF j + n < c THEN j + n ELSE 0)
           /\ q.sec < SPC /\ Follows(q, l)
        BY <1>4, <2>2, <4>1, <4>2, <4>3, <4>4, Further
      <4>. QED BY <4>3, <4>5
    <3>. QED BY <3>2, <3>4
  <2>7. PICK h \in Nat : h = IF j + 1 < EPS THEN j + 1 ELSE 0 BY <2>1
  <2>8. h \in 0..EPS-1 BY <2>7, Sizing
  <2>9. q.byte = h * w BY <1>1, <1>2, <1>3, <2>1, <2>4, <2>7
  <2>10. i + 1 = (l * SPC + q.sec) * EPS + h BY <2>1, <2>6, <2>7
  <2>11. l <= i + 1
    <3>1. l <= (l * SPC + q.sec) * EPS + h BY <1>4, Sizing, Reach
    <3>. QED BY <2>10, <3>1
  <2>12. l \in 0..i+1 BY <2>11
  <2>. QED BY <1>1, <1>6, <2>6, <2>8, <2>9, <2>10, <2>12 DEF OnDir
<1>. QED BY <1>5, <1>6

-----------------------------------------------------------------------------
(* Listings.                                                               *)

LEMMA ListNone == ASSUME NEW d PROVE Lists(<<>>, d, 0)
<1>1. Live(d, 0) = {} BY DEF Live
<1>2. PICK f : f = [i \in {} |-> 0] OBVIOUS
<1>3. DOMAIN <<>> = {} OBVIOUS
<1>4. f \in [DOMAIN <<>> -> Live(d, 0)] /\ Range(f) = Live(d, 0) BY <1>1, <1>2, <1>3 DEF Range
<1>. QED BY <1>3, <1>4 DEF Lists

LEMMA ListSkip ==
  ASSUME NEW d, NEW s, NEW n \in Nat, Lists(s, d, n), Stream[d][n + 1] \in {SkipEntry, EndEntry}
  PROVE  Lists(s, d, n + 1)
<1>1. Live(d, n + 1) = Live(d, n)
  <2>1. \A i \in 1..n+1 : i = n + 1 \/ i \in 1..n OBVIOUS
  <2>2. 1..n \subseteq 1..n+1 OBVIOUS
  <2>. QED BY <2>1, <2>2 DEF Live
<1>. QED BY <1>1 DEF Lists

LEMMA ListNext ==
  ASSUME NEW d, NEW s \in Seq(Names \cup {Lost}), NEW n \in Nat, Lists(s, d, n),
         NEW e \in Names, Stream[d][n + 1] = e
  PROVE  Lists(Append(s, e), d, n + 1) /\ Append(s, e) \in Seq(Names \cup {Lost})
<1>1. PICK at \in [DOMAIN s -> Live(d, n)] :
         /\ Range(at) = Live(d, n)
         /\ \A i, j \in DOMAIN s : i < j => at[i] < at[j]
         /\ \A i \in DOMAIN s : s[i] \in {Stream[d][at[i]], Lost}
  BY DEF Lists
<1>2. PICK L \in Nat : L = Len(s) /\ DOMAIN s = 1..L OBVIOUS
<1>3. PICK t : t = Append(s, e) OBVIOUS
<1>4. /\ t \in Seq(Names \cup {Lost}) /\ DOMAIN t = 1..L+1 /\ t[L + 1] = e
      /\ \A i \in 1..L : t[i] = s[i]
  BY <1>2, <1>3
<1>5. e \notin {SkipEntry, EndEntry} BY VolumeAssumption
<1>6. Live(d, n + 1) = Live(d, n) \cup {n + 1} /\ Live(d, n) \subseteq 1..n
  <2>1. \A i : i \in 1..n+1 <=> i = n + 1 \/ i \in 1..n OBVIOUS
  <2>. QED BY <1>5, <2>1 DEF Live
<1>7. PICK bt : bt = [i \in DOMAIN t |-> IF i = L + 1 THEN n + 1 ELSE at[i]] OBVIOUS
<1>8. \A i \in DOMAIN t : i = L + 1 \/ (i \in 1..L /\ i # L + 1) BY <1>4
<1>9. L + 1 \in DOMAIN t /\ \A i \in 1..L : i \in DOMAIN t /\ i # L + 1 BY <1>4
<1>10. bt[L + 1] = n + 1 /\ \A i \in 1..L : bt[i] = at[i] BY <1>7, <1>9
<1>11. \A i \in 1..L : at[i] \in Live(d, n) BY <1>1, <1>2
<1>12. bt \in [DOMAIN t -> Live(d, n + 1)] BY <1>6, <1>7, <1>8, <1>11
<1>13. Range(bt) = Live(d, n + 1)
  <2>1. \A x \in Live(d, n) : \E i \in 1..L : at[i] = x BY <1>1, <1>2 DEF Range
  <2>2. \A x \in Live(d, n + 1) : \E i \in DOMAIN t : bt[i] = x
    BY <1>6, <1>9, <1>10, <2>1
  <2>3. DOMAIN bt = DOMAIN t BY <1>7
  <2>. QED BY <1>12, <2>2, <2>3 DEF Range
<1>14. \A i, j \in DOMAIN t : i < j => bt[i] < bt[j]
  <2>1. SUFFICES ASSUME NEW i \in DOMAIN t, NEW j \in DOMAIN t, i < j PROVE bt[i] < bt[j] OBVIOUS
  <2>2. i \in 1..L BY <1>2, <1>4, <2>1
  <2>3. bt[i] = at[i] /\ at[i] \in 1..n BY <1>6, <1>10, <1>11, <2>2
  <2>4. CASE j = L + 1 BY <1>10, <2>3, <2>4
  <2>5. CASE j # L + 1
    <3>1. j \in 1..L BY <1>8, <2>5
    <3>. QED BY <1>1, <1>2, <1>10, <2>1, <2>2, <3>1
  <2>. QED BY <2>4, <2>5
<1>15. \A i \in DOMAIN t : t[i] \in {Stream[d][bt[i]], Lost}
  <2>1. SUFFICES ASSUME NEW i \in DOMAIN t PROVE t[i] \in {Stream[d][bt[i]], Lost} OBVIOUS
  <2>2. CASE i = L + 1 BY <1>4, <1>10, <2>2
  <2>3. CASE i # L + 1
    <3>1. i \in 1..L BY <1>8, <2>3
    <3>. QED BY <1>1, <1>2, <1>4, <1>10, <3>1
  <2>. QED BY <2>2, <2>3
<1>. QED BY <1>3, <1>4, <1>12, <1>13, <1>14, <1>15 DEF Lists

LEMMA LosingType ==
  ASSUME NEW s \in Seq(Names \cup {Lost}), NEW from
  PROVE  Losing(s, from) \in Seq(Names \cup {Lost}) /\ (s = <<>> => Losing(s, from) = <<>>)
<1>1. PICK L \in Nat : L = Len(s) /\ DOMAIN s = 1..L OBVIOUS
<1>2. \A i \in 1..L : s[i] \in Names \cup {Lost} BY <1>1
<1>3. PICK t : t = Losing(s, from) OBVIOUS
<1>4. t = [i \in 1..L |-> IF i > from THEN Lost ELSE s[i]] BY <1>1, <1>3 DEF Losing
<1>5. t \in [1..L -> Names \cup {Lost}] BY <1>2, <1>4
<1>6. \A T : [1..L -> T] \subseteq Seq(T) OBVIOUS
<1>7. t \in Seq(Names \cup {Lost}) BY <1>5, <1>6
<1>8. ASSUME s = <<>> PROVE t = <<>>
  <2>1. L = 0 BY <1>1, <1>8
  <2>2. Len(t) = 0 BY <1>4, <1>7, <2>1
  <2>. QED BY <1>7, <2>2
<1>. QED BY <1>3, <1>7, <1>8

\* The names lost with a failed call are still passed over.
LEMMA ListLost ==
  ASSUME NEW d, NEW s, NEW n, Lists(s, d, n), NEW from
  PROVE  Lists(Losing(s, from), d, n)
<1>1. PICK at \in [DOMAIN s -> Live(d, n)] :
         /\ Range(at) = Live(d, n)
         /\ \A i, j \in DOMAIN s : i < j => at[i] < at[j]
         /\ \A i \in DOMAIN s : s[i] \in {Stream[d][at[i]], Lost}
  BY DEF Lists
<1>2. PICK t : t = Losing(s, from) OBVIOUS
<1>3. DOMAIN t = DOMAIN s /\ \A i \in DOMAIN s : t[i] = s[i] \/ t[i] = Lost
  BY <1>2 DEF Losing
<1>4. \A i \in DOMAIN t : t[i] \in {Stream[d][at[i]], Lost} BY <1>1, <1>3
<1>5. Lists(t, d, n) BY <1>1, <1>3, <1>4 DEF Lists
<1>. QED BY <1>2, <1>5

-----------------------------------------------------------------------------
(* Seeking.                                                                *)

LEMMA Smallest ==
  ASSUME NEW T \in SUBSET Nat, T # {}
  PROVE  Min(T) \in T /\ \A y \in T : Min(T) <= y
<1> DEFINE R == OpToRel(<, Nat)
<1>1. IsWellFoundedOn(R, Nat) BY NatLessThanWellFounded
<1>2. \A x, y \in Nat : x < y => <<x, y>> \in R BY DEF OpToRel
<1> HIDE DEF R
<1>3. \E x \in T : \A y \in T : ~(<<y, x>> \in R) BY <1>1, WFMin
<1>4. \A x, y \in T : ~(<<y, x>> \in R) => x <= y BY <1>2
<1>5. \E x \in T : \A y \in T : x <= y BY <1>3, <1>4
<1>. QED BY <1>5 DEF Min

\* One sector on, from sector p[2] of cluster p[1].
After(p) == IF p[2] = SPC - 1 THEN <<NextCluster(p[1]), 0>> ELSE <<p[1], p[2] + 1>>

\* Whatever goes from sector to sector like _fnode_lseek is where it is.
LEMMA WalkIs ==
  ASSUME NEW f, NEW o \in Nat, NEW N \in Nat, N = o \div B, NEW W, DOMAIN W = 0..N,
         W[0] = <<f, 0>>, \A k \in 1..N : W[k] = After(W[k - 1])
  PROVE  Walk(f, o) = W[N]
<1> DEFINE Rule(at) ==
      [k \in 0 .. o \div B |->
          IF k = 0 THEN <<f, 0>>
          ELSE IF at[k - 1][2] = SPC - 1 THEN <<NextCluster(at[k - 1][1]), 0>>
          ELSE <<at[k - 1][1], at[k - 1][2] + 1>>]
<1>1. PICK w : w = [k \in 0..N |-> W[k]] OBVIOUS
<1>2. w = Rule(w)
  <2>1. \A k \in 0..N : k # 0 => k \in 1..N /\ k - 1 \in 0..N OBVIOUS
  <2>2. \A k \in 0..N : w[k] = W[k] BY <1>1
  <2>3. \A k \in 0..N : k # 0 => w[k] = After(w[k - 1]) BY <2>1, <2>2
  <2>4. 0 \in 0..N /\ w[0] = <<f, 0>> BY <2>2
  <2>5. \A k \in 0..N : w[k] = IF k = 0 THEN <<f, 0>> ELSE After(w[k - 1]) BY <2>3, <2>4
  <2>6. w = [k \in 0..N |-> IF k = 0 THEN <<f, 0>> ELSE After(w[k - 1])] BY <1>1, <2>5
  <2>. QED BY <2>6 DEF After
<1>3. PICK at : at = CHOOSE g : g = Rule(g) OBVIOUS
<1>4. at = Rule(at) BY <1>2, <1>3
<1>5. Walk(f, o) = at[N] BY <1>3 DEF Walk
<1>6. at[0] = <<f, 0>> /\ \A k \in 1..N : at[k] = After(at[k - 1])
  <2>1. \A k \in 1..N : k \in 0..N /\ k # 0 OBVIOUS
  <2>2. 0 \in 0..N OBVIOUS
  <2>. QED BY <1>4, <2>1, <2>2 DEF After
<1> HIDE DEF Rule
<1>7. \A k \in 0..N : at[k] = W[k]
  <2>1. PICK T : T = {k \in 0..N : at[k] # W[k]} OBVIOUS
  <2>2. SUFFICES ASSUME T # {} PROVE FALSE BY <2>1
  <2>3. T \in SUBSET Nat BY <2>1
  <2>4. PICK m \in T : \A y \in T : m <= y BY <2>2, <2>3, Smallest
  <2>5. m \in 0..N /\ at[m] # W[m] BY <2>1
  <2>6. m # 0 BY <1>6, <2>5
  <2>7. m \in 1..N /\ m - 1 \in 0..N /\ ~(m <= m - 1) BY <2>5, <2>6
  <2>8. at[m - 1] = W[m - 1] BY <2>1, <2>4, <2>7
  <2>9. at[m] = W[m] BY <1>6, <2>7, <2>8
  <2>. QED BY <2>5, <2>9
<1>. QED BY <1>5, <1>7

LEMMA WalkNone == ASSUME NEW f PROVE Walk(f, 0) = <<f, 0>>
<1>1. 0 \div B = 0
  <2>1. 0 * B + 0 = 0 BY Sizing
  <2>. QED BY <2>1, Sizing, Division
<1>2. PICK W : W = [k \in 0..0 |-> <<f, 0>>] OBVIOUS
<1>3. DOMAIN W = 0..0 /\ W[0] = <<f, 0>> /\ \A k \in 1..0 : W[k] = After(W[k - 1]) BY <1>2
<1>. QED BY <1>1, <1>3, WalkIs

\* _fnode_lseek: it ends in the cluster of the chain that has the byte.
LEMMA WalkPlace ==
  ASSUME NEW n \in Names, NEW o \in Nat
  PROVE  \E k \in Nat, s \in Nat, c \in Int :
            /\ Walk(First(n), o) = <<c, s>> /\ s < SPC /\ o \div B = k * SPC + s
            /\ k < Len(Entry[n].chain) => c = Entry[n].chain[k + 1]
<1>13. PICK ch : ch = Entry[n].chain OBVIOUS
<1>1. PICK L \in Nat : ch = Entry[n].chain /\ L = Len(ch) BY <1>13, Chained
<1>3. PICK N \in Nat, x \in Nat : N = o \div B /\ x = o % B /\ x < B /\ o = N * B + x
  BY Sizing, Divided
<1> DEFINE Cl(k) == IF k < L THEN ch[k + 1] ELSE IF k = 0 THEN 0 ELSE EndOfChain
           W == [k \in 0..N |-> <<Cl(k \div SPC), k % SPC>>]
<1>5. W[0] = <<First(n), 0>>
  <2>1. 0 \div SPC = 0 /\ 0 % SPC = 0
    <3>1. 0 * SPC + 0 = 0 BY Sizing
    <3>. QED BY <3>1, Sizing, Division
  <2>2. Cl(0) = First(n)
    <3>1. ch \in Seq(Nat \ {0, 1}) BY <1>1, Chained
    <3>2. L = 0 <=> ch = <<>> BY <1>1, <3>1
    <3>. QED BY <1>1, <3>2, Chained
  <2>. QED BY <2>1, <2>2
<1>6. \A k \in 1..N : W[k] = After(W[k - 1])
  <2>1. SUFFICES ASSUME NEW k \in 1..N PROVE W[k] = After(W[k - 1]) OBVIOUS
  <2>2. PICK h \in Nat : h = k - 1 /\ h + 1 = k /\ h \in 0..N /\ h < N OBVIOUS
  <2>3. PICK c \in Nat, s \in Nat : c = h \div SPC /\ s = h % SPC /\ s < SPC /\ h = c * SPC + s
    BY Sizing, Divided
  <2>5. W[h] = <<Cl(c), s>> BY <2>2, <2>3
  <2>6. CASE s = SPC - 1
    <3>1. k = (c + 1) * SPC + 0
      <4>1. (c + 1) * SPC = c * SPC + SPC BY Sizing
      <4>. QED BY <2>2, <2>3, <2>6, <4>1, Sizing
    <3>2. k \div SPC = c + 1 /\ k % SPC = 0 BY <3>1, Sizing, Division
    <3>3. NextCluster(Cl(c)) = Cl(c + 1)
      <4>1. CASE c < L
        <5>1. NextCluster(ch[c + 1]) = IF c + 1 < L THEN ch[c + 2] ELSE EndOfChain
          BY <1>1, <4>1, NextOf
        <5>2. (c + 1) + 1 = c + 2 /\ c + 1 # 0 OBVIOUS
        <5>. QED BY <4>1, <5>1, <5>2
      <4>2. CASE ~(c < L)
        <5>1. ~(c + 1 < L) /\ c + 1 # 0 BY <4>2
        <5>. QED BY <4>2, <5>1, NextOfNone
      <4>. QED BY <4>1, <4>2
    <3>4. W[k] = <<Cl(c + 1), 0>> BY <2>1, <3>2
    <3>6. PICK p, d : p = W[h] /\ d = Cl(c) OBVIOUS
    <3>7. p = <<d, s>> BY <2>5, <3>6
    <3>8. After(p) = <<NextCluster(d), 0>> BY ONLY <2>6, <3>7 DEF After
    <3>5. After(W[h]) = <<NextCluster(Cl(c)), 0>> BY <3>6, <3>8
    <3>. QED BY <2>2, <3>3, <3>4, <3>5
  <2>7. CASE s # SPC - 1
    <3>1. k = c * SPC + (s + 1) /\ s + 1 < SPC
      <4>1. c * SPC \in Nat BY Sizing
      <4>. QED BY <2>2, <2>3, <2>7, <4>1, Sizing
    <3>2. k \div SPC = c /\ k % SPC = s + 1 BY <3>1, Sizing, Division
    <3>3. W[k] = <<Cl(c), s + 1>> BY <2>1, <3>2
    <3>4. After(W[h]) = <<Cl(c), s + 1>> BY <2>5, <2>7 DEF After
    <3>. QED BY <2>2, <3>3, <3>4
  <2>. QED BY <2>6, <2>7
<1>7. Walk(First(n), o) = W[N]
  <2>1. PICK V : V = W OBVIOUS
  <2>2. DOMAIN V = 0..N BY <2>1
  <2> HIDE DEF W
  <2>3. V[0] = <<First(n), 0>> /\ \A k \in 1..N : V[k] = After(V[k - 1]) BY <1>5, <1>6, <2>1
  <2>5. PICK f : f = First(n) OBVIOUS
  <2>6. N = o \div B /\ V[0] = <<f, 0>> BY <1>3, <2>3, <2>5
  <2>7. Walk(f, o) = V[N] BY <2>2, <2>3, <2>6, WalkIs
  <2>4. Walk(First(n), o) = V[N] BY <2>5, <2>7
  <2>. QED BY <2>1, <2>4
<1>8. PICK k \in Nat, s \in Nat : k = N \div SPC /\ s = N % SPC /\ s < SPC /\ N = k * SPC + s
  BY Sizing, Divided
<1>9. W[N] = <<Cl(k), s>>
  <2>1. N \in 0..N OBVIOUS
  <2>. QED BY <1>8, <2>1
<1>10. Cl(k) \in Int
  <2>1. k < L => ch[k + 1] \in Nat
    <3>1. ch \in Seq(Nat \ {0, 1}) BY <1>1, Chained
    <3>2. k < L => k + 1 \in 1..L OBVIOUS
    <3>. QED BY <1>1, <3>1, <3>2
  <2>. QED BY <2>1 DEF EndOfChain
<1>11. k < Len(Entry[n].chain) => Cl(k) = Entry[n].chain[k + 1] BY <1>1
<1>12. PICK c \in Int : c = Cl(k) BY <1>10
<1>14. Walk(First(n), o) = <<c, s>> BY <1>7, <1>9, <1>12
<1> HIDE DEF Cl, W
<1>. QED BY <1>3, <1>8, <1>11, <1>12, <1>14

LEMMA WalkRight ==
  ASSUME NEW n \in Names, NEW o \in Nat, NEW r \in Held, r.entry = n,
         r.want = o, r.cluster = Walk(First(n), o)[1], r.sec = Walk(First(n), o)[2],
         r.byte = o % B
  PROVE  OnFile(r)
<1>1. PICK k \in Nat, s \in Nat, c \in Int :
         /\ Walk(First(n), o) = <<c, s>> /\ s < SPC /\ o \div B = k * SPC + s
         /\ k < Len(Entry[n].chain) => c = Entry[n].chain[k + 1]
  BY WalkPlace
<1>2. PICK N \in Nat, x \in Nat : N = o \div B /\ x = o % B /\ x < B /\ o = N * B + x
  BY Sizing, Divided
<1>3. r.cluster = c /\ r.sec = s /\ r.byte = x BY <1>1, <1>2
<1>4. Follows(r, k) BY <1>1, <1>3 DEF Follows
<1>5. r.want = (k * SPC + r.sec) * B + r.byte BY <1>1, <1>2, <1>3
<1>6. k \in 0..r.want
  <2>1. k <= (k * SPC + s) * B + x BY Sizing, Reach
  <2>. QED BY <1>3, <1>5, <2>1
<1>7. r.sec < SPC /\ r.byte < B BY <1>1, <1>2, <1>3
<1>. QED BY <1>4, <1>5, <1>6, <1>7 DEF OnFile
-----------------------------------------------------------------------------
(* The calls that do not read.                                             *)

\* The vnode is the same file at the same place.
Still(q, r) ==
    /\ q.entry = r.entry /\ q.first = r.first /\ q.dir = r.dir /\ q.size = r.size
    /\ q.cluster = r.cluster /\ q.sec = r.sec /\ q.byte = r.byte
    /\ q.pos = r.pos /\ q.want = r.want

LEMMA StillOK ==
  ASSUME NEW q, NEW r, NEW s, Still(q, r), q.buf = q.tag, VnodeOK(r, s)
  PROVE  VnodeOK(q, s)
<1>1. Described(q) BY DEF Still, VnodeOK, Described
<1>2. \A k : Follows(r, k) => Follows(q, k) BY DEF Still, Follows
<1>3. OnFile(r) => OnFile(q) BY <1>2 DEF Still, OnFile
<1>4. \A i : OnDir(r, i) => OnDir(q, i) BY <1>2 DEF Still, OnDir
<1>5. Settled(q, s) BY <1>3, <1>4 DEF Still, VnodeOK, Settled, Past
<1>. QED BY <1>1, <1>5 DEF VnodeOK

\* A table of vnodes with what is listed of them.
TableOK(V, s) ==
    /\ V \in [Vnodes -> Held \cup {NoVn}]
    /\ \A v \in Vnodes : V[v].count > 0 => VnodeOK(V[v], s[v])

LEMMA HeldOrNot ==
  ASSUME NEW x \in Held \cup {NoVn}
  PROVE  x \in Held <=> x.count > 0
BY DEF Held, NoVn

LEMMA Table == ASSUME IInv PROVE TableOK(vn, shown) /\ \A v \in InUse : v \in Vnodes /\ vn[v] \in Held
<1>1. \A v \in InUse : v \in Vnodes /\ vn[v].count > 0 BY DEF InUse
<1>2. \A v \in Vnodes : vn[v] \in Held \cup {NoVn} BY DEF IInv, Typed
<1>. QED BY <1>1, <1>2, HeldOrNot DEF IInv, Typed, TableOK, InUse

LEMMA Between ==
  ASSUME IInv, op = Idle, UNCHANGED <<op, out>>, shown' \in [Vnodes -> Seq(Names \cup {Lost})], TableOK(vn', shown')
  PROVE  IInv'
<1>1. Typed' BY DEF IInv, Typed, TableOK
<1>2. \A v \in InUse' : VnodeOK(vn'[v], shown'[v]) BY DEF InUse, TableOK
<1>3. OpOK' BY DEF IInv, OpOK
<1>4. ReadRight' BY DEF IInv, ReadRight, Location
<1>. QED BY <1>1, <1>2, <1>3, <1>4 DEF IInv

LEMMA OneOther ==
  ASSUME NEW V, NEW s, TableOK(V, s), NEW v \in Vnodes, NEW q \in Held, NEW t, VnodeOK(q, t),
         NEW W, W = [V EXCEPT ![v] = q], NEW z, z[v] = t, \A w \in Vnodes : w # v => z[w] = s[w]
  PROVE  TableOK(W, z)
<1>1. W \in [Vnodes -> Held \cup {NoVn}] /\ W[v] = q BY DEF TableOK
<1>2. \A w \in Vnodes : w # v => W[w] = V[w] BY DEF TableOK
<1>. QED BY <1>1, <1>2 DEF TableOK

\* _fnode_lookup, _fnode_lookup_root: the search stops within the directory.
LEMMA StopThere ==
  ASSUME NEW v, vn[v].entry \in {ROOT} \cup Directories, NEW nm
  PROVE  \E i \in Nat : Stop(v, nm) = i + 1 /\ i < Len(Stream[vn[v].entry])
<1>1. PICK d \in {ROOT} \cup Directories, S \in Nat :
         d = vn[v].entry /\ S = Len(Stream[d]) /\ S >= 1 /\ DOMAIN Stream[d] = 1..S
  BY DirectoryFacts
<1>2. PICK T : T = {i \in 1..S : Stream[d][i] \in {nm, EndEntry}} OBVIOUS
<1>3. Stop(v, nm) = Min(T) BY <1>1, <1>2 DEF Stop
<1>4. S \in 1..S /\ Stream[d][S] = EndEntry BY <1>1, DirectoryFacts
<1>5. T \in SUBSET Nat /\ T # {} BY <1>2, <1>4
<1>6. Min(T) \in 1..S BY <1>2, <1>5, Smallest
<1>7. Min(T) - 1 \in Nat /\ (Min(T) - 1) + 1 = Min(T) /\ Min(T) - 1 < S BY <1>6
<1>. QED BY <1>1, <1>3, <1>7

LEMMA SectorThere ==
  ASSUME NEW d \in {ROOT} \cup Directories, NEW i \in Nat, i < Len(Stream[d])
  PROVE  DirSector(d, i + 1) \in Int
<1>1. PICK a \in Nat, x \in Nat : EntryPlace(d, i, a, x) BY Placed
<1>2. CASE d = ROOT BY <1>1, <1>2 DEF EntryPlace, RootStart
<1>3. CASE d # ROOT
  <2>1. PICK k \in Nat, s \in Nat : /\ k < Len(Entry[d].chain)
                                    /\ DirSector(d, i + 1) = Sector(Entry[d].chain[k + 1], s)
    BY <1>1, <1>3 DEF EntryPlace
  <2>2. d \in Names BY <1>3 DEF Directories
  <2>. QED BY <2>1, <2>2, Chained, SectorHigh
<1>. QED BY <1>2, <1>3

\* A directory in use is one of the volume.
LEMMA IsDirectory ==
  ASSUME NEW r \in Held, Described(r)
  PROVE  /\ r.dir => r.entry \in {ROOT} \cup Directories
         /\ ~r.dir => r.entry \in Names /\ r.entry \notin Directories /\ r.entry # ROOT
BY VolumeAssumption DEF Held, Described

LEMMA SearchedStill ==
  ASSUME IInv, NEW v \in InUse, vn[v].dir, NEW nm
  PROVE  \E q \in Held : /\ Searched(v, Stop(v, nm)) = [vn EXCEPT ![v] = q]
                         /\ Still(q, vn[v]) /\ q.buf = q.tag /\ q.count = vn[v].count
<1>1. PICK r \in Held : r = vn[v] /\ VnodeOK(r, shown[v]) BY Table DEF IInv
<1>2. r.entry \in {ROOT} \cup Directories BY <1>1, IsDirectory DEF VnodeOK
<1>3. PICK s \in Int : s = DirSector(r.entry, Stop(v, nm))
  <2>1. PICK i \in Nat : Stop(v, nm) = i + 1 /\ i < Len(Stream[r.entry]) BY <1>1, <1>2, StopThere
  <2>. QED BY <1>2, <2>1, SectorThere
<1>4. PICK d \in Held : /\ d = Dropped(r) /\ d.buf = d.tag /\ SameNode(d, r)
                        /\ d.cluster = r.cluster /\ d.sec = r.sec /\ d.byte = r.byte
                        /\ d.pos = r.pos /\ d.want = r.want
  BY DroppedFields
<1>5. Still(d, r) /\ d.count = r.count BY <1>4 DEF Still, SameNode
<1>6. PICK l \in Held : /\ l = Loaded(d, s) /\ l.buf = s /\ l.tag = s /\ SameNode(l, d)
                        /\ l.cluster = d.cluster /\ l.sec = d.sec /\ l.byte = d.byte
                        /\ l.pos = d.pos /\ l.want = d.want
  BY <1>4, LoadedFields
<1>7. Still(l, r) /\ l.count = r.count BY <1>5, <1>6 DEF Still, SameNode
<1>8. Searched(v, Stop(v, nm)) = [vn EXCEPT ![v] = IF r.fnode = RootStart THEN d ELSE l]
  BY <1>1, <1>3, <1>4, <1>6 DEF Searched
<1>. QED BY <1>1, <1>4, <1>5, <1>6, <1>7, <1>8


\* Counting a reference.
LEMMA Counted ==
  ASSUME NEW r \in Held, NEW s, VnodeOK(r, s), NEW c \in Nat, c > 0,
         NEW q, q = [r EXCEPT !.count = c]
  PROVE  q \in Held /\ VnodeOK(q, s)
<1>1. q \in Held BY DEF Held
<1>2. Still(q, r) /\ q.buf = r.buf /\ q.tag = r.tag BY DEF Still, Held
<1>3. r.buf = r.tag BY DEF VnodeOK
<1>. QED BY <1>1, <1>2, <1>3, StillOK

\* _vnode_get: the vnode of an entry that had none.
LEMMA FreshOK ==
  ASSUME NEW n \in Names, NEW c \in Nat,
         NEW q, q = [Fresh(Sector(First(n), 0), n, First(n), Entry[n].kind = "dir", Entry[n].size)
                     EXCEPT !.cluster = c]
  PROVE  q \in Held /\ VnodeOK(q, <<>>)
<1>1. PICK f \in Nat, z \in Nat : f = First(n) /\ z = Entry[n].size BY Chained
<1>2. PICK s \in Int : s = Sector(f, 0) BY RootRoom, Sizing DEF Sector, DataStart, RootStart
<1>3. PICK b \in BOOLEAN : b = (Entry[n].kind = "dir") OBVIOUS
<1>4. PICK g : g = Fresh(s, n, f, b, z) OBVIOUS
<1>5. q = [g EXCEPT !.cluster = c] BY <1>1, <1>2, <1>3, <1>4
<1>6. c \in Int OBVIOUS
<1>7. /\ q \in Held /\ q.entry = n /\ q.first = f /\ q.dir = b /\ q.size = z /\ q.pos = 0
      /\ q.buf = q.tag /\ q.want = Unopened
  <2>1. n \in Names /\ b \in BOOLEAN /\ f \in Nat /\ z \in Nat /\ s \in Int OBVIOUS
  <2>2. g \in Held BY ONLY <1>4, <2>1 DEF Fresh, Held, NoSector, Unopened
  <2>3. /\ g.entry = n /\ g.first = f /\ g.dir = b /\ g.size = z /\ g.pos = 0
        /\ g.buf = g.tag /\ g.want = Unopened
    BY ONLY <1>4 DEF Fresh
  <2>. QED BY ONLY <1>5, <1>6, <2>2, <2>3 DEF Held
<1>8. n # ROOT BY VolumeAssumption
<1>9. Described(q) BY <1>1, <1>3, <1>7, <1>8 DEF Described, Directories
<1>10. Settled(q, <<>>) BY <1>1, <1>7 DEF Settled
<1>. QED BY <1>7, <1>9, <1>10 DEF VnodeOK

LEMMA Lookups ==
  ASSUME IInv, NEW v \in InUse, NEW nm \in Names \cup {"none"}, Lookup(v, nm)
  PROVE  IInv'
<1>1. TableOK(vn, shown) /\ v \in Vnodes BY Table
<1>2. PICK r \in Held : r = vn[v] /\ r.dir /\ r.buf = r.tag /\ VnodeOK(r, shown[v]) /\ Described(r)
  BY Table DEF IInv, VnodeOK, Lookup
<1>3. op = Idle /\ UNCHANGED <<op, out>> /\ shown \in [Vnodes -> Seq(Names \cup {Lost})]
  BY DEF Lookup, IInv, Typed
<1>4. CASE SearchFails(v) /\ UNCHANGED shown
  <2>1. PICK d \in Held : /\ d = Dropped(r) /\ d.buf = d.tag /\ SameNode(d, r)
                          /\ d.cluster = r.cluster /\ d.sec = r.sec /\ d.byte = r.byte
                          /\ d.pos = r.pos /\ d.want = r.want
    BY DroppedFields
  <2>2. Still(d, r) BY <2>1 DEF Still, SameNode
  <2>5. VnodeOK(d, shown[v]) BY <1>2, <2>1, <2>2, StillOK
  <2>3. vn' = [vn EXCEPT ![v] = d] BY <1>2, <1>4, <2>1 DEF SearchFails
  <2>4. TableOK(vn', shown) BY <1>1, <2>1, <2>3, <2>5, OneOther
  <2>. QED BY <1>3, <1>4, <2>4, Between
<1>5. PICK q \in Held : /\ Searched(v, Stop(v, nm)) = [vn EXCEPT ![v] = q]
                        /\ Still(q, r) /\ q.buf = q.tag /\ q.count = r.count
  BY <1>2, SearchedStill
<1>6. PICK after : after = Searched(v, Stop(v, nm)) OBVIOUS
<1>7. TableOK(after, shown)
  <2>1. VnodeOK(q, shown[v]) BY <1>2, <1>5, StillOK
  <2>2. after = [vn EXCEPT ![v] = q] BY <1>5, <1>6
  <2>. QED BY <1>1, <2>1, <2>2, OneOther
<1>8. CASE NotFound(v, nm) /\ UNCHANGED shown
  BY <1>3, <1>6, <1>7, <1>8, Between DEF NotFound
<1>9. CASE Found(v, nm)
  <2>1. CASE vn' = after /\ UNCHANGED shown BY <1>3, <1>7, <2>1, Between
  <2>2. CASE \E w \in Named(Sector(First(nm), 0)) :
                vn' = [after EXCEPT ![w].count = @ + 1] /\ UNCHANGED shown
    <3>1. PICK w \in Vnodes : /\ vn[w].count > 0
                              /\ vn' = [after EXCEPT ![w].count = @ + 1] /\ UNCHANGED shown
      BY <2>2 DEF Named, InUse
    <3>2. after[w].count > 0
      <4>1. vn[w] = r \/ w # v BY <1>2
      <4>2. after[w] = IF w = v THEN q ELSE vn[w] BY <1>1, <1>5, <1>6, <3>1 DEF TableOK
      <4>. QED BY <1>2, <1>5, <3>1, <4>2
    <3>3. PICK a \in Held : a = after[w] /\ VnodeOK(a, shown[w])
      <4>1. after[w] \in Held \cup {NoVn} BY <1>7, <3>1 DEF TableOK
      <4>. QED BY <1>7, <3>1, <3>2, <4>1, HeldOrNot DEF TableOK
    <3>4. PICK c \in Nat : c = a.count + 1 /\ c > 0 BY DEF Held
    <3>5. PICK x : x = [a EXCEPT !.count = c] OBVIOUS
    <3>6. x \in Held /\ VnodeOK(x, shown[w]) BY <3>3, <3>4, <3>5, Counted
    <3>7. vn' = [after EXCEPT ![w] = x] BY <3>1, <3>3, <3>4, <3>5
    <3>8. TableOK(vn', shown) BY <1>7, <3>6, <3>7, OneOther
    <3>. QED BY <1>3, <3>1, <3>8, Between
  <2>3. CASE \E w \in Free :
               /\ vn' = [after EXCEPT ![w] =
                    [Fresh(Sector(First(nm), 0), nm, First(nm), Entry[nm].kind = "dir", Entry[nm].size)
                     EXCEPT !.cluster = IF vn[v].fnode = RootStart THEN First(nm) ELSE 0]]
               /\ shown' = [shown EXCEPT ![w] = <<>>]
    <3>1. nm \in Names
      <4>1. r.entry \in {ROOT} \cup Directories BY <1>2, IsDirectory
      <4>2. PICK i \in Nat : Stop(v, nm) = i + 1 /\ i < Len(Stream[r.entry])
        BY <1>2, <4>1, StopThere
      <4>3. Stream[r.entry][i + 1] \in Names \cup {SkipEntry, EndEntry}
        BY <4>1, <4>2, DirectoryFacts
      <4>4. Stream[r.entry][i + 1] = nm BY <1>2, <1>9, <4>2 DEF Found
      <4>. QED BY <4>3, <4>4, VolumeAssumption
    <3>2. PICK c \in Nat : c = IF vn[v].fnode = RootStart THEN First(nm) ELSE 0 BY <3>1, Chained
    <3>4. PICK x : x = [Fresh(Sector(First(nm), 0), nm, First(nm), Entry[nm].kind = "dir",
                              Entry[nm].size) EXCEPT !.cluster = c]
      OBVIOUS
    <3>5. x \in Held /\ VnodeOK(x, <<>>) BY <3>1, <3>2, <3>4, FreshOK
    <3>6. PICK w \in Vnodes : vn' = [after EXCEPT ![w] = x] /\ shown' = [shown EXCEPT ![w] = <<>>]
      BY <2>3, <3>2, <3>4 DEF Free
    <3>7. shown' \in [Vnodes -> Seq(Names \cup {Lost})] /\ shown'[w] = <<>>
          /\ \A u \in Vnodes : u # w => shown'[u] = shown[u]
      BY <1>3, <3>6
    <3>8. /\ vn' \in [Vnodes -> Held \cup {NoVn}] /\ vn'[w] = x
          /\ \A u \in Vnodes : u # w => vn'[u] = after[u]
      BY <1>7, <3>5, <3>6 DEF TableOK
    <3>9. VnodeOK(vn'[w], shown'[w]) BY <3>5, <3>7, <3>8
    <3>11. TableOK(vn', shown') BY <1>7, <3>7, <3>8, <3>9 DEF TableOK
    <3>. QED BY <1>3, <3>7, <3>11, Between
  <2>. QED BY <1>6, <1>9, <2>1, <2>2, <2>3 DEF Found
<1>. QED BY <1>4, <1>8, <1>9 DEF Lookup

\* VN_RELE.
LEMMA Releases ==
  ASSUME IInv, NEW v \in InUse, Release(v)
  PROVE  IInv'
<1>1. TableOK(vn, shown) /\ v \in Vnodes BY Table
<1>2. PICK r \in Held : r = vn[v] /\ VnodeOK(r, shown[v]) BY Table DEF IInv
<1>3. op = Idle /\ UNCHANGED <<op, out, shown>> /\ shown \in [Vnodes -> Seq(Names \cup {Lost})]
  BY DEF Release, IInv, Typed
<1>4. TableOK(vn', shown)
  <2>1. CASE r.count = 1
    <3>1. vn' = [vn EXCEPT ![v] = NoVn] BY <1>2, <2>1 DEF Release
    <3>2. vn' \in [Vnodes -> Held \cup {NoVn}] /\ vn'[v] = NoVn
          /\ \A w \in Vnodes : w # v => vn'[w] = vn[w]
      BY <1>1, <3>1 DEF TableOK
    <3>3. ~(NoVn.count > 0) BY DEF NoVn
    <3>. QED BY <1>1, <3>2, <3>3 DEF TableOK
  <2>2. CASE r.count # 1
    <3>1. PICK c \in Nat : c = r.count - 1 /\ c > 0 BY <2>2 DEF Held
    <3>2. PICK q : q = [r EXCEPT !.count = c] OBVIOUS
    <3>3. q \in Held /\ VnodeOK(q, shown[v]) BY <1>2, <3>1, <3>2, Counted
    <3>7. vn' = [vn EXCEPT ![v] = q] BY <1>2, <2>2, <3>1, <3>2 DEF Release
    <3>. QED BY <1>1, <3>3, <3>7, OneOther
  <2>. QED BY <2>1, <2>2
<1>. QED BY <1>3, <1>4, Between

\* _fnode_open: at the start of the file or directory.
LEMMA AtStart ==
  ASSUME NEW r \in Held, Described(r), r.cluster = r.first, r.sec = 0, r.byte = 0, r.want = 0
  PROVE  /\ r.dir => OnDir(r, 0) /\ Len(Stream[r.entry]) - 1 \in Nat
         /\ ~r.dir => OnFile(r)
<1>1. 0 * SPC + 0 = 0 /\ 0 * B + 0 = 0 /\ 0 * EPS + 0 = 0 /\ 0 * EntrySize = 0
      /\ (0 * SPC + 0) * EPS + 0 = 0 /\ (0 * SPC + 0) * B + 0 = 0
  BY Sizing
<1>2. 0 < SPC /\ 0 < B /\ 0 < EPS BY Sizing
<1>3. r.entry # ROOT => Follows(r, 0)
  <2>1. SUFFICES ASSUME r.entry # ROOT PROVE Follows(r, 0) OBVIOUS
  <2>2. r.entry \in Names /\ r.first = First(r.entry) BY <2>1 DEF Held, Described
  <2>3. PICK ch \in Seq(Nat \ {0, 1}) : ch = Entry[r.entry].chain BY <2>2, Chained
  <2>4. First(r.entry) = IF ch = <<>> THEN 0 ELSE ch[1] BY <2>3 DEF First
  <2>5. 0 < Len(ch) => ch # <<>> OBVIOUS
  <2>6. 0 < Len(ch) => r.cluster = ch[0 + 1] BY <2>2, <2>4, <2>5
  <2>. QED BY <2>3, <2>6 DEF Follows
<1>4. ASSUME r.dir PROVE OnDir(r, 0)
  <2>1. 0 \in 0..EPS-1 /\ 0 \in 0..0 BY <1>2, Sizing
  <2>2. r.entry = ROOT => r.cluster = 0 /\ 0 = r.sec * EPS + 0 BY <1>1 DEF Described
  <2>3. r.entry # ROOT => 0 = (0 * SPC + r.sec) * EPS + 0 /\ r.sec < SPC /\ Follows(r, 0)
    BY <1>1, <1>2, <1>3
  <2>4. r.byte = 0 * EntrySize BY <1>1
  <2>. QED BY <2>1, <2>2, <2>3, <2>4 DEF OnDir
<1>5. ASSUME r.dir PROVE Len(Stream[r.entry]) - 1 \in Nat
  BY <1>5, IsDirectory, DirectoryFacts
<1>6. ASSUME ~r.dir PROVE OnFile(r)
  <2>1. r.entry # ROOT BY <1>6, IsDirectory
  <2>2. 0 \in 0..r.want /\ r.want = (0 * SPC + r.sec) * B + r.byte BY <1>1
  <2>. QED BY <1>2, <1>3, <2>1, <2>2 DEF OnFile
<1>. QED BY <1>4, <1>5, <1>6

\* The vnode is put elsewhere.
LEMMA PutFields ==
  ASSUME NEW r \in Held, NEW c \in Int, NEW s \in Nat, NEW b \in Nat, NEW p \in Nat, NEW w \in Int,
         NEW q, q = [r EXCEPT !.cluster = c, !.sec = s, !.byte = b, !.pos = p, !.want = w]
  PROVE  /\ q \in Held /\ SameNode(q, r) /\ q.cluster = c /\ q.sec = s /\ q.byte = b
         /\ q.pos = p /\ q.want = w /\ q.buf = r.buf /\ q.tag = r.tag
BY DEF Held, SameNode

LEMMA SameDescribed ==
  ASSUME NEW q, NEW r, SameNode(q, r), Described(r) PROVE Described(q)
BY DEF SameNode, Described

LEMMA Opens ==
  ASSUME IInv, NEW v \in InUse, Open(v)
  PROVE  IInv'
<1>1. TableOK(vn, shown) /\ v \in Vnodes BY Table
<1>2. PICK r \in Held : r = vn[v] /\ r.buf = r.tag /\ Described(r) BY Table DEF IInv, VnodeOK
<1>3. op = Idle /\ UNCHANGED <<op, out>> /\ shown \in [Vnodes -> Seq(Names \cup {Lost})]
  BY DEF Open, IInv, Typed
<1>4. PICK z \in Nat, f \in Int : z = 0 /\ f = r.first BY DEF Held
<1>5. PICK q : q = [r EXCEPT !.cluster = f, !.sec = z, !.byte = z, !.pos = z, !.want = z] OBVIOUS
<1>6. /\ q \in Held /\ SameNode(q, r) /\ q.cluster = f /\ q.sec = z /\ q.byte = z
      /\ q.pos = z /\ q.want = z /\ q.buf = q.tag
  <2>1. z \in Int OBVIOUS
  <2>. QED BY <1>2, <1>5, <2>1 DEF Held, SameNode
<1>7. vn' = [vn EXCEPT ![v] = q]
  BY <1>1, <1>2, <1>4, <1>5 DEF Open, TableOK
<1>8. Described(q) /\ q.cluster = q.first BY <1>2, <1>4, <1>6, SameDescribed DEF SameNode
<1>9. VnodeOK(q, <<>>)
  <2>1. q.dir => OnDir(q, 0) /\ 0 \in 0 .. Len(Stream[q.entry]) - 1 /\ Lists(<<>>, q.entry, 0)
    BY <1>4, <1>6, <1>8, AtStart, ListNone
  <2>2. ~q.dir => OnFile(q) /\ q.want >= 0 /\ q.pos <= q.size
    <3>1. ~q.dir => OnFile(q) BY <1>4, <1>6, <1>8, AtStart
    <3>2. q.size \in Nat BY <1>6 DEF Held
    <3>. QED BY <1>4, <1>6, <3>1, <3>2
  <2>3. Settled(q, <<>>) BY <1>4, <1>6, <2>1, <2>2 DEF Settled
  <2>. QED BY <1>6, <1>8, <2>3 DEF VnodeOK
<1>10. /\ shown' \in [Vnodes -> Seq(Names \cup {Lost})] /\ shown'[v] = <<>>
       /\ \A w \in Vnodes : w # v => shown'[w] = shown[w]
  BY <1>1, <1>3 DEF Open
<1>11. TableOK(vn', shown')
  <2>1. /\ vn' \in [Vnodes -> Held \cup {NoVn}] /\ vn'[v] = q
        /\ \A w \in Vnodes : w # v => vn'[w] = vn[w]
    BY <1>1, <1>6, <1>7 DEF TableOK
  <2>2. VnodeOK(vn'[v], shown'[v]) BY <1>9, <1>10, <2>1
  <2>. QED BY <1>1, <1>10, <2>1, <2>2 DEF TableOK
<1>. QED BY <1>3, <1>10, <1>11, Between

\* _fnode_lseek.
LEMMA Seeks ==
  ASSUME IInv, NEW v \in InUse, NEW whence, NEW offset, Lseek(v, whence, offset)
  PROVE  IInv'
<1>1. TableOK(vn, shown) /\ v \in Vnodes BY Table
<1>2. PICK r \in Held : /\ r = vn[v] /\ r.buf = r.tag /\ Described(r) /\ Settled(r, shown[v])
  BY Table DEF IInv, VnodeOK
<1>3. op = Idle /\ UNCHANGED <<op, out>> /\ shown \in [Vnodes -> Seq(Names \cup {Lost})]
      /\ shown' = [shown EXCEPT ![v] = <<>>]
  BY DEF Lseek, IInv, Typed
<1>4. PICK o \in Nat :
      /\ r.dir => o <= r.size
      /\ vn' = [vn EXCEPT ![v] = [(IF o >= SPC * B THEN Dropped(r) ELSE r) EXCEPT
                   !.cluster = Walk(r.first, o)[1], !.sec = Walk(r.first, o)[2], !.byte = o % B,
                   !.want = o]]
  BY <1>2 DEF Lseek
<1>5. r.size \in Nat /\ (r.dir => o <= r.size) BY <1>4 DEF Held
<1>6. PICK m \in Held : /\ m = IF o >= SPC * B THEN Dropped(r) ELSE r
                        /\ SameNode(m, r) /\ m.buf = m.tag /\ m.pos = r.pos
  <2>1. SameNode(r, r) BY DEF SameNode
  <2>. QED BY <1>2, <2>1, DroppedFields
<1>7. PICK b \in Nat : b = o % B BY <1>5, Sizing, Divided
<1>8. r.dir => o = 0 /\ b = 0 /\ Walk(r.first, o) = <<r.first, 0>>
  <2>1. SUFFICES ASSUME r.dir PROVE o = 0 /\ b = 0 /\ Walk(r.first, o) = <<r.first, 0>> OBVIOUS
  <2>2. r.size = 0
    <3>1. r.entry = ROOT \/ r.entry \in Directories BY <1>2, <2>1, IsDirectory
    <3>2. CASE r.entry = ROOT BY <1>2, <3>2 DEF Described
    <3>3. CASE r.entry \in Directories
      <4>1. r.entry # ROOT BY <3>3, VolumeAssumption DEF Directories
      <4>. QED BY <1>2, <3>3, <4>1, VolumeAssumption DEF Described
    <3>. QED BY <3>1, <3>2, <3>3
  <2>3. o = 0 BY <1>5, <2>1, <2>2
  <2>4. 0 * B + 0 = 0 /\ 0 < B BY Sizing
  <2>5. 0 % B = 0 BY <2>4, Sizing, Division
  <2>. QED BY <1>7, <2>3, <2>5, WalkNone
<1>9. ~r.dir => r.entry \in Names /\ r.first = First(r.entry) /\ r.size = Entry[r.entry].size
  BY <1>2, IsDirectory DEF Described
<1>10. PICK c \in Int, s \in Nat : Walk(r.first, o) = <<c, s>>
  <2>1. CASE r.dir
    <3>1. r.first \in Int BY DEF Held
    <3>. QED BY <1>8, <2>1, <3>1
  <2>2. CASE ~r.dir
    <3>1. PICK n \in Names : n = r.entry /\ r.first = First(n) BY <1>9, <2>2
    <3>2. \E k \in Nat, s \in Nat, c \in Int : Walk(First(n), o) = <<c, s>> BY WalkPlace
    <3>. QED BY <3>1, <3>2
  <2>. QED BY <2>1, <2>2
<1>11. PICK q : q = [m EXCEPT !.cluster = c, !.sec = s, !.byte = b, !.want = o] OBVIOUS
<1>12. vn' = [vn EXCEPT ![v] = q] BY <1>4, <1>6, <1>7, <1>10, <1>11
<1>13. /\ q \in Held /\ SameNode(q, m) /\ q.cluster = c /\ q.sec = s /\ q.byte = b
       /\ q.pos = m.pos /\ q.want = o /\ q.buf = q.tag
  <2>1. o \in Int BY <1>5
  <2>. QED BY <1>6, <1>11, <2>1 DEF Held, SameNode
<1>14. SameNode(q, r) /\ q.pos = r.pos BY <1>6, <1>13 DEF SameNode
<1>15. Described(q) BY <1>2, <1>14, SameDescribed
<1>16. VnodeOK(q, <<>>)
  <2>1. CASE q.dir
    <3>1. r.dir /\ q.first = r.first BY <1>14, <2>1 DEF SameNode
    <3>2. q.cluster = q.first /\ q.sec = 0 /\ q.byte = 0 /\ q.want = 0
      BY <1>8, <1>10, <1>13, <3>1
    <3>3. OnDir(q, 0) /\ Len(Stream[q.entry]) - 1 \in Nat BY <1>13, <1>15, <2>1, <3>2, AtStart
    <3>4. 0 \in 0 .. Len(Stream[q.entry]) - 1 BY <3>3
    <3>5. Settled(q, <<>>) BY <2>1, <3>2, <3>3, <3>4, ListNone DEF Settled
    <3>. QED BY <1>13, <1>15, <3>5 DEF VnodeOK
  <2>2. CASE ~q.dir
    <3>1. ~r.dir /\ q.entry = r.entry /\ q.size = r.size BY <1>14, <2>2 DEF SameNode
    <3>2. PICK n \in Names : n = r.entry /\ First(n) = r.first /\ Entry[n].size = r.size
      BY <1>9, <3>1
    <3>3. /\ q.entry = n /\ q.want = o /\ q.cluster = Walk(First(n), o)[1]
          /\ q.sec = Walk(First(n), o)[2] /\ q.byte = o % B
      BY <1>7, <1>10, <1>13, <3>1, <3>2
    <3>4. OnFile(q) BY <1>5, <1>13, <3>2, <3>3, WalkRight
    <3>5. q.pos <= q.size /\ q.want >= 0 BY <1>2, <1>5, <1>13, <1>14, <3>1 DEF Settled
    <3>6. Settled(q, <<>>) BY <2>2, <3>4, <3>5 DEF Settled
    <3>. QED BY <1>13, <1>15, <3>6 DEF VnodeOK
  <2>. QED BY <2>1, <2>2
<1>17. shown' \in [Vnodes -> Seq(Names \cup {Lost})] /\ shown'[v] = <<>>
       /\ \A w \in Vnodes : w # v => shown'[w] = shown[w]
  BY <1>1, <1>3
<1>18. TableOK(vn', shown')
  <2>1. /\ vn' \in [Vnodes -> Held \cup {NoVn}] /\ vn'[v] = q
        /\ \A w \in Vnodes : w # v => vn'[w] = vn[w]
    BY <1>1, <1>12, <1>13 DEF TableOK
  <2>2. VnodeOK(vn'[v], shown'[v]) BY <1>16, <1>17, <2>1
  <2>. QED BY <1>1, <1>17, <2>1, <2>2 DEF TableOK
<1>. QED BY <1>3, <1>17, <1>18, Between

-----------------------------------------------------------------------------
(* The reads.                                                              *)

\* What a step of a read leaves to show.
LEMMA Afterwards ==
  ASSUME TableOK(vn', shown'), op' \in [v : Nat, left : Nat, from : Nat],
         out' \in [file : Names \cup {ROOT}, from : Nat, bytes : Seq(Int \X Int)],
         shown' \in [Vnodes -> Seq(Names \cup {Lost})], OpOK', ReadRight'
  PROVE  IInv'
<1>1. Typed' BY DEF Typed, TableOK
<1>2. \A v \in InUse' : VnodeOK(vn'[v], shown'[v]) BY DEF InUse, TableOK
<1>. QED BY <1>1, <1>2 DEF IInv

LEMMA Quiet ==
  ASSUME IInv, op' = Idle, out' = Nothing, shown' \in [Vnodes -> Seq(Names \cup {Lost})], TableOK(vn', shown')
  PROVE  IInv'
<1>1. op' \in [v : Nat, left : Nat, from : Nat] BY DEF Idle
<1>2. out' \in [file : Names \cup {ROOT}, from : Nat, bytes : Seq(Int \X Int)] /\ out'.bytes = <<>>
  BY DEF Nothing
<1>3. OpOK' BY <1>2 DEF OpOK
<1>4. ReadRight' BY <1>2 DEF ReadRight
<1>. QED BY <1>1, <1>2, <1>3, <1>4, Afterwards

LEMMA Ends == ASSUME IInv, End PROVE IInv'
<1>1. TableOK(vn, shown) /\ shown \in [Vnodes -> Seq(Names \cup {Lost})] BY Table DEF IInv, Typed
<1>2. TableOK(vn', shown') /\ shown' \in [Vnodes -> Seq(Names \cup {Lost})] BY <1>1 DEF End
<1>. QED BY <1>2, Quiet DEF End

\* A read in progress is one of a vnode in use.
LEMMA Busy ==
  ASSUME IInv, op.left > 0
  PROVE  /\ op.v \in InUse /\ Reading(vn[op.v]) /\ op.v \in Vnodes /\ op.v \in Nat /\ op.left \in Nat
         /\ \E r \in Held : r = vn[op.v] /\ r.buf = r.tag /\ Described(r) /\ Settled(r, shown[op.v])
<1>1. op # Idle BY DEF Idle
<1>2. op.v \in InUse /\ Reading(vn[op.v]) BY <1>1 DEF IInv, OpOK
<1>3. op.v \in Nat /\ op.left \in Nat BY DEF IInv, Typed
<1>4. op.v \in Vnodes /\ vn[op.v] \in Held BY <1>2, Table
<1>5. VnodeOK(vn[op.v], shown[op.v]) BY <1>2 DEF IInv
<1>. QED BY <1>2, <1>3, <1>4, <1>5 DEF VnodeOK

LEMMA Fails == ASSUME IInv, ReadFails PROVE IInv'
<1>1. TableOK(vn, shown) /\ shown \in [Vnodes -> Seq(Names \cup {Lost})] BY Table DEF IInv, Typed
<1>2. op.left > 0 BY DEF ReadFails
<1>3. PICK v \in Vnodes : v = op.v BY <1>2, Busy
<1>4. PICK r \in Held : r = vn[v] /\ VnodeOK(r, shown[v]) BY <1>2, <1>3, Busy DEF VnodeOK
<1>5. PICK d \in Held : /\ d = Dropped(r) /\ d.buf = d.tag /\ SameNode(d, r)
                        /\ d.cluster = r.cluster /\ d.sec = r.sec /\ d.byte = r.byte
                        /\ d.pos = r.pos /\ d.want = r.want
  BY DroppedFields
<1>6. Still(d, r) BY <1>5 DEF Still, SameNode
<1>7. VnodeOK(d, shown[v]) BY <1>4, <1>5, <1>6, StillOK
<1>8. PICK s, t : s = shown[v] /\ t = Losing(s, op.from) OBVIOUS
<1>9. s \in Seq(Names \cup {Lost}) BY <1>1, <1>8
<1>10. VnodeOK(d, t)
  <2>1. Settled(d, s) BY <1>7, <1>8 DEF VnodeOK
  <2>2. \A e, n : Lists(s, e, n) => Lists(t, e, n) BY <1>8, <1>9, ListLost
  <2>3. s = <<>> => t = <<>> BY <1>8, <1>9, LosingType
  <2>4. Settled(d, t) BY <2>1, <2>2, <2>3 DEF Settled
  <2>. QED BY <1>7, <2>4 DEF VnodeOK
<1>11. vn' = [vn EXCEPT ![v] = d] /\ shown' = [shown EXCEPT ![v] = t]
  BY <1>3, <1>4, <1>5, <1>8 DEF ReadFails
<1>12. t \in Seq(Names \cup {Lost}) BY <1>8, <1>9, LosingType
<1>13. shown' \in [Vnodes -> Seq(Names \cup {Lost})] /\ shown'[v] = t
       /\ \A w \in Vnodes : w # v => shown'[w] = shown[w]
  BY <1>1, <1>11, <1>12
<1>14. TableOK(vn', shown')
  <2>1. /\ vn' \in [Vnodes -> Held \cup {NoVn}] /\ vn'[v] = d
        /\ \A w \in Vnodes : w # v => vn'[w] = vn[w]
    BY <1>1, <1>11 DEF TableOK
  <2>2. VnodeOK(vn'[v], shown'[v]) BY <1>10, <1>13, <2>1
  <2>. QED BY <1>1, <1>13, <2>1, <2>2 DEF TableOK
<1>. QED BY <1>13, <1>14, Quiet DEF ReadFails

LEMMA RootFailsOK == ASSUME IInv, RootFails PROVE IInv'
<1>1. TableOK(vn, shown) /\ shown \in [Vnodes -> Seq(Names \cup {Lost})] BY Table DEF IInv, Typed
<1>2. op.left > 0 BY DEF RootFails
<1>3. PICK v \in Vnodes : v = op.v /\ v \in Nat BY <1>2, Busy
<1>4. PICK r \in Held : r = vn[v] /\ VnodeOK(r, shown[v]) /\ r.dir /\ Reading(r)
  BY <1>2, <1>3, Busy DEF VnodeOK, RootFails
<1>5. PICK d \in Held : /\ d = Dropped(r) /\ d.buf = d.tag /\ SameNode(d, r)
                        /\ d.cluster = r.cluster /\ d.sec = r.sec /\ d.byte = r.byte
                        /\ d.pos = r.pos /\ d.want = r.want
  BY DroppedFields
<1>6. Still(d, r) BY <1>5 DEF Still, SameNode
<1>7. VnodeOK(d, shown[v]) BY <1>4, <1>5, <1>6, StillOK
<1>8. /\ vn' = [vn EXCEPT ![v] = d] /\ shown' = shown /\ out' = out
      /\ op' = [op EXCEPT !.left = 0]
  BY <1>3, <1>4, <1>5 DEF RootFails
<1>9. TableOK(vn', shown) BY <1>1, <1>7, <1>8, OneOther
<1>10. TableOK(vn', shown') /\ shown' \in [Vnodes -> Seq(Names \cup {Lost})] BY <1>1, <1>8, <1>9
<1>11. op' \in [v : Nat, left : Nat, from : Nat] /\ op'.v = v /\ op'.left = 0
  BY <1>3, <1>8 DEF IInv, Typed
<1>12. out.bytes = <<>> BY <1>4 DEF Reading
<1>13. OpOK'
  <2>1. vn'[v] = d BY <1>1, <1>8 DEF TableOK
  <2>2. d.count > 0 /\ d.dir BY <1>4, <1>5, HeldOrNot DEF SameNode
  <2>3. v \in InUse' BY <2>1, <2>2 DEF InUse
  <2>4. Reading(d)' BY <1>8, <1>11, <1>12, <2>2 DEF Reading
  <2>. QED BY <1>8, <1>11, <1>12, <2>1, <2>3, <2>4 DEF OpOK
<1>14. ReadRight' BY <1>8, <1>12 DEF ReadRight
<1>15. out' \in [file : Names \cup {ROOT}, from : Nat, bytes : Seq(Int \X Int)]
  BY <1>8 DEF IInv, Typed
<1>. QED BY <1>10, <1>11, <1>13, <1>14, <1>15, Afterwards

LEMMA BeginsRead ==
  ASSUME IInv, NEW v \in InUse, NEW n \in Nat, BeginRead(v, n)
  PROVE  IInv'
<1>1. TableOK(vn, shown) /\ shown \in [Vnodes -> Seq(Names \cup {Lost})] /\ v \in Vnodes
  BY Table DEF IInv, Typed
<1>2. PICK r \in Held : r = vn[v] /\ Described(r) /\ Settled(r, shown[v]) /\ ~r.dir /\ r.want >= 0
  BY Table DEF IInv, VnodeOK, BeginRead
<1>3. UNCHANGED <<vn, shown>> BY DEF BeginRead
<1>4. PICK c : c = Clipped(r, n) OBVIOUS
<1>5. r.pos \in Nat /\ r.size \in Nat /\ r.want \in Nat /\ r.pos <= r.size /\ r.entry \in Names \cup {ROOT}
  BY <1>2 DEF Settled, Held
<1>6. c \in Nat /\ r.pos + c <= r.size BY <1>4, <1>5 DEF Clipped
<1>7. v \in Nat BY <1>1 DEF Vnodes
<1>8. op' = [v |-> v, left |-> c, from |-> 0] /\ out' = [file |-> r.entry, from |-> r.want, bytes |-> <<>>]
  BY <1>2, <1>4 DEF BeginRead
<1>9. op' \in [v : Nat, left : Nat, from : Nat] BY <1>6, <1>7, <1>8
<1>10. out' \in [file : Names \cup {ROOT}, from : Nat, bytes : Seq(Int \X Int)] BY <1>5, <1>8
<1>11. OpOK'
  <2>1. op'.v \in InUse' /\ vn'[op'.v] = r BY <1>2, <1>3, <1>8 DEF InUse
  <2>2. Reading(r)' BY <1>2, <1>5, <1>6, <1>8 DEF Reading
  <2>3. out'.bytes = <<>> BY <1>8
  <2>. QED BY <2>1, <2>2, <2>3 DEF OpOK
<1>12. ReadRight' BY <1>8 DEF ReadRight
<1>13. TableOK(vn', shown') /\ shown' \in [Vnodes -> Seq(Names \cup {Lost})] BY <1>1, <1>3
<1>. QED BY <1>9, <1>10, <1>11, <1>12, <1>13, Afterwards

LEMMA BeginsDents ==
  ASSUME IInv, NEW v \in InUse, NEW n \in Nat, BeginDents(v, n)
  PROVE  IInv'
<1>1. TableOK(vn, shown) /\ shown \in [Vnodes -> Seq(Names \cup {Lost})] /\ v \in Vnodes
  BY Table DEF IInv, Typed
<1>2. PICK r \in Held : r = vn[v] /\ Settled(r, shown[v]) /\ r.dir /\ r.want # Unopened
  BY Table DEF IInv, VnodeOK, BeginDents
<1>3. UNCHANGED <<vn, out, shown>> BY DEF BeginDents
<1>4. v \in Nat BY <1>1 DEF Vnodes
<1>13. PICK m \in Nat : m = Len(shown[v])
  <2>1. shown[v] \in Seq(Names \cup {Lost}) BY <1>1
  <2>. QED BY <2>1
<1>5. op' = [v |-> v, left |-> n, from |-> m] BY <1>13 DEF BeginDents
<1>6. op' \in [v : Nat, left : Nat, from : Nat] BY <1>4, <1>5
<1>7. out.bytes = <<>> BY DEF IInv, OpOK, BeginDents
<1>9. OpOK'
  <2>1. op'.v \in InUse' /\ vn'[op'.v] = r BY <1>2, <1>3, <1>5 DEF InUse
  <2>2. Reading(r)' BY <1>2, <1>3, <1>7 DEF Reading
  <2>. QED BY <1>3, <1>7, <2>1, <2>2 DEF OpOK
<1>10. ReadRight' BY <1>3, <1>7 DEF ReadRight
<1>11. out' \in [file : Names \cup {ROOT}, from : Nat, bytes : Seq(Int \X Int)]
  BY <1>3 DEF IInv, Typed
<1>12. TableOK(vn', shown') /\ shown' \in [Vnodes -> Seq(Names \cup {Lost})] BY <1>1, <1>3
<1>. QED BY <1>6, <1>9, <1>10, <1>11, <1>12, Afterwards

\* The bytes s are those of file f from byte a on; u are n bytes from byte b of
\* sector h on; these are the bytes of f from byte a on.
Gives(f, a, s) == \A i \in DOMAIN s : a + i <= Entry[f].size => s[i] = Location(f, a + i - 1)
Bytes(u, n, h, b) ==
    u \in Seq(Int \X Int) /\ Len(u) = n /\ \A i \in 1..n : u[i] = <<h, b + i - 1>>
Lie(f, a, n, h, b) ==
    \A j \in Nat : j < n /\ a + j < Entry[f].size => Location(f, a + j) = <<h, b + j>>

LEMMA Longer ==
  ASSUME NEW f \in Names, NEW a \in Nat, NEW s \in Seq(Int \X Int), NEW n \in Nat, NEW h \in Int,
         NEW b \in Nat, NEW u, Bytes(u, n, h, b), Gives(f, a, s), Lie(f, a + Len(s), n, h, b)
  PROVE  s \o u \in Seq(Int \X Int) /\ Len(s \o u) = Len(s) + n /\ Gives(f, a, s \o u)
<1>1. PICK t : t = s \o u OBVIOUS
<1>2. u \in Seq(Int \X Int) /\ Len(u) = n /\ \A i \in 1..n : u[i] = <<h, b + i - 1>>
  BY DEF Bytes
<1>3. PICK L \in Nat : L = Len(s) /\ DOMAIN s = 1..L OBVIOUS
<1>4. t \in Seq(Int \X Int) /\ Len(t) = L + n /\ DOMAIN t = 1..(L + n)
  <2>1. t \in Seq(Int \X Int) BY <1>1, <1>2
  <2>3. \A S : \A x, y \in Seq(S) : Len(x \o y) = Len(x) + Len(y) OBVIOUS
  <2>2. Len(t) = Len(s) + Len(u) BY <1>1, <1>2, <2>3
  <2>. QED BY <1>2, <1>3, <2>1, <2>2
<1>5. \A i \in 1..(L + n) : t[i] = IF i <= L THEN s[i] ELSE u[i - L]
  <2>1. \A S : \A x, y \in Seq(S) : \A i \in 1..(Len(x) + Len(y)) :
           (x \o y)[i] = IF i <= Len(x) THEN x[i] ELSE y[i - Len(x)]
    OBVIOUS
  <2>. QED BY <1>1, <1>2, <1>3, <2>1
<1>6. PICK z \in Nat : z = Entry[f].size BY Chained
<1>7. ASSUME NEW i \in 1..(L + n), a + i <= z PROVE t[i] = Location(f, a + i - 1)
  <2>1. CASE i <= L
    <3>1. i \in DOMAIN s BY <1>3, <2>1
    <3>2. a + i <= Entry[f].size BY <1>6, <1>7
    <3>3. s[i] = Location(f, a + i - 1) BY <3>1, <3>2 DEF Gives
    <3>4. t[i] = s[i] BY <1>5, <2>1
    <3>. QED BY <3>3, <3>4
  <2>2. CASE i > L
    <3>1. PICK j \in Nat : j = i - L - 1 /\ j < n /\ i - L = j + 1 /\ j + 1 \in 1..n BY <2>2
    <3>2. a + L + j = a + i - 1 /\ a + L + j < z /\ b + (j + 1) - 1 = b + j BY <1>7, <3>1
    <3>3. Location(f, a + i - 1) = <<h, b + j>>
      <4>1. Location(f, (a + L) + j) = <<h, b + j>> BY <1>3, <1>6, <3>1, <3>2 DEF Lie
      <4>. QED BY <3>2, <4>1
    <3>6. i \in Nat /\ ~(i <= L) BY <1>7, <2>2
    <3>7. t[i] = u[i - L] BY <1>5, <1>7, <3>6
    <3>4. t[i] = u[j + 1] BY <3>1, <3>7
    <3>5. u[j + 1] = <<h, b + (j + 1) - 1>> BY <1>2, <3>1
    <3>. QED BY <3>2, <3>3, <3>4, <3>5
  <2>3. i <= L \/ i > L BY <1>3, <1>7
  <2>. QED BY <2>1, <2>2, <2>3
<1>. QED BY <1>1, <1>3, <1>4, <1>6, <1>7 DEF Gives

\* One turn of _fnode_read.
LEMMA Chunks == ASSUME IInv, Chunk PROVE IInv'
<1>1. TableOK(vn, shown) /\ shown \in [Vnodes -> Seq(Names \cup {Lost})] BY Table DEF IInv, Typed
<1>2. op.left > 0 BY DEF Chunk
<1>3. PICK v \in Vnodes : v = op.v /\ v \in Nat /\ op.left \in Nat BY <1>2, Busy
<1>4. PICK r \in Held : /\ r = vn[v] /\ r.buf = r.tag /\ Described(r) /\ Settled(r, shown[v])
                        /\ Reading(r) /\ ~r.dir
  BY <1>2, <1>3, Busy DEF Chunk
<1>5. PICK f \in Names : f = r.entry BY <1>4, IsDirectory
<1>6. OnFile(r) /\ r.want \in Nat /\ r.pos \in Nat /\ r.pos <= r.size /\ r.size \in Nat
      /\ r.byte \in Nat /\ r.byte < B
  <2>1. r.want \in Int /\ r.pos \in Nat /\ r.size \in Nat /\ r.byte \in Nat BY DEF Held
  <2>2. r.want >= 0 BY <1>4 DEF Reading
  <2>3. r.pos <= r.size /\ OnFile(r) BY <1>4, <2>2 DEF Settled, Unopened
  <2>4. r.byte < B BY <2>3 DEF OnFile
  <2>. QED BY <2>1, <2>2, <2>3, <2>4
<1>7. PICK h \in Int : h = Here(r)
  BY RootRoom, Sizing DEF Here, Sector, DataStart, RootStart, Held
<1>8. PICK l \in Held : /\ l = Loaded(r, h) /\ SameNode(l, r) /\ l.buf = h /\ l.tag = h
                        /\ l.cluster = r.cluster /\ l.sec = r.sec /\ l.byte = r.byte
                        /\ l.pos = r.pos /\ l.want = r.want
  BY <1>4, LoadedFields
<1>9. PICK n \in Nat : n = Min({op.left, B - l.byte}) /\ n > 0 /\ n <= op.left /\ r.byte + n <= B
  <2>1. PICK x \in Nat : x = B - l.byte /\ x > 0 BY <1>6, <1>8, Sizing
  <2>2. {op.left, x} \in SUBSET Nat /\ {op.left, x} # {} BY <1>3
  <2>3. Min({op.left, x}) \in {op.left, x} /\ \A y \in {op.left, x} : Min({op.left, x}) <= y
    BY <2>2, Smallest
  <2>. QED BY <1>2, <1>3, <1>6, <1>8, <2>1, <2>3, Sizing
<1>10. PICK m \in Held : /\ m = Moved(l, n) /\ SameNode(m, l) /\ m.buf = m.tag
                         /\ m.pos = l.pos /\ m.want = l.want
                         /\ m.byte = (IF l.byte + n < B THEN l.byte + n ELSE 0)
                         /\ Advanced(m, l, B, l.byte, n)
  BY <1>8, MovedFields
<1>11. PICK p \in Nat, w \in Nat : p = r.pos + n /\ w = r.want + n BY <1>6
<1>12. PICK q : q = [m EXCEPT !.pos = p, !.want = w] OBVIOUS
<1>13. /\ q \in Held /\ SameNode(q, m) /\ q.cluster = m.cluster /\ q.sec = m.sec
       /\ q.byte = m.byte /\ q.buf = q.tag /\ q.pos = p /\ q.want = w
  <2>1. w \in Int OBVIOUS
  <2>. QED BY <1>10, <1>12, <2>1 DEF Held, SameNode
<1>14. vn' = [vn EXCEPT ![v] = q]
       /\ out' = [out EXCEPT !.bytes = out.bytes \o [i \in 1..n |-> <<h, r.byte + i - 1>>]]
       /\ op' = [op EXCEPT !.left = op.left - n] /\ shown' = shown
  <2>1. q = [Moved(l, n) EXCEPT !.pos = @ + n, !.want = @ + n]
    BY <1>8, <1>10, <1>11, <1>12
  <2>. QED BY <1>3, <1>4, <1>7, <1>8, <1>9, <2>1 DEF Chunk
<1>15. SameNode(q, r) /\ SameNode(q, l) BY <1>8, <1>10, <1>13 DEF SameNode
<1>16. OnFile(q)
  <2>1. OnFile(l)
    <3>1. \A k : Follows(r, k) => Follows(l, k) BY <1>8 DEF Follows, SameNode
    <3>. QED BY <1>6, <1>8, <3>1 DEF OnFile
  <2>2. Advanced(q, l, B, l.byte, n) BY <1>10, <1>13 DEF Advanced
  <2>3. l.entry \in Names BY <1>5, <1>8 DEF SameNode
  <2>. QED BY <1>6, <1>8, <1>9, <1>10, <1>11, <1>13, <1>15, <2>1, <2>2, <2>3, FileMoves
<1>17. q.pos + (op.left - n) <= q.size /\ ~q.dir /\ q.entry = f
       /\ r.want = out.from + Len(out.bytes) /\ out.file = f
  <2>1. ~q.dir /\ q.entry = f /\ q.size = r.size BY <1>4, <1>5, <1>15 DEF SameNode
  <2>2. r.want = out.from + Len(out.bytes) /\ out.file = f /\ r.pos + op.left <= r.size
    BY <1>4, <1>5 DEF Reading
  <2>3. PICK x \in Nat : x = op.left BY <1>3
  <2>4. q.pos = r.pos + n BY <1>11, <1>13
  <2>5. q.pos + (x - n) <= q.size BY <1>6, <2>1, <2>2, <2>3, <2>4
  <2>. QED BY <2>1, <2>2, <2>3, <2>5
<1>18. VnodeOK(q, shown[v])
  <2>1. q.pos <= q.size
    <3>1. PICK x \in Nat, y \in Nat, z \in Nat : x = op.left - n /\ y = q.pos /\ z = q.size
      BY <1>3, <1>9, <1>13 DEF Held
    <3>2. y + x <= z BY <1>17, <3>1
    <3>. QED BY <3>1, <3>2
  <2>2. Settled(q, shown[v]) BY <1>13, <1>16, <1>17, <2>1 DEF Settled
  <2>. QED BY <1>4, <1>13, <1>15, <2>2, SameDescribed DEF VnodeOK
<1>19. TableOK(vn', shown') /\ shown' \in [Vnodes -> Seq(Names \cup {Lost})]
  <2>1. TableOK(vn', shown) BY <1>1, <1>13, <1>14, <1>18, OneOther
  <2>. QED BY <1>1, <1>14, <2>1
<1>20. PICK a \in Nat, s \in Seq(Int \X Int) : a = out.from /\ s = out.bytes BY DEF IInv, Typed
<1>28. PICK u : u = [i \in 1..n |-> <<h, r.byte + i - 1>>] OBVIOUS
<1>21. PICK t : t = s \o u OBVIOUS
<1>22. t \in Seq(Int \X Int) /\ Len(t) = Len(s) + n /\ Gives(f, a, t)
  <2>1. Gives(f, a, s) BY <1>17, <1>20 DEF IInv, ReadRight, Gives
  <2>2. PICK b \in Nat : b = r.byte BY <1>6
  <2>3. Lie(f, a + Len(s), n, h, b)
    <3>1. SUFFICES ASSUME NEW j \in Nat, j < n, a + Len(s) + j < Entry[f].size
                   PROVE  Location(f, a + Len(s) + j) = <<h, b + j>>
      BY DEF Lie
    <3>2. a + Len(s) + j = r.want + j BY <1>17, <1>20
    <3>3. r.byte + j < B BY <1>6, <1>9, <3>1, Sizing
    <3>4. r.want + j < Entry[f].size BY <3>1, <3>2
    <3>5. Location(f, r.want + j) = <<Here(r), r.byte + j>>
      <4>1. r.want >= 0 /\ r.entry = f BY <1>5, <1>6
      <4>. QED BY <1>6, <3>3, <3>4, <4>1, ByteHere
    <3>. QED BY <1>7, <2>2, <3>2, <3>5
  <2>4. Bytes(u, n, h, b) BY <1>28, <2>2 DEF Bytes
  <2>. QED BY <1>21, <2>1, <2>3, <2>4, Longer
<1>23. out' = [out EXCEPT !.bytes = t] BY <1>14, <1>20, <1>21, <1>28
<1>24. out'.file = f /\ out'.from = a /\ out'.bytes = t
       /\ out' \in [file : Names \cup {ROOT}, from : Nat, bytes : Seq(Int \X Int)]
  BY <1>17, <1>20, <1>22, <1>23 DEF IInv, Typed
<1>25. op'.v = v /\ op'.left = op.left - n /\ op' \in [v : Nat, left : Nat, from : Nat]
  <2>1. op.left - n \in Nat BY <1>3, <1>9
  <2>. QED BY <1>3, <1>14, <2>1 DEF IInv, Typed
<1>26. ReadRight' BY <1>22, <1>24 DEF ReadRight, Gives
<1>27. OpOK'
  <2>1. vn'[v] = q /\ v \in InUse'
    <3>1. vn'[v] = q BY <1>1, <1>14 DEF TableOK
    <3>2. q.count > 0 BY <1>13, HeldOrNot
    <3>. QED BY <3>1, <3>2 DEF InUse
  <2>2. q.want = a + Len(t) BY <1>6, <1>11, <1>13, <1>17, <1>20, <1>22
  <2>3. Reading(q)' BY <1>13, <1>17, <1>24, <1>25, <2>2 DEF Reading
  <2>4. op' # Idle BY <1>25 DEF Idle, Vnodes
  <2>. QED BY <1>25, <2>1, <2>3, <2>4 DEF OpOK
<1>. QED BY <1>19, <1>24, <1>25, <1>26, <1>27, Afterwards

\* One entry of _fnode_getdents.
LEMMA Dents == ASSUME IInv, Dent PROVE IInv'
<1>1. TableOK(vn, shown) /\ shown \in [Vnodes -> Seq(Names \cup {Lost})] BY Table DEF IInv, Typed
<1>2. op.left > 0 BY DEF Dent
<1>3. PICK v \in Vnodes : v = op.v /\ v \in Nat /\ op.left \in Nat BY <1>2, Busy
<1>4. PICK r \in Held : /\ r = vn[v] /\ r.buf = r.tag /\ Described(r) /\ Settled(r, shown[v])
                        /\ Reading(r) /\ r.dir
  BY <1>2, <1>3, Busy DEF Dent
<1>5. out.bytes = <<>> /\ r.want # Unopened BY <1>2, <1>4 DEF Reading
<1>6. PICK d \in {ROOT} \cup Directories : d = r.entry BY <1>4, IsDirectory
<1>7. PICK S \in Nat : S = Len(Stream[d]) BY DirectoryFacts
<1>8. PICK h \in Int : h = DentSector(r)
  BY RootRoom, Sizing DEF DentSector, Here, Sector, DataStart, RootStart, Held
<1>9. PICK l \in Held : /\ l = Loaded(r, h) /\ SameNode(l, r) /\ l.buf = h /\ l.tag = h
                        /\ l.cluster = r.cluster /\ l.sec = r.sec /\ l.byte = r.byte
                        /\ l.pos = r.pos /\ l.want = r.want
  BY <1>4, LoadedFields
<1>10. PICK m \in Held : /\ m = Entered(l) /\ SameNode(m, l) /\ m.buf = m.tag
                         /\ m.pos = l.pos /\ m.want = l.want
  BY <1>9, EnteredFields
<1>11. Past(l) = Past(r) /\ l = Loaded(vn[op.v], DentSector(vn[op.v]))
  BY <1>3, <1>4, <1>8, <1>9 DEF Past
<1>12. PICK e \in EntryOn(<<h, r.byte>>) :
          /\ vn' = [vn EXCEPT ![v] = [m EXCEPT !.want = Wants(l, e)]]
          /\ \/ e = SkipEntry /\ op' = op /\ shown' = shown
             \/ e = EndEntry /\ op' = [op EXCEPT !.left = 0] /\ shown' = shown
             \/ /\ e \in Names /\ op' = [op EXCEPT !.left = op.left - 1]
                /\ shown' = IF Past(r) THEN shown
                            ELSE [shown EXCEPT ![v] = Append(shown[v], e)]
  BY <1>3, <1>9, <1>10, <1>11 DEF Dent
<1>13. PICK w \in Int :
          /\ w = Wants(l, e) /\ w # Unopened
          /\ Past(r) => w \in {AtEnd, Beyond}
          /\ ~Past(r) => w = IF e = EndEntry THEN AtEnd ELSE 0
  BY <1>9, <1>11 DEF Wants, Past, AtEnd, Beyond, Unopened
<1>14. PICK q : q = [m EXCEPT !.want = w] OBVIOUS
<1>15. /\ q \in Held /\ SameNode(q, m) /\ q.cluster = m.cluster /\ q.sec = m.sec
       /\ q.byte = m.byte /\ q.buf = q.tag /\ q.want = w
  BY <1>10, <1>14 DEF Held, SameNode
<1>16. SameNode(q, r) /\ q.entry = d /\ q.dir /\ Described(q)
  <2>1. SameNode(q, r) BY <1>9, <1>10, <1>15 DEF SameNode
  <2>. QED BY <1>4, <1>6, <2>1, SameDescribed DEF SameNode
<1>17. SkipEntry # EndEntry /\ SkipEntry \notin Names /\ EndEntry \notin Names BY VolumeAssumption
<1>18. \E t \in Seq(Names \cup {Lost}) :
          /\ VnodeOK(q, t) /\ shown'[v] = t /\ shown' \in [Vnodes -> Seq(Names \cup {Lost})]
          /\ \A u \in Vnodes : u # v => shown'[u] = shown[u]
  <2>1. CASE Past(r)
    <3>1. shown' = shown BY <1>12, <2>1
    <3>2. shown[v] \in Seq(Names \cup {Lost}) BY <1>1
    <3>3. Past(q) BY <1>13, <1>15, <2>1 DEF Past
    <3>4. Lists(shown[v], q.entry, Len(Stream[q.entry]))
      <4>1. r.want # 0 BY <2>1 DEF Past, AtEnd, Beyond
      <4>. QED BY <1>4, <1>5, <1>6, <1>16, <4>1 DEF Settled
    <3>5. VnodeOK(q, shown[v]) BY <1>15, <1>16, <3>3, <3>4 DEF VnodeOK, Settled
    <3>. QED BY <1>1, <3>1, <3>2, <3>5
  <2>2. CASE ~Past(r)
    <3>1. PICK i \in Nat : i < S /\ OnDir(r, i) /\ Lists(shown[v], d, i) /\ r.want = 0
      <4>1. r.want = 0 /\ \E j \in 0 .. S - 1 : OnDir(r, j) /\ Lists(shown[v], d, j)
        BY <1>4, <1>5, <1>6, <1>7, <2>2 DEF Settled
      <4>. QED BY <1>7, <4>1
    <3>2. e = Stream[d][i + 1]
      <4>1. EntryOn(<<h, r.byte>>) = {Stream[d][i + 1]} BY <1>6, <1>7, <1>8, <3>1, EntryHere
      <4>. QED BY <4>1
    <3>3. OnDir(q, i + 1)
      <4>1. OnDir(l, i)
        <5>1. \A k : Follows(r, k) => Follows(l, k) BY <1>9 DEF Follows, SameNode
        <5>2. l.entry = r.entry BY <1>9 DEF SameNode
        <5>. QED BY <1>9, <3>1, <5>1, <5>2 DEF OnDir
      <4>2. l.entry = d BY <1>6, <1>9 DEF SameNode
      <4>3. l.buf = l.tag BY <1>9
      <4>. QED BY <1>7, <1>10, <1>15, <1>16, <3>1, <4>1, <4>2, <4>3, DirectoryMoves
    <3>4. i + 1 <= S /\ (e = EndEntry <=> i + 1 = S)
      <4>1. i + 1 \in 1..S BY <3>1
      <4>. QED BY <1>7, <3>2, <4>1, DirectoryFacts
    <3>5. PICK t \in Seq(Names \cup {Lost}) :
             /\ t = IF e \in Names THEN Append(shown[v], e) ELSE shown[v]
             /\ Lists(t, d, i + 1)
      <4>1. shown[v] \in Seq(Names \cup {Lost}) BY <1>1
      <4>2. CASE e \in Names BY <3>1, <3>2, <4>1, <4>2, ListNext
      <4>3. CASE e \notin Names
        <5>1. Stream[d][i + 1] \in {SkipEntry, EndEntry} BY <1>12, <3>2, <4>3
        <5>. QED BY <3>1, <4>1, <4>3, <5>1, ListSkip
      <4>. QED BY <4>2, <4>3
    <3>6. VnodeOK(q, t)
      <4>1. CASE e = EndEntry
        <5>1. q.want = AtEnd BY <1>13, <1>15, <2>2, <4>1
        <5>2. Past(q) BY <5>1 DEF Past
        <5>3. Lists(t, q.entry, Len(Stream[q.entry])) BY <1>7, <1>16, <3>4, <3>5, <4>1
        <5>. QED BY <1>15, <1>16, <5>2, <5>3 DEF VnodeOK, Settled
      <4>2. CASE e # EndEntry
        <5>1. q.want = 0 BY <1>13, <1>15, <2>2, <4>2
        <5>2. i + 1 \in 0 .. Len(Stream[q.entry]) - 1 BY <1>7, <1>16, <3>4, <4>2
        <5>3. Lists(t, q.entry, i + 1) BY <1>16, <3>5
        <5>4. Settled(q, t) BY <1>16, <3>3, <5>1, <5>2, <5>3 DEF Settled
        <5>. QED BY <1>15, <1>16, <5>4 DEF VnodeOK
      <4>. QED BY <4>1, <4>2
    <3>7. shown'[v] = t /\ shown' \in [Vnodes -> Seq(Names \cup {Lost})]
          /\ \A u \in Vnodes : u # v => shown'[u] = shown[u]
      <4>1. CASE e \in Names
        <5>1. shown' = [shown EXCEPT ![v] = t] BY <1>12, <1>17, <2>2, <3>5, <4>1
        <5>. QED BY <1>1, <5>1
      <4>2. CASE e \notin Names BY <1>1, <1>12, <3>5, <4>2
      <4>. QED BY <4>1, <4>2
    <3>. QED BY <3>6, <3>7
  <2>. QED BY <2>1, <2>2
<1>19. /\ vn' \in [Vnodes -> Held \cup {NoVn}] /\ vn'[v] = q
       /\ \A u \in Vnodes : u # v => vn'[u] = vn[u]
  BY <1>1, <1>12, <1>13, <1>14, <1>15 DEF TableOK
<1>20. TableOK(vn', shown') BY <1>1, <1>18, <1>19 DEF TableOK
<1>21. op' \in [v : Nat, left : Nat, from : Nat] /\ op'.v = v
  <2>1. op \in [v : Nat, left : Nat, from : Nat] BY DEF IInv, Typed
  <2>2. op.left - 1 \in Nat BY <1>2, <1>3
  <2>. QED BY <1>3, <1>12, <2>1, <2>2
<1>22. out' = out BY DEF Dent
<1>23. OpOK'
  <2>1. v \in InUse'
    <3>1. q.count > 0 BY <1>15, HeldOrNot
    <3>. QED BY <1>19, <3>1 DEF InUse
  <2>2. Reading(q)' BY <1>5, <1>13, <1>15, <1>16, <1>22 DEF Reading
  <2>. QED BY <1>5, <1>19, <1>21, <1>22, <2>1, <2>2 DEF OpOK
<1>24. ReadRight' BY <1>5, <1>22 DEF ReadRight
<1>25. out' \in [file : Names \cup {ROOT}, from : Nat, bytes : Seq(Int \X Int)]
  BY <1>22 DEF IInv, Typed
<1>26. shown' \in [Vnodes -> Seq(Names \cup {Lost})] BY <1>18
<1>. QED BY <1>20, <1>21, <1>23, <1>24, <1>25, <1>26, Afterwards

-----------------------------------------------------------------------------
(* The invariant, always.                                                  *)

LEMMA Starts == Init => IInv
<1>. SUFFICES ASSUME Init PROVE IInv OBVIOUS
<1>1. PICK n \in Nat \ {0}, g \in Nat, s \in Int, w \in Int : n = 1 /\ g = 0 /\ s = RootStart /\ w = Unopened
  BY DEF RootStart, Unopened
<1>2. PICK b \in BOOLEAN : b = TRUE OBVIOUS
<1>3. PICK r : r = Fresh(RootStart, ROOT, 0, TRUE, 0) OBVIOUS
<1>4. r = [count |-> n, fnode |-> s, entry |-> ROOT, first |-> g, dir |-> b, size |-> g,
           cluster |-> g, sec |-> g, byte |-> g, pos |-> g, buf |-> g, tag |-> g, want |-> w]
  BY <1>1, <1>2, <1>3 DEF Fresh, NoSector
<1>5. r \in Held BY ONLY <1>4, n \in Nat \ {0}, g \in Nat, s \in Int, w \in Int, b \in BOOLEAN DEF Held
<1>6. VnodeOK(r, <<>>)
  <2>1. /\ r.entry = ROOT /\ r.dir /\ r.first = 0 /\ r.size = 0 /\ r.want = Unopened /\ r.buf = r.tag
    BY <1>1, <1>2, <1>4
  <2>. QED BY <2>1 DEF VnodeOK, Described, Settled
<1>7. /\ vn = [v \in Vnodes |-> IF v = 1 THEN r ELSE NoVn] /\ op = Idle /\ out = Nothing
      /\ shown = [v \in Vnodes |-> <<>>]
  BY <1>3 DEF Init
<1>8. ~(NoVn.count > 0) BY DEF NoVn
<1>9. TableOK(vn, shown)
  <2>1. vn \in [Vnodes -> Held \cup {NoVn}] BY <1>5, <1>7
  <2>2. ASSUME NEW v \in Vnodes, vn[v].count > 0 PROVE VnodeOK(vn[v], shown[v])
    <3>1. vn[v] = r /\ shown[v] = <<>> BY <1>7, <1>8, <2>2
    <3>. QED BY <1>6, <3>1
  <2>. QED BY <2>1, <2>2 DEF TableOK
<1>10. Typed
  <2>1. op \in [v : Nat, left : Nat, from : Nat] BY <1>7 DEF Idle
  <2>2. out \in [file : Names \cup {ROOT}, from : Nat, bytes : Seq(Int \X Int)] BY <1>7 DEF Nothing
  <2>3. shown \in [Vnodes -> Seq(Names \cup {Lost})] BY <1>7
  <2>. QED BY <1>9, <2>1, <2>2, <2>3 DEF Typed, TableOK
<1>11. out.bytes = <<>> BY <1>7 DEF Nothing
<1>12. OpOK BY <1>7, <1>11 DEF OpOK
<1>13. ReadRight BY <1>11 DEF ReadRight
<1>14. \A v \in InUse : VnodeOK(vn[v], shown[v]) BY <1>9 DEF InUse, TableOK
<1>. QED BY <1>10, <1>12, <1>13, <1>14 DEF IInv

LEMMA Steps == ASSUME IInv, [Next]_vars PROVE IInv'
<1>1. CASE UNCHANGED vars
  <2>1. UNCHANGED <<vn, op, out, shown>> BY <1>1 DEF vars
  <2>2. TableOK(vn, shown) /\ shown \in [Vnodes -> Seq(Names \cup {Lost})] BY Table DEF IInv, Typed
  <2>3. TableOK(vn', shown') /\ shown' \in [Vnodes -> Seq(Names \cup {Lost})] BY <2>1, <2>2
  <2>4. OpOK' BY <2>1 DEF IInv, OpOK, InUse, Reading
  <2>5. ReadRight' BY <2>1 DEF IInv, ReadRight, Location
  <2>6. op' \in [v : Nat, left : Nat, from : Nat]
        /\ out' \in [file : Names \cup {ROOT}, from : Nat, bytes : Seq(Int \X Int)]
    BY <2>1 DEF IInv, Typed
  <2>. QED BY <2>3, <2>4, <2>5, <2>6, Afterwards
<1>2. ASSUME NEW v \in InUse, NEW nm \in Names \cup {"none"}, Lookup(v, nm) PROVE IInv'
  BY <1>2, Lookups
<1>3. ASSUME NEW v \in InUse, Release(v) PROVE IInv' BY <1>3, Releases
<1>4. ASSUME NEW v \in InUse, Open(v) PROVE IInv' BY <1>4, Opens
<1>5. ASSUME NEW v \in InUse, NEW n \in Sizes, BeginRead(v, n) PROVE IInv'
  <2>1. n \in Nat BY Sizing
  <2>. QED BY <1>5, <2>1, BeginsRead
<1>6. ASSUME NEW v \in InUse, NEW n \in Sizes, BeginDents(v, n) PROVE IInv'
  <2>1. n \in Nat BY Sizing
  <2>. QED BY <1>6, <2>1, BeginsDents
<1>7. ASSUME NEW v \in InUse, NEW w, NEW o, Lseek(v, w, o) PROVE IInv' BY <1>7, Seeks
<1>8. CASE Chunk BY <1>8, Chunks
<1>9. CASE Dent BY <1>9, Dents
<1>10. CASE End BY <1>10, Ends
<1>11. CASE ReadFails BY <1>11, Fails
<1>12. CASE RootFails BY <1>12, RootFailsOK
<1>. QED BY <1>1, <1>2, <1>3, <1>4, <1>5, <1>6, <1>7, <1>8, <1>9, <1>10, <1>11, <1>12 DEF Next, Step

LEMMA Always == Spec => []IInv
<1>1. IInv /\ [Next]_vars => IInv' BY Steps
<1>. QED BY Starts, <1>1, PTL DEF Spec

\* A read gives the bytes of its file, from the byte on where it began, in their order,
\* after any calls to this and other vnodes and any failures of the disk (fat.c 579-653,
\* 660-705, 326-350), in any volume whose chains are apart and have room for their files.
THEOREM ReadRightAlways == Spec => []ReadRight
<1>1. IInv => ReadRight BY DEF IInv
<1>. QED BY Always, <1>1, PTL

\* A listing names each entry of its directory once, in order, and all of them by the end
\* mark (fat.c 737-852), but for those lost with a call that failed, and with searches and
\* seeks of the same vnode in between.  What is named behind the end mark is left out.
THEOREM ListedOnceAlways == Spec => []ListedOnce
<1>1. ASSUME IInv PROVE ListedOnce
  <2>1. SUFFICES ASSUME NEW v \in InUse, vn[v].dir
                 PROVE  \E n \in 0..Len(Stream[vn[v].entry]) :
                           /\ Lists(shown[v], vn[v].entry, n)
                           /\ Past(vn[v]) => n = Len(Stream[vn[v].entry])
    BY DEF ListedOnce
  <2>2. PICK r \in Held : r = vn[v] /\ r.dir /\ Described(r) /\ Settled(r, shown[v])
    BY <1>1, <2>1, Table DEF IInv, VnodeOK
  <2>3. PICK S \in Nat : S = Len(Stream[r.entry]) /\ S >= 1
    BY <2>2, IsDirectory, DirectoryFacts
  <2>4. CASE r.want = Unopened /\ shown[v] = <<>>
    <3>1. 0 \in 0..S /\ ~Past(r) BY <2>3, <2>4 DEF Unopened, AtEnd, Beyond, Past
    <3>. QED BY <2>2, <2>3, <2>4, <3>1, ListNone
  <2>5. CASE Past(r) /\ Lists(shown[v], r.entry, Len(Stream[r.entry]))
    <3>1. S \in 0..S OBVIOUS
    <3>. QED BY <2>2, <2>3, <2>5, <3>1
  <2>6. CASE r.want = 0 /\ \E i \in 0 .. S - 1 : Lists(shown[v], r.entry, i)
    <3>1. PICK i \in 0 .. S - 1 : Lists(shown[v], r.entry, i) BY <2>6
    <3>2. i \in 0..S /\ ~Past(r) BY <2>3, <2>6, <3>1 DEF AtEnd, Beyond, Past
    <3>. QED BY <2>2, <2>3, <3>1, <3>2
  <2>. QED BY <2>2, <2>3, <2>4, <2>5, <2>6 DEF Settled
<1>. QED BY Always, <1>1, PTL
=============================================================================
