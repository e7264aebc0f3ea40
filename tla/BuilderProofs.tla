--------------------------- MODULE BuilderProofs ---------------------------
(***************************************************************************)
(* Proofs about the layout Builder.Commit computes and the tables it       *)
(* writes, for every disk of at least 67 sectors, every list of sizes and  *)
(* any number of Commits, failed ones included.                            *)
(*                                                                         *)
(* The inductive invariant says that the partitions a Commit has walked    *)
(* over are laid out (Laid): consecutive from the first usable sector,     *)
(* whole sectors, inside the usable area.  A later Commit walks over the   *)
(* committed ones first and gives each of them what it already has.  The   *)
(* delicate case is a size of 0, which means "fill": a committed partition *)
(* can have that size only when it starts where the usable area ends, and  *)
(* then filling gives it 0 again.                                          *)
(*                                                                         *)
(* TableInv, further down, is about the disk: the entries of committed     *)
(* partitions are in both arrays from the first Commit on, since a later   *)
(* one writes the same bytes over them, and raw sections stay clear of     *)
(* both tables.  A Detach to the builder's own path empties the file: from *)
(* then on, until a Commit succeeds, KeptInv says nothing.                 *)
(***************************************************************************)
EXTENDS Builder, SequenceTheorems, FiniteSetTheorems, TLAPS

Part  == [start : Int, size : Int]
Limit == (lastUsable + 1) * SectorSize

Laid(ps, n) ==
    /\ \A m \in 1..n :
          /\ ps[m].size >= 0
          /\ ps[m].size % 512 = 0 /\ ps[m].start % 512 = 0
          /\ firstUsable * SectorSize <= ps[m].start
          /\ ps[m].start + ps[m].size <= Limit
          /\ ps[m].size = 0 => ps[m].start = Limit
          /\ m = 1 => ps[m].start = firstUsable * SectorSize
          /\ m > 1 => ps[m].start = ps[m - 1].start + ps[m - 1].size
    /\ \A l, m \in 1..n : l < m => ps[l].start + ps[l].size <= ps[m].start

Writing == {"mbr", "hdr1", "ents1", "ents2", "hdr2", "attach"}

LayoutInv ==
    /\ \A m \in 1..Len(parts) : parts[m].size >= 0
    /\ Laid(parts, laidOut)
    /\ pc = "extents" =>
          /\ Laid(parts, i - 1)
          /\ cursor <= lastUsable + 2
          /\ i = 1 => cursor = firstUsable
          /\ i > 1 => /\ cursor * SectorSize = end(parts[i - 1])
                      /\ cursor <= lastUsable + 1
    /\ pc \in Writing => Laid(parts, Len(parts))

Inv == TypeOK /\ LayoutInv

\* The tables.  A Commit that goes on has written what it has passed; what the
\* last successful one wrote stays, as a later one writes the same entries over
\* it, however far it gets.
behind(states) == pc \in states

WrittenInv ==
    /\ behind({"hdr1", "ents1", "ents2", "hdr2", "attach"}) => disk.mbr
    /\ behind({"ents1", "ents2", "hdr2", "attach"}) => disk.hdr1 /\ Len(parts) <= NumEntries
    /\ behind({"ents2", "hdr2", "attach"}) => disk.ents1 = newEntries
    /\ behind({"hdr2", "attach"}) => disk.ents2 = newEntries
    /\ pc = "attach" => disk.hdr2

KeptInv ==
    laidOut > 0 /\ ~erased =>
        /\ disk.mbr /\ disk.hdr1 /\ disk.hdr2
        /\ laidOut <= NumEntries
        /\ \A n \in 1..laidOut : /\ disk.ents1[n] = entryOf(parts[n])
                                 /\ disk.ents2[n] = entryOf(parts[n])

\* Raw sections lie between the two copies of the table.
RawsInv ==
    \A s \in raws : firstUsable * SectorSize <= s.base /\ s.base + s.size <= Limit

TableInv == WrittenInv /\ KeptInv /\ RawsInv

-----------------------------------------------------------------------------
(***************************************************************************)
(* Arithmetic.                                                             *)
(***************************************************************************)

\* The usable sectors: from 34 on, up to the copy of the table at the end.
LEMMA SectorArith ==
    ASSUME TypeOK
    PROVE  /\ SectorSize = 512
           /\ lastUsable \in Int /\ lastUsable >= 32
           /\ firstUsable = 34
           /\ Limit \in Int /\ Limit = (lastUsable + 1) * 512
BY BuilderAssumption DEF TypeOK, lastUsable, totalSectors, firstUsable, Limit

\* What one iteration of the layout loop computes.
LEMMA SectorsProperties ==
    ASSUME TypeOK, NEW p \in Part, p.size >= 0, NEW c \in Int, c <= lastUsable + 2
    PROVE  /\ sectorsOf(p, c) \in Nat
           /\ p.size = 0 => sectorsOf(p, c) = IF c = lastUsable + 2 THEN 0 ELSE lastUsable - c + 1
           /\ p.size > 0 => sectorsOf(p, c) >= 1
           /\ (p.size > 0 /\ p.size % 512 = 0) => sectorsOf(p, c) * 512 = p.size
<1> DEFINE L == lastUsable
<1>1. L \in Int /\ SectorSize = 512
  BY SectorArith
<1>2. p.size \in Int
  BY DEF Part
<1> HIDE DEF L
<1>3. CASE p.size = 0
  <2>1. sectorsOf(p, c) = goDiv((L - c + 1) * 512 + 511, 512)
    BY <1>1, <1>2, <1>3 DEF sectorsOf, requested, L
  <2>2. CASE c = L + 2
    <3>1. (L - c + 1) * 512 + 511 = -1
      BY <1>1, <2>2
    <3>2. goDiv(-1, 512) = 0
      BY DEF goDiv
    <3> QED
      BY <1>1, <1>3, <2>1, <2>2, <3>1, <3>2 DEF L
  <2>3. CASE c # L + 2
    <3>1. L - c + 1 \in Nat
      BY <1>1, <2>3 DEF L
    <3>2. \A n \in Nat : goDiv(n * 512 + 511, 512) = n
      BY DEF goDiv
    <3> QED
      BY <1>1, <1>3, <2>1, <2>3, <3>1, <3>2 DEF L
  <2> QED
    BY <2>2, <2>3
<1>4. CASE p.size # 0
  <2>1. sectorsOf(p, c) = goDiv(p.size + 511, 512)
    BY <1>1, <1>2, <1>4 DEF sectorsOf, requested
  <2> DEFINE z == p.size
  <2>3. z \in Nat /\ z > 0 /\ sectorsOf(p, c) = goDiv(z + 511, 512)
    BY <1>2, <1>4, <2>1
  <2> HIDE DEF z
  <2>4. /\ goDiv(z + 511, 512) \in Nat
        /\ goDiv(z + 511, 512) >= 1
        /\ z % 512 = 0 => goDiv(z + 511, 512) * 512 = z
    BY <2>3 DEF goDiv
  <2> QED
    BY <1>4, <2>3, <2>4 DEF z
<1> QED
  BY <1>3, <1>4

\* An iteration leaves a partition that is laid out already as it is, and does
\* not reject it.
LEMMA PlacedAgain ==
    ASSUME TypeOK, NEW p \in Part, p.size >= 0, p.size % 512 = 0,
           NEW c \in Int, p.start = c * 512,
           p.start + p.size <= Limit, p.size = 0 => p.start = Limit
    PROVE  /\ placed(p, c) = p
           /\ ~exceeds(p, c)
           /\ c <= lastUsable + 1
           /\ (c + sectorsOf(p, c)) * 512 = p.start + p.size
<1> DEFINE L == lastUsable
           n == sectorsOf(p, c)
<1>1. L \in Int /\ SectorSize = 512 /\ Limit = (L + 1) * 512
  BY SectorArith
<1>2. p.size \in Int /\ p.start \in Int /\ p = [start |-> p.start, size |-> p.size]
  BY DEF Part
<1>3. c <= L + 1
  BY <1>1, <1>2
<1>4. /\ n \in Nat
      /\ p.size = 0 => n = IF c = L + 2 THEN 0 ELSE L - c + 1
      /\ p.size > 0 => n * 512 = p.size
  BY <1>1, <1>3, SectorsProperties
<1> HIDE DEF L, n
<1>5. n * 512 = p.size
  BY <1>1, <1>2, <1>3, <1>4
<1>6. placed(p, c) = p
  BY <1>1, <1>2, <1>5 DEF placed, n
<1>7. ~(c + n - 1 > L)
  BY <1>1, <1>2, <1>4, <1>5
<1> QED
  BY <1>2, <1>3, <1>4, <1>5, <1>6, <1>7 DEF exceeds, n, L

\* An accepted partition is made of whole sectors, inside the usable area.
LEMMA PlacedFresh ==
    ASSUME TypeOK, NEW p \in Part, p.size >= 0, NEW c \in Int,
           firstUsable <= c, c <= lastUsable + 2
    PROVE  /\ placed(p, c) \in Part
           /\ placed(p, c).start = c * 512
           /\ placed(p, c).size >= 0
           /\ placed(p, c).size % 512 = 0
           /\ placed(p, c).size = sectorsOf(p, c) * 512
           /\ sectorsOf(p, c) \in Nat
           /\ ~exceeds(p, c) =>
                 /\ placed(p, c).start + placed(p, c).size <= Limit
                 /\ placed(p, c).size = 0 => placed(p, c).start = Limit
                 /\ c + sectorsOf(p, c) <= lastUsable + 1
<1> DEFINE L == lastUsable
           n == sectorsOf(p, c)
<1>1. L \in Int /\ SectorSize = 512 /\ Limit = (L + 1) * 512
  BY SectorArith
<1>2. /\ n \in Nat
      /\ p.size = 0 => n = IF c = L + 2 THEN 0 ELSE L - c + 1
      /\ p.size > 0 => n >= 1
  BY SectorsProperties
<1>3. p.size \in Int
  BY DEF Part
<1>4. placed(p, c) = [start |-> c * 512, size |-> n * 512]
  BY <1>1 DEF placed
<1>5. exceeds(p, c) <=> c + n - 1 > L
  BY DEF exceeds
<1> HIDE DEF L, n
<1>6. n * 512 \in Nat /\ (n * 512) % 512 = 0 /\ (n * 512 = 0 => n = 0)
  BY <1>2
<1>7. ~exceeds(p, c) => /\ c * 512 + n * 512 <= Limit
                        /\ n = 0 => c * 512 = Limit
                        /\ c + n <= L + 1
  BY <1>1, <1>2, <1>3, <1>5 DEF L
<1> QED
  BY <1>2, <1>4, <1>6, <1>7 DEF Part, n, L

-----------------------------------------------------------------------------
(***************************************************************************)
(* Type correctness and the layout invariant.                              *)
(***************************************************************************)
LEMMA PartsFacts ==
    ASSUME TypeOK, NEW m \in 1..Len(parts)
    PROVE  parts[m] \in Part /\ parts[m].start \in Int /\ parts[m].size \in Int
<1>1. parts[m] \in Part
  BY ElementOfSeq DEF TypeOK, Part
<1> QED
  BY <1>1 DEF Part

\* The layout loop at partition i, accepted or not.
LEMMA AssignStep ==
    ASSUME Inv, AssignExtent
    PROVE  /\ parts' = [parts EXCEPT ![i] = placed(parts[i], cursor)]
           /\ i \in 1..Len(parts)
           /\ placed(parts[i], cursor) \in Part
           /\ placed(parts[i], cursor).size >= 0
           /\ i <= laidOut => parts' = parts /\ ~exceeds(parts[i], cursor)
           /\ ~exceeds(parts[i], cursor) =>
                 /\ Laid(parts', i)
                 /\ cursor' * 512 = placed(parts[i], cursor).start + placed(parts[i], cursor).size
                 /\ cursor' <= lastUsable + 1
                 /\ cursor' \in Int
<1> DEFINE p == parts[i]
           q == placed(p, cursor)
           n == sectorsOf(p, cursor)
<1>1. TypeOK /\ LayoutInv
  BY DEF Inv
<1>2. /\ pc = "extents" /\ i \in 1..Len(parts) /\ parts \in Seq(Part)
      /\ parts' = [parts EXCEPT ![i] = q]
      /\ cursor \in Int /\ Len(parts) \in Nat
      /\ laidOut \in 0..Len(parts)
  BY <1>1 DEF AssignExtent, TypeOK, Part
<1>3. p \in Part /\ p.start \in Int /\ p.size \in Int /\ p.size >= 0
  BY <1>1, <1>2, PartsFacts DEF LayoutInv
<1>4. /\ SectorSize = 512 /\ lastUsable \in Int /\ lastUsable >= 32 /\ firstUsable = 34
      /\ Limit = (lastUsable + 1) * 512
  BY <1>1, SectorArith
<1>5. /\ Laid(parts, i - 1) /\ Laid(parts, laidOut)
      /\ cursor <= lastUsable + 2
      /\ i = 1 => cursor = 34
      /\ i > 1 => /\ cursor * 512 = parts[i - 1].start + parts[i - 1].size
                  /\ cursor <= lastUsable + 1
  BY <1>1, <1>2, <1>4 DEF LayoutInv, end
<1>6. /\ i > 1 => i - 1 \in 1..(i - 1) /\ i - 1 \in 1..Len(parts)
  BY <1>2
<1>7. i > 1 => /\ parts[i - 1].start \in Int /\ parts[i - 1].size \in Int
               /\ parts[i - 1].size >= 0 /\ 34 * 512 <= parts[i - 1].start
  BY <1>1, <1>4, <1>5, <1>6, PartsFacts DEF Laid
<1>8. cursor >= 34 /\ firstUsable <= cursor /\ cursor \in Int /\ cursor <= lastUsable + 2
  BY <1>2, <1>4, <1>5, <1>7
<1> HIDE DEF p
<1>9. /\ q \in Part /\ q.start = cursor * 512 /\ q.size >= 0 /\ q.size % 512 = 0
      /\ q.size = n * 512 /\ n \in Nat
      /\ ~exceeds(p, cursor) =>
            /\ q.start + q.size <= Limit
            /\ q.size = 0 => q.start = Limit
            /\ cursor + n <= lastUsable + 1
  BY <1>1, <1>3, <1>8, PlacedFresh DEF q, n
<1> HIDE DEF q, n
<1>10. i <= laidOut => parts' = parts /\ ~exceeds(p, cursor)
  <2> SUFFICES ASSUME i <= laidOut PROVE parts' = parts /\ ~exceeds(p, cursor)
    OBVIOUS
  <2>1. i \in 1..laidOut
    BY <1>2
  <2>2. /\ p.size % 512 = 0 /\ p.start + p.size <= Limit
        /\ p.size = 0 => p.start = Limit
        /\ i = 1 => p.start = 34 * 512
        /\ i > 1 => p.start = parts[i - 1].start + parts[i - 1].size
    BY <1>4, <1>5, <2>1 DEF Laid, p
  <2>3. p.start = cursor * 512
    BY <1>2, <1>5, <2>2
  <2>4. q = p /\ ~exceeds(p, cursor)
    BY <1>1, <1>2, <1>3, <2>2, <2>3, PlacedAgain DEF q, p
  <2>5. parts' = parts
    BY <1>2, <2>4 DEF p
  <2> QED
    BY <2>4, <2>5
<1>11. ASSUME ~exceeds(p, cursor)
       PROVE  /\ Laid(parts', i)
              /\ cursor' * 512 = q.start + q.size
              /\ cursor' <= lastUsable + 1
              /\ cursor' \in Int
  <2>1. cursor' = cursor + n
    BY <1>11 DEF AssignExtent, p, n
  <2>2. /\ parts'[i] = q
        /\ \A m \in 1..(i - 1) : parts'[m] = parts[m] /\ m \in 1..Len(parts) /\ m # i
    BY <1>2
  <2>3. \A m \in 1..(i - 1) : /\ parts[m].start \in Int /\ parts[m].size \in Int
                              /\ parts[m].size >= 0
    BY <1>1, <2>2, PartsFacts DEF LayoutInv
  <2>4. \A m \in 1..(i - 1) : parts[m].start + parts[m].size <= q.start
    <3> SUFFICES ASSUME NEW m \in 1..(i - 1)
                 PROVE  parts[m].start + parts[m].size <= cursor * 512
      BY <1>9
    <3>1. i > 1 /\ cursor * 512 = parts[i - 1].start + parts[i - 1].size
      BY <1>2, <1>5
    <3>2. CASE m = i - 1
      BY <1>7, <3>1, <3>2
    <3>3. CASE m # i - 1
      <4>1. m < i - 1 /\ i - 1 \in 1..(i - 1)
        BY <1>2, <3>3
      <4>2. parts[m].start + parts[m].size <= parts[i - 1].start
        BY <1>5, <4>1 DEF Laid
      <4> QED
        BY <1>7, <2>3, <3>1, <4>1, <4>2
    <3> QED
      BY <3>2, <3>3
  <2>5. ASSUME NEW m \in 1..i
        PROVE  /\ parts'[m].size >= 0
               /\ parts'[m].size % 512 = 0 /\ parts'[m].start % 512 = 0
               /\ firstUsable * SectorSize <= parts'[m].start
               /\ parts'[m].start + parts'[m].size <= Limit
               /\ parts'[m].size = 0 => parts'[m].start = Limit
               /\ m = 1 => parts'[m].start = firstUsable * SectorSize
               /\ m > 1 => parts'[m].start = parts'[m - 1].start + parts'[m - 1].size
    <3>1. CASE m = i
      <4>1. parts'[m] = q /\ (m > 1 => parts'[m - 1] = parts[i - 1])
        BY <1>2, <1>6, <2>2, <3>1
      <4>2. 34 * 512 <= q.start /\ q.start % 512 = 0
        BY <1>2, <1>8, <1>9
      <4> QED
        BY <1>4, <1>5, <1>9, <1>11, <3>1, <4>1, <4>2
    <3>2. CASE m # i
      <4>1. m \in 1..(i - 1) /\ (m > 1 => m - 1 \in 1..(i - 1))
        BY <1>2, <3>2
      <4>2. parts'[m] = parts[m] /\ (m > 1 => parts'[m - 1] = parts[m - 1])
        BY <2>2, <4>1
      <4> QED
        BY <1>5, <4>1, <4>2 DEF Laid
    <3> QED
      BY <3>1, <3>2
  <2>6. ASSUME NEW l \in 1..i, NEW m \in 1..i, l < m
        PROVE  parts'[l].start + parts'[l].size <= parts'[m].start
    <3>1. l \in 1..(i - 1) /\ parts'[l] = parts[l]
      BY <1>2, <2>2, <2>6
    <3>2. CASE m = i
      BY <2>2, <2>4, <3>1, <3>2
    <3>3. CASE m # i
      <4>1. m \in 1..(i - 1) /\ parts'[m] = parts[m]
        BY <1>2, <2>2, <3>3
      <4> QED
        BY <1>5, <2>6, <3>1, <4>1 DEF Laid
    <3> QED
      BY <3>2, <3>3
  <2>7. Limit' = Limit
    BY DEF AssignExtent, Limit, lastUsable, totalSectors
  <2>8. Laid(parts', i)
    BY <2>5, <2>6 DEF Laid
  <2> QED
    BY <1>2, <1>9, <1>11, <2>1, <2>8
<1> QED
  BY <1>2, <1>9, <1>10, <1>11 DEF p, q

\* The entry array Commit builds is well typed, and so is one whose write was cut short.
LEMMA NewEntriesType ==
    ASSUME TypeOK
    PROVE  /\ newEntries \in [1..NumEntries -> Entry]
           /\ \A old \in [1..NumEntries -> Entry], n \in Int :
                 torn(old, n) \in [1..NumEntries -> Entry]
<1>1. ASSUME NEW e \in 1..NumEntries, e <= Len(parts) PROVE entryOf(parts[e]) \in Entry
  <2>1. e \in 1..Len(parts)
    BY <1>1, BuilderAssumption DEF TypeOK
  <2>2. parts[e].start \in Int /\ parts[e].size \in Int
    BY <2>1, PartsFacts
  <2> QED
    BY <2>2, BuilderAssumption DEF entryOf, Entry
<1>2. UnusedEntry \in Entry
  BY DEF UnusedEntry, Entry
<1>3. newEntries \in [1..NumEntries -> Entry]
  BY <1>1, <1>2 DEF newEntries
<1> QED
  BY <1>3 DEF torn

\* A file without tables is a disk.
LEMMA BlankDiskType ==
    BlankDisk \in [mbr : BOOLEAN, hdr1 : BOOLEAN, ents1 : [1..NumEntries -> Entry],
                   hdr2 : BOOLEAN, ents2 : [1..NumEntries -> Entry]]
BY DEF BlankDisk, NoEntries, UnusedEntry, Entry

\* A new Builder satisfies the invariant.
LEMMA TypeInitially ==
    Init => Inv
<1> SUFFICES ASSUME Init PROVE Inv
  OBVIOUS
<1>1. BlankDisk \in [mbr : BOOLEAN, hdr1 : BOOLEAN, ents1 : [1..NumEntries -> Entry],
                     hdr2 : BOOLEAN, ents2 : [1..NumEntries -> Entry]]
  BY BlankDiskType
<1>3. fileOpen \in BOOLEAN /\ erased \in BOOLEAN
  BY DEF Init
<1>4. /\ diskSize \in DiskSizes /\ parts = <<>> /\ pc = "idle" /\ i = 1 /\ cursor = 0
      /\ disk = BlankDisk /\ raws = {} /\ laidOut = 0
  BY DEF Init
<1>2. TypeOK
  BY <1>1, <1>3, <1>4, EmptySeq DEF TypeOK
<1> QED
  BY <1>2 DEF Inv, LayoutInv, Laid, Init, Writing

\* The steps of Commit that write to the file leave the layout alone.
Writes == \/ WriteMBR \/ WritePrimaryHeader \/ WritePrimaryEntries
          \/ WriteSecondaryEntries \/ WriteSecondaryHeader

\* writeAt of the MBR, a header or an entry array changes the disk and the position in
\* Commit, and nothing of the layout.
LEMMA WritesStep ==
    ASSUME Inv, Writes
    PROVE  /\ UNCHANGED <<diskSize, parts, i, cursor, fileOpen, raws, laidOut, erased>>
           /\ pc \in Writing /\ pc' \in Writing \cup {"idle"}
           /\ disk' \in [mbr : BOOLEAN, hdr1 : BOOLEAN, ents1 : [1..NumEntries -> Entry],
                         hdr2 : BOOLEAN, ents2 : [1..NumEntries -> Entry]]
<1>1. TypeOK
  BY DEF Inv
<1>2. /\ disk \in [mbr : BOOLEAN, hdr1 : BOOLEAN, ents1 : [1..NumEntries -> Entry],
                   hdr2 : BOOLEAN, ents2 : [1..NumEntries -> Entry]]
  BY <1>1 DEF TypeOK
<1>3. /\ newEntries \in [1..NumEntries -> Entry]
      /\ \A n \in 0..NumEntries : /\ torn(disk.ents1, n) \in [1..NumEntries -> Entry]
                                  /\ torn(disk.ents2, n) \in [1..NumEntries -> Entry]
  BY <1>1, <1>2, NewEntriesType
<1>4. CASE WriteMBR
  BY <1>2, <1>4 DEF WriteMBR, Writing
<1>5. CASE WritePrimaryHeader
  BY <1>2, <1>5 DEF WritePrimaryHeader, Writing
<1>6. CASE WritePrimaryEntries
  BY <1>2, <1>3, <1>6 DEF WritePrimaryEntries, Writing
<1>7. CASE WriteSecondaryEntries
  BY <1>2, <1>3, <1>7 DEF WriteSecondaryEntries, Writing
<1>8. CASE WriteSecondaryHeader
  BY <1>2, <1>8 DEF WriteSecondaryHeader, Writing
<1> QED
  BY <1>4, <1>5, <1>6, <1>7, <1>8 DEF Writes

\* A raw write replaces table sectors at most by other table contents.
LEMMA RawWriteType ==
    ASSUME TypeOK, NEW s \in raws, NEW pos \in Sizes, NEW len \in Sizes,
           RawWrite(s, pos, len)
    PROVE  disk' \in [mbr : BOOLEAN, hdr1 : BOOLEAN, ents1 : [1..NumEntries -> Entry],
                      hdr2 : BOOLEAN, ents2 : [1..NumEntries -> Entry]]
<1>1. [e \in 1..NumEntries |-> Overwritten] \in [1..NumEntries -> Entry]
  BY DEF Overwritten, Entry
<1>2. disk \in [mbr : BOOLEAN, hdr1 : BOOLEAN, ents1 : [1..NumEntries -> Entry],
                hdr2 : BOOLEAN, ents2 : [1..NumEntries -> Entry]]
  BY DEF TypeOK
<1> QED
  BY <1>1, <1>2 DEF RawWrite

\* Laid looks only at the first n partitions: AddPartition, which appends, keeps it.
LEMMA LaidSame ==
    ASSUME NEW ps, NEW qs, NEW n \in Int, Laid(ps, n), \A m \in 1..n : qs[m] = ps[m]
    PROVE  Laid(qs, n)
<1>1. \A m \in 1..n : m > 1 => m - 1 \in 1..n
  OBVIOUS
<1>2. \A m \in 1..n : m > 1 => qs[m - 1] = ps[m - 1]
  BY <1>1
<1> QED
  BY <1>2 DEF Laid

\* What a step does to the layout, for the steps that are not part of the loop.
LEMMA InvStep ==
    ASSUME Inv, [Next]_vars
    PROVE  /\ Inv'
           /\ laidOut <= laidOut'
           /\ \A n \in 1..laidOut : parts'[n] = parts[n]
<1> USE BuilderAssumption
<1>1. TypeOK /\ LayoutInv
  BY DEF Inv
<1>2. parts \in Seq(Part) /\ Len(parts) \in Nat /\ laidOut \in 0..Len(parts)
  BY <1>1 DEF TypeOK, Part
<1>3. CASE \E size \in Sizes : AddPartition(size)
  <2>1. PICK size \in Sizes : AddPartition(size)
    BY <1>3
  <2> DEFINE r == [start |-> 0, size |-> size]
  <2>2. r \in Part /\ r.size >= 0
    BY DEF Part
  <2>3. /\ parts' \in Seq(Part) /\ Len(parts') = Len(parts) + 1
        /\ \A m \in 1..Len(parts) : parts'[m] = parts[m]
        /\ parts'[Len(parts) + 1] = r
    BY <1>2, <2>1, <2>2, AppendProperties DEF AddPartition
  <2>4. /\ UNCHANGED <<diskSize, pc, i, cursor, disk, fileOpen, raws, laidOut, erased>>
        /\ pc = "idle" /\ Limit' = Limit
    BY <2>1 DEF AddPartition, Limit, lastUsable, totalSectors
  <2> HIDE DEF r
  <2>5. TypeOK'
    BY <1>1, <1>2, <2>3, <2>4 DEF TypeOK, Part
  <2>6. \A m \in 1..Len(parts') : parts'[m].size >= 0
    BY <1>1, <1>2, <2>2, <2>3 DEF LayoutInv
  <2>7. \A m \in 1..laidOut : parts'[m] = parts[m]
    BY <1>2, <2>3
  <2>8. Laid(parts, laidOut)'
    <3>1. Laid(parts, laidOut)
      BY <1>1 DEF LayoutInv
    <3>2. Laid(parts', laidOut)
      BY <1>2, <2>7, <3>1, LaidSame
    <3> QED
      BY <2>4, <3>2 DEF Laid, firstUsable
  <2>9. LayoutInv'
    BY <2>4, <2>6, <2>8 DEF LayoutInv, Writing
  <2> QED
    BY <1>2, <2>4, <2>5, <2>7, <2>9 DEF Inv
<1>4. CASE AssignExtent
  <2> DEFINE q == placed(parts[i], cursor)
  <2>1. /\ parts' = [parts EXCEPT ![i] = q]
        /\ i \in 1..Len(parts) /\ q \in Part /\ q.size >= 0
        /\ i <= laidOut => parts' = parts /\ ~exceeds(parts[i], cursor)
        /\ ~exceeds(parts[i], cursor) =>
              /\ Laid(parts', i)
              /\ cursor' * 512 = q.start + q.size
              /\ cursor' <= lastUsable + 1
              /\ cursor' \in Int
    BY <1>4, AssignStep
  <2>2. /\ UNCHANGED <<diskSize, disk, fileOpen, raws, laidOut, erased>>
        /\ pc = "extents" /\ pc' \in {"idle", "extents"}
        /\ pc' = "extents" => i' = i + 1 /\ ~exceeds(parts[i], cursor)
        /\ pc' = "idle" => i' = i /\ cursor' = cursor
        /\ Limit' = Limit /\ lastUsable' = lastUsable
    BY <1>4 DEF AssignExtent, Limit, lastUsable, totalSectors
  <2> HIDE DEF q
  <2>3. /\ parts' \in Seq(Part) /\ Len(parts') = Len(parts)
        /\ parts'[i] = q
        /\ \A m \in 1..Len(parts) : m # i => parts'[m] = parts[m]
    BY <1>2, <2>1, ExceptSeq
  <2>4. \A n \in 1..laidOut : parts'[n] = parts[n]
    BY <1>2, <2>1, <2>3
  <2>5. TypeOK'
    <3>1. i' \in 1..(Len(parts') + 1) /\ cursor' \in Int
      <4>1. cursor \in Int /\ i' \in {i, i + 1} /\ Len(parts') = Len(parts)
        BY <1>1, <2>2, <2>3 DEF TypeOK
      <4>2. cursor' \in Int
        BY <2>1, <2>2, <4>1
      <4> QED
        BY <1>2, <2>1, <4>1, <4>2
    <3>2. laidOut' \in 0..Len(parts') /\ parts' \in Seq([start : Int, size : Int])
      BY <1>2, <2>2, <2>3 DEF Part
    <3> QED
      BY <1>1, <2>2, <3>1, <3>2 DEF TypeOK
  <2>6. \A m \in 1..Len(parts') : parts'[m].size >= 0
    BY <1>1, <1>2, <2>1, <2>3 DEF LayoutInv
  <2>7. Laid(parts, laidOut)'
    <3>1. Laid(parts, laidOut)
      BY <1>1 DEF LayoutInv
    <3>2. Laid(parts', laidOut)
      BY <1>2, <2>4, <3>1, LaidSame
    <3> QED
      BY <2>2, <3>2 DEF Laid, firstUsable
  <2>8. pc' = "extents" =>
          /\ Laid(parts, i - 1)'
          /\ (cursor <= lastUsable + 2)'
          /\ i' > 1 /\ i' - 1 = i
          /\ cursor' * SectorSize = end(parts[i - 1])'
          /\ (cursor <= lastUsable + 1)'
    <3>1. Laid(parts', i) => Laid(parts, i)'  \/ i' # i
      BY <2>2 DEF Laid, firstUsable
    <3> SUFFICES ASSUME pc' = "extents"
                 PROVE  /\ Laid(parts, i - 1)'
                        /\ (cursor <= lastUsable + 2)'
                        /\ i' > 1 /\ i' - 1 = i
                        /\ cursor' * SectorSize = end(parts[i - 1])'
                        /\ (cursor <= lastUsable + 1)'
      OBVIOUS
    <3>2. i' - 1 = i /\ i' > 1
      BY <1>2, <2>1, <2>2
    <3>3. Laid(parts, i - 1)'
      BY <2>1, <2>2, <3>2 DEF Laid, firstUsable
    <3>4. lastUsable \in Int
      BY <1>1, SectorArith
    <3> QED
      BY <2>1, <2>2, <2>3, <3>2, <3>3, <3>4 DEF end
  <2>9. LayoutInv'
    BY <1>2, <2>1, <2>2, <2>6, <2>7, <2>8 DEF LayoutInv, Writing
  <2> QED
    BY <1>2, <2>2, <2>4, <2>5, <2>9 DEF Inv
<1>5. CASE BeginCommit
  <2>1. /\ UNCHANGED <<diskSize, parts, disk, fileOpen, raws, laidOut, erased>>
        /\ pc' = "extents" /\ i' = 1 /\ cursor' = firstUsable
        /\ Limit' = Limit /\ lastUsable' = lastUsable
    BY <1>5 DEF BeginCommit, Limit, lastUsable, totalSectors
  <2>2. TypeOK'
    BY <1>1, <1>2, <2>1 DEF TypeOK, firstUsable
  <2>3. cursor' <= lastUsable + 2 /\ lastUsable \in Int
    BY <1>1, <2>1, SectorArith
  <2>4. Laid(parts, laidOut)' /\ Laid(parts, i - 1)'
    BY <1>1, <2>1 DEF LayoutInv, Laid, firstUsable
  <2>5. LayoutInv'
    BY <1>1, <2>1, <2>3, <2>4 DEF LayoutInv, Writing, firstUsable
  <2> QED
    BY <1>2, <2>1, <2>2, <2>5 DEF Inv
<1>6. CASE ExtentsAssigned
  <2>1. /\ UNCHANGED <<diskSize, parts, i, cursor, disk, fileOpen, raws, laidOut, erased>>
        /\ pc = "extents" /\ pc' = "mbr" /\ i > Len(parts)
        /\ Limit' = Limit /\ lastUsable' = lastUsable
    BY <1>6 DEF ExtentsAssigned, Limit, lastUsable, totalSectors
  <2>2. TypeOK'
    BY <1>1, <2>1 DEF TypeOK
  <2>3. i - 1 = Len(parts)
    <3>1. i \in 1..(Len(parts) + 1) /\ Len(parts) \in Nat
      BY <1>1, <1>2 DEF TypeOK
    <3> QED
      BY <2>1, <3>1
  <2>4. Laid(parts, laidOut)' /\ Laid(parts, Len(parts))'
    BY <1>1, <2>1, <2>3 DEF LayoutInv, Laid, firstUsable
  <2>5. LayoutInv'
    BY <1>1, <2>1, <2>4 DEF LayoutInv, Writing
  <2> QED
    BY <1>2, <2>1, <2>2, <2>5 DEF Inv
<1>7. CASE Writes \/ BuildEntriesPanics \/ Die
            \/ (\E out \in OutPaths : Detach(out))
            \/ (\E n \in 1..MaxParts : OpenRaw(n))
            \/ (\E s \in raws, pos, len \in Sizes : RawWrite(s, pos, len))
  <2>1. /\ UNCHANGED <<diskSize, parts, i, cursor, laidOut>>
        /\ pc' \in Writing => pc \in Writing
        /\ pc' # "extents" \/ pc = "extents"
        /\ pc' \in {"idle", "extents", "mbr", "hdr1", "ents1", "ents2", "hdr2",
                     "attach", "panicked", "dead"}
    <3>1. CASE Writes
      BY <3>1, WritesStep DEF Writing
    <3>2. CASE BuildEntriesPanics \/ Die \/ (\E out \in OutPaths : Detach(out))
      BY <1>1, <3>2 DEF BuildEntriesPanics, Die, Detach, Writing, TypeOK
    <3>3. CASE \E n \in 1..MaxParts : OpenRaw(n)
      BY <1>1, <3>3 DEF OpenRaw, TypeOK
    <3>4. CASE \E s \in raws, pos, len \in Sizes : RawWrite(s, pos, len)
      BY <1>1, <3>4 DEF RawWrite, TypeOK
    <3> QED
      BY <1>7, <3>1, <3>2, <3>3, <3>4
  <2>2. disk' \in [mbr : BOOLEAN, hdr1 : BOOLEAN, ents1 : [1..NumEntries -> Entry],
                   hdr2 : BOOLEAN, ents2 : [1..NumEntries -> Entry]]
    <3>1. CASE Writes
      BY <3>1, WritesStep
    <3>2. CASE BuildEntriesPanics \/ Die \/ (\E n \in 1..MaxParts : OpenRaw(n))
      BY <1>1, <3>2 DEF BuildEntriesPanics, Die, OpenRaw, TypeOK
    <3>4. CASE \E out \in OutPaths : Detach(out)
      BY <1>1, <3>4, BlankDiskType DEF Detach, TypeOK
    <3>3. CASE \E s \in raws, pos, len \in Sizes : RawWrite(s, pos, len)
      BY <1>1, <3>3, RawWriteType
    <3> QED
      BY <1>7, <3>1, <3>2, <3>3, <3>4
  <2>3. fileOpen' \in BOOLEAN /\ erased' \in BOOLEAN /\ raws' \subseteq [idx : Nat, base : Int, size : Int]
    <3>1. CASE Writes
      BY <1>1, <3>1, WritesStep DEF TypeOK
    <3>2. CASE BuildEntriesPanics \/ Die
      BY <1>1, <3>2 DEF BuildEntriesPanics, Die, TypeOK
    <3>3. CASE \E out \in OutPaths : Detach(out)
      BY <1>1, <3>3 DEF Detach, TypeOK
    <3>4. CASE \E n \in 1..MaxParts : OpenRaw(n)
      <4>1. PICK n \in 1..MaxParts : OpenRaw(n)
        BY <3>4
      <4>2. n \in 1..Len(parts) /\ n \in Nat
        BY <4>1 DEF OpenRaw
      <4>3. parts[n].start \in Int /\ parts[n].size \in Int
        BY <1>1, <4>2, PartsFacts
      <4> QED
        BY <1>1, <4>1, <4>2, <4>3 DEF OpenRaw, TypeOK
    <3>5. CASE \E s \in raws, pos, len \in Sizes : RawWrite(s, pos, len)
      BY <1>1, <3>5 DEF RawWrite, TypeOK
    <3> QED
      BY <1>7, <3>1, <3>2, <3>3, <3>4, <3>5
  <2>4. TypeOK'
    BY <1>1, <2>1, <2>2, <2>3 DEF TypeOK
  <2>5. LayoutInv'
    BY <1>1, <2>1 DEF LayoutInv, Laid, end, Limit, lastUsable, totalSectors, firstUsable
  <2> QED
    BY <1>2, <2>1, <2>4, <2>5 DEF Inv
<1>8. CASE ReAttach
  <2>1. /\ UNCHANGED <<diskSize, parts, i, cursor, disk, fileOpen, raws>>
        /\ pc = "attach" /\ pc' = "idle"
        /\ laidOut' \in {laidOut, Len(parts)}
        /\ Limit' = Limit
    BY <1>8 DEF ReAttach, Limit, lastUsable, totalSectors
  <2>5. erased' \in BOOLEAN
    BY <1>1, <1>8, Zenon DEF ReAttach, TypeOK
  <2>2. TypeOK'
    BY <1>1, <1>2, <2>1, <2>5 DEF TypeOK
  <2>3. Laid(parts, laidOut)'
    BY <1>1, <2>1 DEF LayoutInv, Laid, Writing, firstUsable
  <2>4. LayoutInv'
    BY <1>1, <2>1, <2>3 DEF LayoutInv, Writing
  <2> QED
    BY <1>2, <2>1, <2>2, <2>4 DEF Inv
<1>9. CASE Ended \/ UNCHANGED vars
  <2>1. UNCHANGED vars
    BY <1>9 DEF Ended
  <2>2. TypeOK'
    BY <1>1, <2>1 DEF TypeOK, vars
  <2>3. LayoutInv'
    BY <1>1, <2>1 DEF vars, LayoutInv, Laid, end, Limit, lastUsable, totalSectors, firstUsable
  <2> QED
    BY <1>2, <2>1, <2>2, <2>3 DEF Inv, vars
<1> QED
  BY <1>3, <1>4, <1>5, <1>6, <1>7, <1>8, <1>9 DEF Next, Commit, Writes

-----------------------------------------------------------------------------
(***************************************************************************)
(* The tables on the file.                                                 *)
(***************************************************************************)

\* buildEntries gives a partition the slot of its number; an array that was
\* written only in part holds a committed partition's entry in any case.
LEMMA EntriesKept ==
    ASSUME TypeOK, NEW n \in 1..Len(parts), n <= NumEntries
    PROVE  /\ newEntries[n] = entryOf(parts[n])
           /\ \A old, k : old[n] = entryOf(parts[n]) => torn(old, k)[n] = entryOf(parts[n])
<1>1. n \in 1..NumEntries /\ n <= Len(parts)
  BY BuilderAssumption DEF TypeOK
<1>2. newEntries[n] = entryOf(parts[n])
  BY <1>1 DEF newEntries
<1> QED
  BY <1>1, <1>2 DEF torn

\* A write through a raw section reaches no table.
LEMMA RawWriteMisses ==
    ASSUME Inv, RawsInv, NEW s \in raws, NEW pos \in Sizes, NEW len \in Sizes,
           RawWrite(s, pos, len)
    PROVE  disk' = disk
<1> DEFINE T  == totalSectors
           lo == s.base + pos
           hi == s.base + pos + len
<1>1. /\ SectorSize = 512 /\ T \in Int /\ Limit = (T - 34) * 512 /\ firstUsable = 34
  BY SectorArith, BuilderAssumption DEF Inv, TypeOK, Limit, lastUsable, totalSectors
<1>2. s.base \in Int /\ s.size \in Int /\ pos \in Nat /\ len \in Nat
  BY BuilderAssumption DEF Inv, TypeOK
<1>3. 34 * 512 <= s.base /\ s.base + s.size <= (T - 34) * 512 /\ pos + len <= s.size
  BY <1>1 DEF RawsInv, RawWrite, rawFits
<1>4. lo \in Int /\ hi \in Int /\ lo >= 34 * 512 /\ hi <= (T - 34) * 512
  BY <1>1, <1>2, <1>3
<1>5. /\ disk' = [mbr   |-> disk.mbr  /\ ~(len > 0 /\ overlaps(lo, hi, 0, 1)),
                  hdr1  |-> disk.hdr1 /\ ~(len > 0 /\ overlaps(lo, hi, 1, 1)),
                  ents1 |-> IF len > 0 /\ overlaps(lo, hi, 2, 32)
                            THEN [e \in 1..NumEntries |-> Overwritten] ELSE disk.ents1,
                  ents2 |-> IF len > 0 /\ overlaps(lo, hi, T - 33, 32)
                            THEN [e \in 1..NumEntries |-> Overwritten] ELSE disk.ents2,
                  hdr2  |-> disk.hdr2 /\ ~(len > 0 /\ overlaps(lo, hi, T - 1, 1))]
  BY DEF RawWrite
<1> HIDE DEF T, lo, hi
<1>6. /\ ~overlaps(lo, hi, 0, 1) /\ ~overlaps(lo, hi, 1, 1) /\ ~overlaps(lo, hi, 2, 32)
      /\ ~overlaps(lo, hi, T - 33, 32) /\ ~overlaps(lo, hi, T - 1, 1)
  BY <1>1, <1>4 DEF overlaps
<1>7. disk \in [mbr : BOOLEAN, hdr1 : BOOLEAN, ents1 : [1..NumEntries -> Entry],
                hdr2 : BOOLEAN, ents2 : [1..NumEntries -> Entry]]
  BY DEF Inv, TypeOK
<1>8. disk = [mbr |-> disk.mbr, hdr1 |-> disk.hdr1, ents1 |-> disk.ents1,
              ents2 |-> disk.ents2, hdr2 |-> disk.hdr2]
  BY <1>7
<1>9. disk' = [mbr |-> disk.mbr, hdr1 |-> disk.hdr1, ents1 |-> disk.ents1,
               ents2 |-> disk.ents2, hdr2 |-> disk.hdr2]
  BY <1>5, <1>6, <1>7
<1> QED
  BY <1>8, <1>9

\* A section of a committed partition lies where the partition does.
LEMMA OpenRawInside ==
    ASSUME Inv, RawsInv, ~OpensUncommitted, NEW n, OpenRaw(n)
    PROVE  RawsInv'
<1>1. n \in 1..laidOut
  BY DEF OpenRaw, Inv, TypeOK
<1>2. firstUsable * SectorSize <= parts[n].start /\ parts[n].start + parts[n].size <= Limit
  BY <1>1 DEF Inv, LayoutInv, Laid
<1>3. /\ raws' = raws \cup {[idx |-> n, base |-> parts[n].start, size |-> parts[n].size]}
      /\ Limit' = Limit
  BY DEF OpenRaw, Limit, lastUsable, totalSectors
<1> QED
  BY <1>2, <1>3 DEF RawsInv, firstUsable

\* Steps that write no table and commit nothing keep what is written.
LEMMA TableSame ==
    ASSUME KeptInv, UNCHANGED <<disk, laidOut, erased>>, \A n \in 1..laidOut : parts'[n] = parts[n]
    PROVE  KeptInv'
BY DEF KeptInv, entryOf

\* A step that opens no raw section leaves all of them inside the usable area.
LEMMA RawsSame ==
    ASSUME RawsInv, UNCHANGED <<raws, diskSize>>
    PROVE  RawsInv'
<1>1. Limit' = Limit
  BY DEF Limit, lastUsable, totalSectors
<1> QED
  BY <1>1 DEF RawsInv, firstUsable

\* The writes of a Commit, each of them done, failed or torn.
LEMMA TableWrites ==
    ASSUME Inv, TableInv, Writes
    PROVE  WrittenInv' /\ KeptInv'
<1>1. UNCHANGED <<parts, laidOut, erased>> /\ newEntries' = newEntries
  BY WritesStep DEF newEntries, entryOf
<1>2. disk \in [mbr : BOOLEAN, hdr1 : BOOLEAN, ents1 : [1..NumEntries -> Entry],
                hdr2 : BOOLEAN, ents2 : [1..NumEntries -> Entry]]
  BY DEF Inv, TypeOK
<1>3. laidOut \in Nat /\ laidOut <= Len(parts) /\ Len(parts) \in Nat
  BY DEF Inv, TypeOK
<1>4. ASSUME KeptInv, laidOut > 0, ~erased, NEW n \in 1..laidOut
      PROVE  /\ newEntries[n] = entryOf(parts[n])
             /\ \A k : torn(disk.ents1, k)[n] = entryOf(parts[n])
             /\ \A k : torn(disk.ents2, k)[n] = entryOf(parts[n])
  <2>1. n \in 1..Len(parts) /\ n <= NumEntries
    BY <1>3, <1>4, BuilderAssumption DEF KeptInv
  <2>2. disk.ents1[n] = entryOf(parts[n]) /\ disk.ents2[n] = entryOf(parts[n])
    BY <1>4 DEF KeptInv
  <2> QED
    BY <2>1, <2>2, EntriesKept DEF Inv
<1>5. CASE WriteMBR
  <2>1. /\ pc = "mbr"
        /\ \/ disk' = [disk EXCEPT !.mbr = TRUE] /\ pc' \in {"hdr1", "idle"}
           \/ disk' = disk /\ pc' = "idle"
    BY <1>5 DEF WriteMBR
  <2> QED
    BY <1>1, <1>2, <2>1 DEF TableInv, WrittenInv, KeptInv, behind
<1>6. CASE WritePrimaryHeader
  <2>1. /\ pc = "hdr1" /\ Len(parts) <= NumEntries
        /\ \/ disk' = [disk EXCEPT !.hdr1 = TRUE] /\ pc' \in {"ents1", "idle"}
           \/ disk' = disk /\ pc' = "idle"
    BY <1>6 DEF WritePrimaryHeader
  <2> QED
    BY <1>1, <1>2, <2>1 DEF TableInv, WrittenInv, KeptInv, behind
<1>7. CASE WritePrimaryEntries
  <2>1. PICK ents : /\ disk' = [disk EXCEPT !.ents1 = ents]
                    /\ \/ ents = newEntries /\ pc' = "ents2"
                       \/ pc' = "idle" /\ \E k \in 0..NumEntries : ents = torn(disk.ents1, k)
    BY <1>7 DEF WritePrimaryEntries
  <2>2. /\ disk'.ents1 = ents /\ disk'.mbr = disk.mbr /\ disk'.hdr1 = disk.hdr1
        /\ disk'.hdr2 = disk.hdr2 /\ disk'.ents2 = disk.ents2
    BY <1>2, <2>1
  <2>3. KeptInv'
    BY <1>1, <1>4, <2>1, <2>2 DEF TableInv, KeptInv
  <2>4. pc = "ents1"
    BY <1>7 DEF WritePrimaryEntries
  <2>5. WrittenInv'
    BY <1>1, <2>1, <2>2, <2>4 DEF TableInv, WrittenInv, behind
  <2> QED
    BY <2>3, <2>5
<1>8. CASE WriteSecondaryEntries
  <2>1. PICK ents : /\ disk' = [disk EXCEPT !.ents2 = ents]
                    /\ \/ ents = newEntries /\ pc' = "hdr2"
                       \/ pc' = "idle" /\ \E k \in 0..NumEntries : ents = torn(disk.ents2, k)
    BY <1>8 DEF WriteSecondaryEntries
  <2>2. /\ disk'.ents2 = ents /\ disk'.mbr = disk.mbr /\ disk'.hdr1 = disk.hdr1
        /\ disk'.hdr2 = disk.hdr2 /\ disk'.ents1 = disk.ents1
    BY <1>2, <2>1
  <2>3. KeptInv'
    BY <1>1, <1>4, <2>1, <2>2 DEF TableInv, KeptInv
  <2>4. pc = "ents2"
    BY <1>8 DEF WriteSecondaryEntries
  <2>5. WrittenInv'
    BY <1>1, <2>1, <2>2, <2>4 DEF TableInv, WrittenInv, behind
  <2> QED
    BY <2>3, <2>5
<1>9. CASE WriteSecondaryHeader
  <2>1. /\ pc = "hdr2"
        /\ \/ disk' = [disk EXCEPT !.hdr2 = TRUE] /\ pc' \in {"attach", "idle"}
           \/ disk' = disk /\ pc' = "idle"
    BY <1>9 DEF WriteSecondaryHeader
  <2> QED
    BY <1>1, <1>2, <2>1 DEF TableInv, WrittenInv, KeptInv, behind
<1> QED
  BY <1>5, <1>6, <1>7, <1>8, <1>9 DEF Writes

\* Every step keeps the tables.
LEMMA TableStep ==
    ASSUME ~OpensUncommitted, Inv, TableInv, [Next]_vars
    PROVE  TableInv'
<1>0. /\ WrittenInv /\ KeptInv /\ RawsInv
      /\ \A n \in 1..laidOut : parts'[n] = parts[n]
  BY InvStep DEF TableInv
<1>1. CASE \E size \in Sizes : AddPartition(size)
  <2>1. pc' = "idle" /\ UNCHANGED <<disk, laidOut, erased, raws, diskSize>>
    BY <1>1 DEF AddPartition
  <2> QED
    BY <1>0, <2>1, TableSame, RawsSame DEF TableInv, WrittenInv, behind
<1>2. CASE BeginCommit \/ AssignExtent \/ ExtentsAssigned
  <2>1. pc' \in {"idle", "extents", "mbr"} /\ UNCHANGED <<disk, laidOut, erased, raws, diskSize>>
    BY <1>2 DEF BeginCommit, AssignExtent, ExtentsAssigned
  <2> QED
    BY <1>0, <2>1, TableSame, RawsSame DEF TableInv, WrittenInv, behind
<1>3. CASE BuildEntriesPanics \/ Die
  <2>1. pc' \in {"panicked", "dead"} /\ UNCHANGED <<disk, laidOut, erased, raws, diskSize>>
    BY <1>3 DEF BuildEntriesPanics, Die
  <2> QED
    BY <1>0, <2>1, TableSame, RawsSame DEF TableInv, WrittenInv, behind
<1>9. CASE \E out \in OutPaths : Detach(out)
  <2>1. /\ pc' = "idle" /\ UNCHANGED <<laidOut, raws, diskSize>>
        /\ erased' \/ UNCHANGED <<disk, erased>>
    BY <1>9 DEF Detach
  <2>2. KeptInv'
    <3>1. CASE erased'
      BY <3>1 DEF KeptInv
    <3>2. CASE UNCHANGED <<disk, erased>>
      BY <1>0, <2>1, <3>2, TableSame
    <3> QED
      BY <2>1, <3>1, <3>2
  <2> QED
    BY <1>0, <2>1, <2>2, RawsSame DEF TableInv, WrittenInv, behind
<1>4. CASE \E n \in 1..MaxParts : OpenRaw(n)
  <2>1. pc' = "idle" /\ UNCHANGED <<disk, laidOut, erased>>
    BY <1>4 DEF OpenRaw
  <2>2. RawsInv'
    BY <1>0, <1>4, OpenRawInside
  <2> QED
    BY <1>0, <2>1, <2>2, TableSame DEF TableInv, WrittenInv, behind
<1>5. CASE \E s \in raws, pos, len \in Sizes : RawWrite(s, pos, len)
  <2>1. pc' = "idle" /\ UNCHANGED <<laidOut, erased, raws, diskSize>>
    BY <1>5 DEF RawWrite
  <2>2. disk' = disk
    BY <1>0, <1>5, RawWriteMisses
  <2> QED
    BY <1>0, <2>1, <2>2, TableSame, RawsSame DEF TableInv, WrittenInv, behind
<1>6. CASE Writes
  <2>1. UNCHANGED <<raws, diskSize>>
    BY <1>6, WritesStep
  <2> QED
    BY <1>0, <1>6, <2>1, TableWrites, RawsSame DEF TableInv
<1>7. CASE ReAttach
  <2>1. /\ pc = "attach" /\ pc' = "idle" /\ UNCHANGED <<disk, parts, raws, diskSize>>
        /\ UNCHANGED <<laidOut, erased>> \/ laidOut' = Len(parts)
    BY <1>7 DEF ReAttach
  <2>2. /\ disk.mbr /\ disk.hdr1 /\ disk.hdr2 /\ Len(parts) <= NumEntries
        /\ disk.ents1 = newEntries /\ disk.ents2 = newEntries
    BY <1>0, <2>1 DEF WrittenInv, behind
  <2>3. \A n \in 1..Len(parts) : newEntries[n] = entryOf(parts[n])
    <3> TAKE n \in 1..Len(parts)
    <3>1. n <= NumEntries
      BY <2>2, BuilderAssumption DEF Inv, TypeOK
    <3> QED
      BY <3>1, EntriesKept DEF Inv
  <2>4. KeptInv'
    <3>1. CASE UNCHANGED <<laidOut, erased>>
      BY <1>0, <2>1, <3>1, TableSame
    <3>2. CASE laidOut' = Len(parts)
      BY <2>1, <2>2, <2>3, <3>2 DEF KeptInv, entryOf
    <3> QED
      BY <2>1, <3>1, <3>2
  <2> QED
    BY <1>0, <2>1, <2>4, RawsSame DEF TableInv, WrittenInv, behind
<1>8. CASE Ended \/ UNCHANGED vars
  <2>1. UNCHANGED vars
    BY <1>8 DEF Ended
  <2>2. WrittenInv'
    BY <1>0, <2>1 DEF vars, WrittenInv, behind, newEntries, entryOf
  <2>3. UNCHANGED <<disk, laidOut, erased, raws, diskSize>>
    BY <2>1 DEF vars
  <2> QED
    BY <1>0, <2>2, <2>3, TableSame, RawsSame DEF TableInv
<1> QED
  BY <1>1, <1>2, <1>3, <1>4, <1>5, <1>6, <1>7, <1>8, <1>9 DEF Next, Commit, Writes

-----------------------------------------------------------------------------
(***************************************************************************)
(* What Attach reads back.                                                 *)
(***************************************************************************)

\* The parser's list holds every slot it kept.
LEMMA InOrder ==
    ASSUME NEW m \in Nat, NEW S \in SUBSET (1..m)
    PROVE  /\ DOMAIN inOrder(S) = 1..Cardinality(S)
           /\ \A n \in S : \E k \in 1..Cardinality(S) : inOrder(S)[k] = n
<1> DEFINE upto(n) == {x \in S : x <= n}
<1>1. IsFiniteSet(S) /\ Cardinality(S) \in Nat
  <2>1. IsFiniteSet(1..m)
    BY FS_Interval
  <2> QED
    BY <2>1, FS_Subset, FS_CardinalityType
<1>2. ASSUME NEW n \in S
      PROVE  /\ IsFiniteSet(upto(n)) /\ rank(S, n) \in 1..Cardinality(S)
             /\ rank(S, n) = Cardinality(upto(n))
  <2>1. upto(n) \in SUBSET S /\ n \in upto(n)
    OBVIOUS
  <2>2. IsFiniteSet(upto(n)) /\ Cardinality(upto(n)) <= Cardinality(S) /\ Cardinality(upto(n)) \in Nat
    BY <1>1, <2>1, FS_Subset, FS_CardinalityType
  <2>3. Cardinality(upto(n)) # 0
    BY <2>1, <2>2, FS_EmptySet
  <2> QED
    BY <1>1, <2>2, <2>3 DEF rank
<1>3. ASSUME NEW n \in S, NEW l \in S, rank(S, n) = rank(S, l) PROVE n = l
  <2>1. ASSUME NEW x \in S, NEW y \in S, x < y PROVE rank(S, x) # rank(S, y)
    <3>0. \A z \in S : z \in Int
      OBVIOUS
    <3>1. upto(x) \in SUBSET upto(y) /\ y \in upto(y) /\ y \notin upto(x)
      <4>1. ASSUME NEW z \in S, z <= x PROVE z <= y
        BY <2>1, <3>0, <4>1
      <4>2. y <= y /\ ~(y <= x)
        BY <2>1, <3>0
      <4> QED
        BY <4>1, <4>2, Zenon
    <3>2. upto(x) # upto(y)
      BY <3>1
    <3>3. IsFiniteSet(upto(y)) /\ rank(S, x) = Cardinality(upto(x)) /\ rank(S, y) = Cardinality(upto(y))
      BY <1>2
    <3> HIDE DEF upto
    <3> QED
      BY <3>1, <3>2, <3>3, FS_Subset
  <2>2. n < l \/ l < n \/ n = l
    OBVIOUS
  <2> QED
    BY <1>3, <2>1, <2>2
<1>4. ASSUME NEW n \in S PROVE \E k \in 1..Cardinality(S) : inOrder(S)[k] = n
  <2>1. PICK k \in 1..Cardinality(S) : k = rank(S, n)
    BY <1>2
  <2>2. (CHOOSE x \in S : rank(S, x) = k) = n
    BY <1>3, <2>1
  <2> QED
    BY <2>1, <2>2 DEF inOrder
<1> QED
  BY <1>4 DEF inOrder

\* An entry written for a partition of whole sectors is read as that partition.
LEMMA EntryReadBack ==
    ASSUME NEW p \in Part, NEW n, p.start % 512 = 0, p.size % 512 = 0
    PROVE  /\ gptPartition(entryOf(p), n) = [idx |-> n, start |-> p.start, size |-> p.size]
           /\ entryOf(p).used
<1>1. p.start \in Int /\ p.size \in Int /\ SectorSize = 512
  BY BuilderAssumption DEF Part
<1>2. (p.start \div 512) * 512 = p.start /\ (p.size \div 512) * 512 = p.size
  BY <1>1
<1>3. /\ entryOf(p).used /\ entryOf(p).first = p.start \div 512
      /\ entryOf(p).last = p.start \div 512 + p.size \div 512 - 1
  BY <1>1 DEF entryOf
<1>4. entryOf(p).last - entryOf(p).first + 1 = p.size \div 512
  BY <1>1, <1>3
<1> QED
  BY <1>1, <1>2, <1>3, <1>4 DEF gptPartition

\* gpt.Parse of a disk with a protective MBR, a header and entries.
LEMMA Parse ==
    ASSUME TypeOK, disk.mbr, disk.hdr1
    PROVE  LET S == {n \in 1..NumEntries : disk.ents1[n].used}
           IN  gptParse(onDisk, diskSize) =
                  Parsed([k \in DOMAIN inOrder(S) |->
                             gptPartition(disk.ents1[inOrder(S)[k]], inOrder(S)[k])])
<1>1. /\ onDisk.mbr = protectiveMBR /\ onDisk.hdr = disk.hdr1 /\ onDisk.entries = disk.ents1
  BY DEF onDisk
<1>2. hasProtective(onDisk)
  <2>1. protectiveMBR[1].type = MbrProtective /\ 1 \in 1..MbrEntries
    BY DEF protectiveMBR, MbrEntries
  <2> QED
    BY <1>1, <2>1 DEF hasProtective
<1>3. ~(diskSize < SectorSize) /\ ~(diskSize < GptReserved * SectorSize)
  <2>1. diskSize \in Nat /\ diskSize >= 67 * 512 /\ SectorSize = 512
    BY BuilderAssumption DEF TypeOK
  <2> QED
    BY <2>1 DEF GptReserved
<1>4. DOMAIN disk.ents1 = 1..NumEntries
  BY DEF TypeOK
<1>5. {n \in DOMAIN onDisk.entries : onDisk.entries[n].used}
        = {n \in 1..NumEntries : disk.ents1[n].used}
  BY <1>1, <1>4
<1> QED
  BY <1>1, <1>2, <1>3, <1>5, Zenon DEF gptParse

\* Attach finds every committed partition.
LEMMA Attaches ==
    ASSUME Inv, TableInv, laidOut > 0, ~erased
    PROVE  ~attached.err /\ attached.isGPT /\ committedInTable(attached)
<1> DEFINE S == {n \in 1..NumEntries : disk.ents1[n].used}
           list == [k \in DOMAIN inOrder(S) |->
                       gptPartition(disk.ents1[inOrder(S)[k]], inOrder(S)[k])]
<1>1. /\ TypeOK /\ disk.mbr /\ disk.hdr1 /\ laidOut \in Nat /\ laidOut <= NumEntries
      /\ laidOut <= Len(parts) /\ Len(parts) \in Nat /\ NumEntries \in Nat
      /\ \A n \in 1..laidOut : disk.ents1[n] = entryOf(parts[n])
  BY BuilderAssumption DEF Inv, TypeOK, TableInv, KeptInv
<1>2. ASSUME NEW n \in 1..laidOut
      PROVE  /\ n \in S
             /\ gptPartition(disk.ents1[n], n)
                  = [idx |-> n, start |-> parts[n].start, size |-> parts[n].size]
  <2>1. n \in 1..Len(parts) /\ n \in 1..NumEntries
    BY <1>1
  <2>2. parts[n] \in Part
    BY <1>1, <2>1, PartsFacts
  <2>3. parts[n].start % 512 = 0 /\ parts[n].size % 512 = 0
    BY DEF Inv, LayoutInv, Laid
  <2> QED
    BY <1>1, <2>1, <2>2, <2>3, EntryReadBack
<1>3. S \in SUBSET (1..NumEntries)
  OBVIOUS
<1>4. /\ DOMAIN inOrder(S) = 1..Cardinality(S)
      /\ \A n \in S : \E k \in 1..Cardinality(S) : inOrder(S)[k] = n
  <2> HIDE DEF S
  <2> QED
    BY <1>1, <1>3, InOrder
<1>5. gptParse(onDisk, diskSize) = Parsed(list)
  BY <1>1, Parse
<1> HIDE DEF S
<1>6. ASSUME NEW n \in 1..laidOut
      PROVE  \E j \in DOMAIN list :
                list[j] = [idx |-> n, start |-> parts[n].start, size |-> parts[n].size]
  <2>1. PICK k \in DOMAIN inOrder(S) : inOrder(S)[k] = n
    BY <1>2, <1>4
  <2>2. k \in DOMAIN list /\ list[k] = gptPartition(disk.ents1[n], n)
    BY <2>1
  <2> QED
    BY <1>2, <2>2
<1> HIDE DEF list
<1>7. list # <<>>
  <2>1. 1 \in 1..laidOut
    BY <1>1
  <2>2. DOMAIN list # {}
    BY <1>6, <2>1
  <2> QED
    BY <2>2
<1>8. attached = [err |-> FALSE, isGPT |-> TRUE, parts |-> list]
  <2>1. ~Parsed(list).err /\ Parsed(list).parts = list
    BY DEF Parsed
  <2> QED
    BY <1>5, <1>7, <2>1, Zenon DEF attached, attachParts
<1> QED
  BY <1>6, <1>8 DEF committedInTable

-----------------------------------------------------------------------------
(***************************************************************************)
(* The theorems.                                                           *)
(***************************************************************************)

\* The state of the builder and the layout loop keep their types.
THEOREM TypeCorrect ==
    Spec => []TypeOK
<1>1. Inv /\ [Next]_vars => Inv'
  BY InvStep
<1>2. Inv => TypeOK
  BY DEF Inv
<1> QED
  BY <1>1, <1>2, TypeInitially, PTL DEF Spec

\* Committed partitions lie between the two GPT copies and never overlap.
THEOREM LayoutCorrect ==
    Spec => []CommittedDisjoint
<1>1. Inv /\ [Next]_vars => Inv'
  BY InvStep
<1>2. Inv => CommittedDisjoint
  BY DEF Inv, LayoutInv, Laid, CommittedDisjoint, end, Limit
<1> QED
  BY <1>1, <1>2, TypeInitially, PTL DEF Spec

\* No later Commit, successful or not, moves or resizes a committed partition.
THEOREM CommittedStays ==
    Spec => CommittedNeverMoves
<1>1. Inv /\ [Next]_vars => Inv'
  BY InvStep
<1>2. Inv /\ [Next]_vars =>
        [laidOut <= laidOut' /\ \A n \in 1..laidOut : parts'[n] = parts[n]]_vars
  <2> SUFFICES ASSUME Inv, [Next]_vars
               PROVE  laidOut <= laidOut' /\ \A n \in 1..laidOut : parts'[n] = parts[n]
    OBVIOUS
  <2> QED
    BY InvStep
<1> QED
  BY <1>1, <1>2, TypeInitially, PTL DEF Spec, CommittedNeverMoves

\* Once a Commit has succeeded, both copies of the table hold every committed
\* partition at every later moment, and Attach finds them: through Commits that
\* fail, entry arrays that are torn and the death of the process, under any
\* write through a raw section of a committed partition, and through a Detach
\* in place or to another path.  Only a Detach to the builder's own path takes
\* them away, until the next successful Commit (TableSurvives says so).  A
\* section opened on a partition that was only added starts at byte 0, hence
\* the hypothesis.
THEOREM TableCorrect ==
    ASSUME ~OpensUncommitted
    PROVE  Spec => []TableSurvives
<1>1. Init => Inv /\ TableInv
  <2> SUFFICES ASSUME Init PROVE TableInv
    BY TypeInitially
  <2>1. pc = "idle" /\ laidOut = 0 /\ raws = {}
    BY DEF Init
  <2> QED
    BY <2>1 DEF TableInv, WrittenInv, KeptInv, RawsInv, behind
<1>2. (Inv /\ TableInv) /\ [Next]_vars => (Inv /\ TableInv)'
  BY InvStep, TableStep
<1>3. Inv /\ TableInv => TableSurvives
  <2> SUFFICES ASSUME Inv, TableInv, laidOut > 0, ~erased
               PROVE  /\ ~attached.err /\ attached.isGPT /\ committedInTable(attached)
                      /\ disk.hdr2
                      /\ \A n \in 1..laidOut : disk.ents2[n] = entryOf(parts[n])
    BY DEF TableSurvives
  <2>1. disk.hdr2 /\ \A n \in 1..laidOut : disk.ents2[n] = entryOf(parts[n])
    BY DEF TableInv, KeptInv
  <2> QED
    BY <2>1, Attaches
<1> QED
  BY <1>1, <1>2, <1>3, PTL DEF Spec
=============================================================================
