------------------------------- MODULE MkfsExt4 -------------------------------
(***************************************************************************)
(* mkfs/ext4: Format computes the layout of a new volume and writes it in  *)
(* one sequential pass.  The layout is a function of the size and of the   *)
(* inode ratio, both in KiB (a ratio is a multiple of 1 KiB here, and then *)
(* dividing KiB gives the quotient of the bytes).  The pass is a state     *)
(* machine: the group, how many of its structures are written, and the     *)
(* write cursor in blocks.  Contents other than bitmaps and counters are   *)
(* left out.                                                               *)
(* The finished volume is then read the way the driver's Open reads it.    *)
(***************************************************************************)
EXTENDS Integers, Sequences, FiniteSets, FiniteSetsExt

CONSTANT Inputs    \* pairs of a partition size and an InodeRatio, in KiB

VARIABLES
    fs,      \* the fsLayout
    grp,     \* the group write() is at
    step,    \* how many of its structures have been emitted
    cur,     \* write()'s cursor, in blocks
    disk,    \* the structures on the disk and where each one begins
    st       \* "writing", "ok", "past" (pad's own error) or "failed"

vars == <<fs, grp, step, cur, disk, st>>

blockSize      == 4            \* KiB
inodesPerBlock == 16           \* blockSize / inodeSize
blocksPerGroup == 32768
descsPerBlock  == 64           \* blockSize / gdtEntrySize
inoLostFound   == 11
groupLimit     == 131071       \* 2^17 - 1

\* Format refuses anything below 16 MiB, and a ratio of 0 means the default.  A
\* volume has at most groupLimit groups (16 TiB): beyond, the 32 bits of
\* totalInodes may overflow, which is not modelled.
ASSUME InputsAssumption ==
    \A i \in Inputs : /\ i[1] \in Nat /\ i[1] >= 16 * 1024
                      /\ i[1] \div (blockSize * blocksPerGroup) < groupLimit
                      /\ i[2] \in Nat \ {0}

least(a, b)   == IF a < b THEN a ELSE b
most(a, b)    == IF a > b THEN a ELSE b
ceilDiv(a, b) == (a + b - 1) \div b

-----------------------------------------------------------------------------
(* The layout *)

hasSuperBackup_Multiples(g) == g <= 1 \/ \E b \in {3, 5, 7} : g % b = 0

\* Whether group g carries a backup: the loop multiplies until it reaches g.
hasSuperBackup(g) ==
    \/ g <= 1
    \/ \E b \in {3, 5, 7} :
          LET grown[x \in 1 .. (7 * g)] == IF x < g THEN grown[x * b] ELSE x
          IN  grown[b] = g

inodesPerGrp(size, ratio, numGroups) ==
    LET raw == ceilDiv(size \div ratio, numGroups)
    IN  least(most(ceilDiv(raw, inodesPerBlock) * inodesPerBlock,
                   inodesPerBlock), blocksPerGroup)

gdtBlocks(numGroups) == ceilDiv(numGroups, descsPerBlock)

\* Room for the descriptors of 1024 times as many groups, at most 1024 blocks.
reservedGDT(numGroups) ==
    least(ceilDiv(numGroups * 1024, descsPerBlock) - gdtBlocks(numGroups), 1024)

overhead_NoReserved(g, numGroups) ==
    IF hasSuperBackup(g) THEN 1 + gdtBlocks(numGroups) ELSE 0

\* The blocks of a group in front of its bitmaps.
overhead(g, numGroups) ==
    IF hasSuperBackup(g)
    THEN 1 + gdtBlocks(numGroups) + reservedGDT(numGroups) ELSE 0

\* One turn of computeLayout's loop over the groups.
groupLayout(g, totalBlocks, numGroups, inodes) ==
    LET first == g * blocksPerGroup
        last  == least(first + blocksPerGroup, totalBlocks) - 1
        table == ceilDiv(inodes, inodesPerBlock)
        front == overhead(g, numGroups)
        data  == first + front + 2 + table
    IN  [firstBlock |-> first, lastBlock |-> last, hasSB |-> hasSuperBackup(g),
         blockBitmap |-> first + front, inodeBitmap |-> first + front + 1,
         inodeTable |-> first + front + 2, inodeTableBlocks |-> table,
         dataStart |-> data, freeBlocks |-> most(last + 1 - data, 0),
         freeInodes |-> inodes]

\* A quarter of the volume within 1024 .. 32768 blocks, but no more than
\* group 0 has free when two directory blocks are set aside.
journalSize(totalBlocks, free0) ==
    least(most(least(32768, totalBlocks \div 4), 1024), most(free0 - 2, 0))

computeLayout(size, ratio) ==
    LET totalBlocks == size \div blockSize
        numGroups   == ceilDiv(totalBlocks, blocksPerGroup)
        inodes      == inodesPerGrp(size, ratio, numGroups)
        groups      == [g \in 0 .. numGroups - 1 |->
                           groupLayout(g, totalBlocks, numGroups, inodes)]
        journal     == journalSize(totalBlocks, groups[0].freeBlocks)
        data        == groups[0].dataStart
    IN  [totalBlocks  |-> totalBlocks,
         numGroups    |-> numGroups,
         inodesPerGrp |-> inodes,
         journalSize  |-> journal,
         journalBlock |-> data,
         rootDirBlock |-> data + journal,
         lfDirBlock   |-> data + journal + 1,
         groups       |-> [groups EXCEPT
             ![0].dataStart  = data + journal + 2,
             ![0].freeBlocks = @ - journal - 2,
             ![0].freeInodes = inodes - inoLostFound]]

-----------------------------------------------------------------------------
(* What write() emits: a structure, its group, its target block, its length *)

piece(what, g, at, len) == [what |-> what, group |-> g, at |-> at, len |-> len]

frontOf(l, g) ==
    LET first == l.groups[g].firstBlock
        n     == l.numGroups
    IN  IF ~l.groups[g].hasSB THEN << >>
        ELSE << piece("super", g, first, 1),
                piece("gdt", g, first + 1, gdtBlocks(n)),
                piece("reserved", g, first + 1 + gdtBlocks(n), reservedGDT(n)) >>

tablesOf(l, g) ==
    LET gl == l.groups[g]
    IN  << piece("blockBitmap", g, gl.blockBitmap, 1),
           piece("inodeBitmap", g, gl.inodeBitmap, 1),
           piece("inodeTable", g, gl.inodeTable, gl.inodeTableBlocks) >>

\* writeJournal emits the journal's superblock whatever its size.
filesOf(l, g) ==
    IF g # 0 THEN << >>
    ELSE << piece("journal", 0, l.journalBlock, most(l.journalSize, 1)),
            piece("rootDir", 0, l.rootDirBlock, 1),
            piece("lostFound", 0, l.lfDirBlock, 1) >>

piecesOf(l, g) == frontOf(l, g) \o tablesOf(l, g) \o filesOf(l, g)

Init ==
    /\ \E i \in Inputs : fs = computeLayout(i[1], i[2])
    /\ grp = 0
    /\ step = 0
    /\ cur = 0
    /\ disk = {}
    /\ st = "writing"

todo == piecesOf(fs, grp)
next == todo[step + 1]

allEmitted == grp = fs.numGroups

\* block(n): zeros up to the target, or pad's error when the cursor is past it.
Pad ==
    /\ st = "writing" /\ ~allEmitted /\ cur < next.at
    /\ cur' = next.at
    /\ UNCHANGED <<fs, grp, step, disk, st>>

PadPast ==
    /\ st = "writing"
    /\ cur > (IF allEmitted THEN fs.totalBlocks ELSE next.at)
    /\ st' = "past"
    /\ UNCHANGED <<fs, grp, step, cur, disk>>

\* emit, at the target block() has reached; behind the last structure of a group
\* comes the first of the next one.
Emit ==
    /\ st = "writing" /\ ~allEmitted /\ cur = next.at
    /\ cur' = cur + next.len
    /\ disk' = disk \cup {[next EXCEPT !.at = cur]}
    /\ IF step + 1 < Len(todo) THEN step' = step + 1 /\ UNCHANGED grp
       ELSE step' = 0 /\ grp' = grp + 1
    /\ UNCHANGED <<fs, st>>

\* The last pad, to the size of the image.
Finish ==
    /\ st = "writing" /\ allEmitted /\ cur <= fs.totalBlocks
    /\ cur' = fs.totalBlocks
    /\ st' = "ok"
    /\ UNCHANGED <<fs, grp, step, disk>>

\* w.Write fails; a section of a partition also refuses to write past its end.
WriteFails ==
    /\ st = "writing"
    /\ st' = "failed"
    /\ UNCHANGED <<fs, grp, step, cur, disk>>

Next == Pad \/ PadPast \/ Emit \/ Finish \/ WriteFails
Spec == Init /\ [][Next]_vars

-----------------------------------------------------------------------------
(* The bitmaps and descriptors on the disk, and what the driver reads *)

buildBlockBitmap_OneShort(l, g) ==
    LET gl   == l.groups[g]
        used == least(gl.dataStart - gl.firstBlock, blocksPerGroup)
    IN  (0 .. used - 2)
            \cup (gl.lastBlock - gl.firstBlock + 1 .. blocksPerGroup - 1)

\* Bits of group g's block bitmap: everything before dataStart and the
\* padding behind the last block of the volume.
buildBlockBitmap(l, g) ==
    LET gl   == l.groups[g]
        used == least(gl.dataStart - gl.firstBlock, blocksPerGroup)
    IN  (0 .. used - 1)
            \cup (gl.lastBlock - gl.firstBlock + 1 .. blocksPerGroup - 1)

buildInodeBitmap_FromOne(l, g) ==
    (IF g = 0 THEN 1 .. inoLostFound - 1 ELSE {})
        \cup (l.inodesPerGrp .. blocksPerGroup - 1)

buildInodeBitmap(l, g) ==
    (IF g = 0 THEN 0 .. inoLostFound - 1 ELSE {})
        \cup (l.inodesPerGrp .. blocksPerGroup - 1)

\* A counter is stored as two 16-bit halves.
halves(n) == <<n % 65536, n \div 65536>>
joined(h) == h[1] + 65536 * h[2]

encodeGDE(l, g) ==
    [blockBitmap |-> l.groups[g].blockBitmap,
     inodeBitmap |-> l.groups[g].inodeBitmap,
     inodeTable  |-> l.groups[g].inodeTable,
     freeBlocks  |-> halves(l.groups[g].freeBlocks),
     freeInodes  |-> halves(l.groups[g].freeInodes)]

\* The sum of a counter over the groups.
sumOf(f) == MapThenSumSet(LAMBDA g : f[g], DOMAIN f)

buildSuperblock(l) ==
    [blocksCount    |-> l.totalBlocks,
     inodesCount    |-> l.inodesPerGrp * l.numGroups,
     inodesPerGroup |-> l.inodesPerGrp,
     freeBlocks     |-> sumOf([g \in DOMAIN l.groups |-> l.groups[g].freeBlocks]),
     freeInodes     |-> sumOf([g \in DOMAIN l.groups |-> l.groups[g].freeInodes])]

\* Open: the group count from the superblock, the descriptors from block 1 on.
groupCount(sb) == ceilDiv(sb.blocksCount, blocksPerGroup)

readGroupDescriptors(l) ==
    [g \in 0 .. groupCount(buildSuperblock(l)) - 1 |-> encodeGDE(l, g)]

-----------------------------------------------------------------------------
(* Properties *)

lastGroup == fs.groups[fs.numGroups - 1]

\* A Format whose writes all succeed returns an error only when the last
\* group is shorter than its own tables, and never nil in that case: no two
\* structures of a layout overlap, and none lies outside the volume
\* (computeLayout against the cursor of write).
FormatsWhatFits ==
    /\ (st = "past") => (lastGroup.dataStart > fs.totalBlocks)
    /\ (st = "ok") => (lastGroup.dataStart <= fs.totalBlocks)

within(b, p) == p.at <= b /\ b < p.at + p.len

\* After a Format that returned nil, in every group the blocks of the volume
\* whose bit is set are exactly those that hold a structure: nothing written
\* can be handed out and no block is lost (buildBlockBitmap against write).
UsedExactly ==
    (st = "ok") =>
        \A g \in 0 .. fs.numGroups - 1 :
            LET gl   == fs.groups[g]
                used == buildBlockBitmap(fs, g)
                here == {p \in disk : p.group = g}
            IN  \A b \in gl.firstBlock .. gl.lastBlock :
                    (b - gl.firstBlock \in used) <=> (\E p \in here : within(b, p))

clear(bits) == Cardinality({b \in 0 .. blocksPerGroup - 1 : b \notin bits})

\* What the driver opens is consistent: as many descriptors as groups, each
\* one leading to the bitmaps of its group, each counter equal to the clear
\* bits of its bitmap, and the superblock's counters to their sums.
OpensConsistent ==
    (st = "ok") =>
        LET sb  == buildSuperblock(fs)
            gdt == readGroupDescriptors(fs)
            at(what, g, b) == \E p \in disk :
                                 p.what = what /\ p.group = g /\ p.at = b
            free(g)  == joined(gdt[g].freeBlocks)
            freeI(g) == joined(gdt[g].freeInodes)
        IN  /\ DOMAIN gdt = DOMAIN fs.groups
            /\ \A g \in DOMAIN gdt :
                  /\ at("blockBitmap", g, gdt[g].blockBitmap)
                  /\ at("inodeBitmap", g, gdt[g].inodeBitmap)
                  /\ at("inodeTable", g, gdt[g].inodeTable)
                  /\ free(g) = clear(buildBlockBitmap(fs, g))
                  /\ freeI(g) = clear(buildInodeBitmap(fs, g))
            /\ sb.freeBlocks = sumOf([g \in DOMAIN gdt |-> free(g)])
            /\ sb.freeInodes = sumOf([g \in DOMAIN gdt |-> freeI(g)])

\* Every divisor but 1 of a power of a prime is a multiple of the prime.
powerOf(p, g) == g > 1 /\ \A d \in 2 .. g : g % d = 0 => d % p = 0

\* The sparse_super rule of the package's documentation: superblock and
\* descriptors are in groups 0 and 1 and the powers of 3, 5 and 7, no others
\* (hasSuperBackup).
SparseBackups ==
    (st = "ok") =>
        {p.group : p \in {q \in disk : q.what = "super"}}
            = {g \in 0 .. fs.numGroups - 1 :
                  g <= 1 \/ \E p \in {3, 5, 7} : powerOf(p, g)}
=============================================================================
