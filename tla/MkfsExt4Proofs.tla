---------------------------- MODULE MkfsExt4Proofs ----------------------------
(***************************************************************************)
(* Proofs about Format, for every partition size below 16 TiB and every    *)
(* inode ratio.                                                            *)
(*                                                                         *)
(* Sound says what computeLayout guarantees: each group's structures fit   *)
(* in a full group, and in group 0 the journal and the two directories fit *)
(* behind them.  Tiled says that the structures write() emits for a group  *)
(* follow one another from its first block to its dataStart.  The cursor   *)
(* is then always at the end of what was emitted last, and only the last   *)
(* group, which may be short, can put it past its target.                  *)
(***************************************************************************)
EXTENDS MkfsExt4, FiniteSetTheorems, SequenceTheorems, WellFoundedInduction, TLAPS

\* The blocks of the smallest volume that Format accepts.
Smallest == 4096

\* What a group begins with: superblock, descriptors and room for more.
front(l, g) ==
    IF l.groups[g].hasSB THEN 1 + gdtBlocks(l.numGroups) + reservedGDT(l.numGroups) ELSE 0

\* Where the structures that every group has end.
tablesEnd(l, g) == l.groups[g].inodeTable + l.groups[g].inodeTableBlocks

\* What the loop over the groups and the two directories leave in group g.
GroupSound(l, g) ==
    /\ l.groups[g].firstBlock = g * blocksPerGroup
    /\ l.groups[g].lastBlock \in Nat
    /\ l.groups[g].lastBlock = least((g + 1) * blocksPerGroup, l.totalBlocks) - 1
    /\ l.groups[g].firstBlock <= l.groups[g].lastBlock
    /\ l.groups[g].hasSB \in BOOLEAN
    /\ l.groups[g].blockBitmap = l.groups[g].firstBlock + front(l, g)
    /\ l.groups[g].inodeBitmap = l.groups[g].blockBitmap + 1
    /\ l.groups[g].inodeTable = l.groups[g].inodeBitmap + 1
    /\ l.groups[g].inodeTableBlocks \in Nat
    /\ tablesEnd(l, g) <= (g + 1) * blocksPerGroup
    /\ g # 0 => /\ l.groups[g].dataStart = tablesEnd(l, g)
                /\ l.groups[g].freeInodes = l.inodesPerGrp
    /\ l.groups[g].freeBlocks = most(l.groups[g].lastBlock + 1 - l.groups[g].dataStart, 0)

Sound(l) ==
    /\ l.numGroups \in Nat \ {0} /\ l.totalBlocks \in Nat
    /\ l.inodesPerGrp \in Nat /\ 16 <= l.inodesPerGrp /\ l.inodesPerGrp <= blocksPerGroup
    /\ gdtBlocks(l.numGroups) \in Nat /\ reservedGDT(l.numGroups) \in Nat
    /\ l.numGroups = ceilDiv(l.totalBlocks, blocksPerGroup)
    /\ (l.numGroups - 1) * blocksPerGroup < l.totalBlocks
    /\ l.totalBlocks <= l.numGroups * blocksPerGroup
    /\ DOMAIN l.groups = 0 .. l.numGroups - 1
    /\ \A g \in 0 .. l.numGroups - 1 : GroupSound(l, g)
    /\ l.groups[0].hasSB
    /\ l.journalSize \in Nat \ {0}
    /\ l.journalBlock = tablesEnd(l, 0)
    /\ l.rootDirBlock = l.journalBlock + l.journalSize
    /\ l.lfDirBlock = l.rootDirBlock + 1
    /\ l.groups[0].dataStart = l.lfDirBlock + 1
    /\ l.groups[0].dataStart <= l.groups[0].lastBlock + 1
    /\ l.groups[0].freeInodes = l.inodesPerGrp - inoLostFound

-----------------------------------------------------------------------------
(***************************************************************************)
(* Arithmetic of the layout.                                               *)
(***************************************************************************)

\* The blocks of a table of k inodes: at least one, at most 2048.
TableSize(k) ==
    /\ ceilDiv(k, inodesPerBlock) \in Nat
    /\ 1 <= ceilDiv(k, inodesPerBlock) /\ ceilDiv(k, inodesPerBlock) <= 2048

\* A quotient of natural numbers is one.
LEMMA Quotient ==
    ASSUME NEW a \in Nat, NEW b \in Nat \ {0}
    PROVE  a \div b \in Nat
OBVIOUS

\* The table of as many inodes as a bitmap has bits has at most 2048 blocks.
LEMMA TableBlocks ==
    ASSUME NEW k \in Nat, inodesPerBlock <= k, k <= blocksPerGroup
    PROVE  TableSize(k)
<1>1. k \in Nat /\ 16 <= k /\ k <= 32768
  BY DEF inodesPerBlock, blocksPerGroup
<1>2. (k + 16 - 1) \div 16 \in Nat
  BY <1>1
<1>3. 1 <= (k + 16 - 1) \div 16 /\ (k + 16 - 1) \div 16 <= 2048
  BY <1>1
<1> QED
  BY <1>2, <1>3 DEF TableSize, ceilDiv, inodesPerBlock

\* The inodes of a group, whatever the ratio, fill at least a block of the
\* table and at most a bitmap: the table has at most 2048 blocks.
LEMMA InodesBounds ==
    ASSUME NEW size \in Nat, NEW ratio \in Nat \ {0}, NEW n \in Nat \ {0}
    PROVE  /\ inodesPerGrp(size, ratio, n) \in Nat
           /\ inodesPerBlock <= inodesPerGrp(size, ratio, n)
           /\ inodesPerGrp(size, ratio, n) <= blocksPerGroup
           /\ TableSize(inodesPerGrp(size, ratio, n))
<1> DEFINE raw == ceilDiv(size \div ratio, n)
           up  == ceilDiv(raw, inodesPerBlock) * inodesPerBlock
<1>1. size \div ratio \in Nat
  BY Quotient
<1>2. raw \in Nat
  <2>1. (size \div ratio) + n - 1 \in Nat
    BY <1>1
  <2> QED BY <2>1, Quotient DEF ceilDiv
<1>3. up \in Nat
  <2> HIDE DEF raw
  <2> QED BY <1>2 DEF ceilDiv, inodesPerBlock
<1>4. inodesPerGrp(size, ratio, n) = least(most(up, inodesPerBlock), blocksPerGroup)
  BY DEF inodesPerGrp
<1>5. /\ inodesPerGrp(size, ratio, n) \in Nat
      /\ inodesPerBlock <= inodesPerGrp(size, ratio, n)
      /\ inodesPerGrp(size, ratio, n) <= blocksPerGroup
  <2> HIDE DEF up
  <2> QED BY <1>3, <1>4 DEF least, most, inodesPerBlock, blocksPerGroup
<1> HIDE DEF raw, up
<1> QED
  BY <1>5, TableBlocks

\* The descriptors of at most 2^17 groups take at most 2048 blocks, those of
\* one group one block, and the room behind them at most 1024.
LEMMA FrontBounds ==
    ASSUME NEW n \in Nat \ {0}, n <= groupLimit
    PROVE  /\ gdtBlocks(n) \in Nat /\ 1 <= gdtBlocks(n) /\ gdtBlocks(n) <= 2048
           /\ reservedGDT(n) \in Nat /\ reservedGDT(n) <= 1024
           /\ n = 1 => gdtBlocks(n) = 1 /\ reservedGDT(n) = 15
BY DEF gdtBlocks, reservedGDT, ceilDiv, least, descsPerBlock, groupLimit

\* The blocks in front of a group's bitmaps.
LEMMA OverheadBounds ==
    ASSUME NEW n \in Nat \ {0}, n <= groupLimit, NEW g
    PROVE  overhead(g, n) \in Nat /\ overhead(g, n) <= 3073
<1>1. /\ gdtBlocks(n) \in Nat /\ gdtBlocks(n) <= 2048
      /\ reservedGDT(n) \in Nat /\ reservedGDT(n) <= 1024
  BY FrontBounds
<1>2. overhead(g, n) = 0 \/ overhead(g, n) = 1 + gdtBlocks(n) + reservedGDT(n)
  BY DEF overhead
<1> QED BY <1>1, <1>2

\* The number of groups is that of full groups, and one for a rest.
LEMMA GroupBounds ==
    ASSUME NEW size \in Nat, size >= 16 * 1024,
           size \div (blockSize * blocksPerGroup) < groupLimit,
           NEW total, total = size \div blockSize,
           NEW n, n = ceilDiv(total, blocksPerGroup)
    PROVE  /\ total \in Nat /\ total >= Smallest
           /\ n \in Nat \ {0} /\ n <= groupLimit
           /\ (n - 1) * blocksPerGroup < total /\ total <= n * blocksPerGroup
BY DEF blockSize, blocksPerGroup, ceilDiv, groupLimit, Smallest

\* What groupLayout gives for group g.
Fitting(r, g, n, total, inodes) ==
    /\ r.firstBlock = g * blocksPerGroup
    /\ r.lastBlock \in Nat
    /\ r.lastBlock = least((g + 1) * blocksPerGroup, total) - 1
    /\ r.firstBlock <= r.lastBlock
    /\ r.hasSB = hasSuperBackup(g)
    /\ r.blockBitmap = r.firstBlock + overhead(g, n)
    /\ r.inodeBitmap = r.blockBitmap + 1
    /\ r.inodeTable = r.inodeBitmap + 1
    /\ r.inodeTableBlocks \in Nat /\ r.inodeTableBlocks <= 2048
    /\ r.dataStart = r.inodeTable + r.inodeTableBlocks
    /\ r.dataStart <= (g + 1) * blocksPerGroup
    /\ r.freeBlocks = most(r.lastBlock + 1 - r.dataStart, 0)
    /\ r.freeInodes = inodes

\* What the loop computes for a group, for a layout of n groups with a table of
\* t blocks, fits in a full group.
LEMMA GroupFits ==
    ASSUME NEW n \in Nat \ {0}, n <= groupLimit, NEW total \in Nat, NEW inodes,
           (n - 1) * blocksPerGroup < total, total <= n * blocksPerGroup,
           TableSize(inodes),
           NEW g \in 0 .. n - 1, NEW r, r = groupLayout(g, total, n, inodes)
    PROVE  Fitting(r, g, n, total, inodes)
<1> DEFINE t == ceilDiv(inodes, inodesPerBlock)
           o == overhead(g, n)
<1>1. o \in Nat /\ o <= 3073
  BY OverheadBounds
<1>2. t \in Nat /\ t <= 2048
  BY DEF TableSize
<1>3. least(g * blocksPerGroup + blocksPerGroup, total) = least((g + 1) * blocksPerGroup, total)
  BY DEF blocksPerGroup
<1>4. /\ r.firstBlock = g * blocksPerGroup
      /\ r.lastBlock = least(g * blocksPerGroup + blocksPerGroup, total) - 1
      /\ r.hasSB = hasSuperBackup(g)
      /\ r.blockBitmap = g * blocksPerGroup + o
      /\ r.inodeBitmap = g * blocksPerGroup + o + 1
      /\ r.inodeTable = g * blocksPerGroup + o + 2
      /\ r.inodeTableBlocks = t
      /\ r.dataStart = g * blocksPerGroup + o + 2 + t
      /\ r.freeBlocks = most(r.lastBlock + 1 - r.dataStart, 0)
      /\ r.freeInodes = inodes
  BY DEF groupLayout
<1> HIDE DEF t, o
<1>5. least((g + 1) * blocksPerGroup, total) \in Nat
      /\ g * blocksPerGroup < least((g + 1) * blocksPerGroup, total)
  BY DEF least, blocksPerGroup
<1>6. r.lastBlock = least((g + 1) * blocksPerGroup, total) - 1
  BY <1>3, <1>4
<1>7. r.lastBlock \in Nat /\ r.firstBlock <= r.lastBlock
  BY <1>4, <1>5, <1>6 DEF blocksPerGroup
<1>8. /\ r.inodeBitmap = r.blockBitmap + 1
      /\ r.inodeTable = r.inodeBitmap + 1
      /\ r.inodeTableBlocks \in Nat /\ r.inodeTableBlocks <= 2048
      /\ r.dataStart = r.inodeTable + r.inodeTableBlocks
      /\ r.dataStart <= (g + 1) * blocksPerGroup
  BY <1>1, <1>2, <1>4 DEF blocksPerGroup
<1> QED
  BY <1>4, <1>6, <1>7, <1>8 DEF o, Fitting

\* journalSize leaves two blocks of the room behind the tables.
LEMMA JournalRoom ==
    ASSUME NEW total \in Nat, NEW end \in Nat, NEW data \in Nat, data + 3 <= end,
           NEW free, free = most(end - data, 0), NEW j, j = journalSize(total, free)
    PROVE  free = end - data /\ j \in Nat \ {0} /\ j <= end - data - 2
<1>1. most(end - data, 0) = end - data /\ end - data >= 3
  BY DEF most
<1>2. total \div 4 \in Nat
  BY Quotient
<1>3. most(end - data - 2, 0) = end - data - 2
  BY <1>1 DEF most
<1>4. least(32768, total \div 4) \in Nat
  BY <1>2 DEF least
<1>5. most(least(32768, total \div 4), 1024) \in Nat \ {0}
  BY <1>4 DEF most
<1>6. \A a \in Nat \ {0}, b \in Nat \ {0} : least(a, b) \in Nat \ {0} /\ least(a, b) <= b
  BY DEF least
<1>7. journalSize(total, end - data)
        = least(most(least(32768, total \div 4), 1024), most(end - data - 2, 0))
  BY DEF journalSize
<1>8. end - data - 2 \in Nat \ {0}
  BY <1>1
<1>9. /\ journalSize(total, end - data) \in Nat \ {0}
      /\ journalSize(total, end - data) <= end - data - 2
  BY <1>3, <1>5, <1>6, <1>7, <1>8
<1> QED
  BY <1>1, <1>9

\* The journal and the two directories fit behind the tables of group 0, also on
\* the smallest volume.
LEMMA JournalFits ==
    ASSUME NEW n \in Nat \ {0}, n <= groupLimit, NEW total \in Nat, total >= Smallest,
           (n - 1) * blocksPerGroup < total,
           NEW t \in Nat, t <= 2048,
           NEW data, data = overhead(0, n) + 2 + t,
           NEW end, end = least(blocksPerGroup, total),
           NEW free, free = most(end - data, 0),
           NEW j, j = journalSize(total, free)
    PROVE  /\ data \in Nat /\ end \in Nat /\ free = end - data
           /\ j \in Nat \ {0} /\ j <= end - data - 2
<1>1. overhead(0, n) \in Nat /\ overhead(0, n) <= 3073
  BY OverheadBounds
<1>2. end \in Nat /\ end >= 4096
  BY DEF least, blocksPerGroup, Smallest
<1>3. overhead(0, n) + 2 + 2048 + 3 <= end
  <2>1. CASE n = 1
    <3>1. overhead(0, n) = 17
      BY <2>1, FrontBounds DEF overhead, hasSuperBackup
    <3> QED BY <1>2, <3>1
  <2>2. CASE n # 1
    <3>1. end = 32768
      BY <2>2 DEF least, blocksPerGroup
    <3> QED BY <1>1, <3>1
  <2> QED BY <2>1, <2>2
<1>4. data \in Nat /\ data + 3 <= end
  BY <1>1, <1>2, <1>3
<1> QED BY <1>2, <1>4, JournalRoom

\* computeLayout gives a sound layout for every size and ratio Format accepts.
LEMMA LayoutSound ==
    ASSUME NEW size \in Nat, size >= 16 * 1024,
           size \div (blockSize * blocksPerGroup) < groupLimit, NEW ratio \in Nat \ {0}
    PROVE  Sound(computeLayout(size, ratio))
<1>1. PICK total : total = size \div blockSize
  OBVIOUS
<1>2. PICK n : n = ceilDiv(total, blocksPerGroup)
  OBVIOUS
<1>3. /\ total \in Nat /\ total >= Smallest
      /\ n \in Nat \ {0} /\ n <= groupLimit
      /\ (n - 1) * blocksPerGroup < total /\ total <= n * blocksPerGroup
  BY <1>1, <1>2, GroupBounds
<1>4. PICK inodes : inodes = inodesPerGrp(size, ratio, n)
  OBVIOUS
<1>5. /\ inodes \in Nat /\ inodesPerBlock <= inodes /\ inodes <= blocksPerGroup
      /\ TableSize(inodes)
  BY <1>3, <1>4, InodesBounds
<1>6. PICK G : G = [g \in 0 .. n - 1 |-> groupLayout(g, total, n, inodes)]
  OBVIOUS
<1>7. PICK j : j = journalSize(total, G[0].freeBlocks)
  OBVIOUS
<1>8. PICK data : data = G[0].dataStart
  OBVIOUS
<1>9. PICK l : l = computeLayout(size, ratio)
  OBVIOUS
<1>10. l = [totalBlocks |-> total, numGroups |-> n, inodesPerGrp |-> inodes,
            journalSize |-> j, journalBlock |-> data,
            rootDirBlock |-> data + j, lfDirBlock |-> data + j + 1,
            groups |-> [G EXCEPT ![0].dataStart  = data + j + 2,
                                 ![0].freeBlocks = @ - j - 2,
                                 ![0].freeInodes = inodes - inoLostFound]]
  BY <1>1, <1>2, <1>4, <1>6, <1>7, <1>8, <1>9 DEF computeLayout
<1>11. /\ l.totalBlocks = total /\ l.numGroups = n /\ l.inodesPerGrp = inodes
       /\ l.journalSize = j /\ l.journalBlock = data
       /\ l.rootDirBlock = data + j /\ l.lfDirBlock = data + j + 1
       /\ DOMAIN l.groups = 0 .. n - 1
  BY <1>6, <1>10
<1>12. 0 \in 0 .. n - 1
  BY <1>3
<1>13. ASSUME NEW g \in 0 .. n - 1 PROVE G[g] = groupLayout(g, total, n, inodes)
  BY <1>6
<1>14. \A g \in 0 .. n - 1 : g # 0 => l.groups[g] = G[g]
  BY <1>6, <1>10
<1>15. l.groups[0] = [G[0] EXCEPT !.dataStart = data + j + 2, !.freeBlocks = @ - j - 2,
                                  !.freeInodes = inodes - inoLostFound]
  BY <1>6, <1>10, <1>12
<1>16. \A g \in 0 .. n - 1 : Fitting(G[g], g, n, total, inodes)
  BY <1>3, <1>5, <1>13, GroupFits
<1>17. /\ l.groups[0].firstBlock = G[0].firstBlock
       /\ l.groups[0].lastBlock = G[0].lastBlock
       /\ l.groups[0].hasSB = G[0].hasSB
       /\ l.groups[0].blockBitmap = G[0].blockBitmap
       /\ l.groups[0].inodeBitmap = G[0].inodeBitmap
       /\ l.groups[0].inodeTable = G[0].inodeTable
       /\ l.groups[0].inodeTableBlocks = G[0].inodeTableBlocks
       /\ l.groups[0].dataStart = data + j + 2
       /\ l.groups[0].freeBlocks = G[0].freeBlocks - j - 2
       /\ l.groups[0].freeInodes = inodes - inoLostFound
  BY <1>12, <1>13, <1>15 DEF groupLayout
<1>18. PICK end : end = least(blocksPerGroup, total)
  OBVIOUS
<1>19. G[0].lastBlock = end - 1 /\ G[0].lastBlock \in Nat
  <2>1. (0 + 1) * blocksPerGroup = blocksPerGroup
    BY DEF blocksPerGroup
  <2> QED BY <1>12, <1>16, <1>18, <2>1 DEF Fitting
<1>20. end \in Nat
  BY <1>3, <1>18 DEF least, blocksPerGroup
<1>21. data = overhead(0, n) + 2 + G[0].inodeTableBlocks
  <2>1. /\ G[0].firstBlock = 0 * blocksPerGroup
        /\ G[0].blockBitmap = G[0].firstBlock + overhead(0, n)
        /\ G[0].inodeBitmap = G[0].blockBitmap + 1
        /\ G[0].inodeTable = G[0].inodeBitmap + 1
        /\ G[0].inodeTableBlocks \in Nat
        /\ G[0].dataStart = G[0].inodeTable + G[0].inodeTableBlocks
    BY <1>12, <1>16 DEF Fitting
  <2>2. 0 * blocksPerGroup = 0
    BY DEF blocksPerGroup
  <2>3. overhead(0, n) \in Nat
    BY <1>3, OverheadBounds
  <2> QED BY <1>8, <2>1, <2>2, <2>3
<1>22. PICK t \in Nat : t = G[0].inodeTableBlocks /\ t <= 2048
  BY <1>12, <1>16 DEF Fitting
<1>26. data \in Nat
  <2>1. overhead(0, n) \in Nat
    BY <1>3, OverheadBounds
  <2> QED BY <1>21, <1>22, <2>1
<1>23. PICK free : free = G[0].freeBlocks
  OBVIOUS
<1>24. free = most(end - data, 0)
  <2>1. G[0].lastBlock + 1 = end
    BY <1>19, <1>20
  <2>2. G[0].freeBlocks = most(G[0].lastBlock + 1 - G[0].dataStart, 0)
    BY <1>12, <1>16 DEF Fitting
  <2>3. G[0].lastBlock + 1 - G[0].dataStart = end - data
    BY <1>8, <1>19, <1>20, <1>26
  <2>4. G[0].freeBlocks = most(end - data, 0)
    BY <2>2, <2>3
  <2> QED BY <1>23, <2>4
<1>25. /\ data \in Nat /\ free = end - data
       /\ j \in Nat \ {0} /\ j <= end - data - 2
  <2>1. data = overhead(0, n) + 2 + t
    BY <1>21, <1>22
  <2>2. j = journalSize(total, free)
    BY <1>7, <1>23
  <2> QED BY <1>3, <1>18, <1>22, <1>24, <2>1, <2>2, JournalFits
<1>27. ASSUME NEW g \in 0 .. n - 1
       PROVE  l.groups[g].hasSB = hasSuperBackup(g) /\ front(l, g) = overhead(g, n)
  <2>1. l.groups[g].hasSB = G[g].hasSB
    BY <1>14, <1>17
  <2>2. l.groups[g].hasSB = hasSuperBackup(g)
    BY <1>16, <2>1 DEF Fitting
  <2> QED BY <1>11, <2>2 DEF front, overhead
<1>28. hasSuperBackup(0)
  BY DEF hasSuperBackup
<1>29. ASSUME NEW g \in 0 .. n - 1, g # 0 PROVE GroupSound(l, g)
  <2>1. Fitting(l.groups[g], g, n, total, inodes)
    BY <1>14, <1>16, <1>29
  <2>2. tablesEnd(l, g) = l.groups[g].dataStart
    BY <2>1 DEF Fitting, tablesEnd
  <2>3. l.groups[g].hasSB \in BOOLEAN
    BY <1>27 DEF hasSuperBackup
  <2> QED BY <1>11, <1>27, <1>29, <2>1, <2>2, <2>3 DEF Fitting, GroupSound
<1>30. tablesEnd(l, 0) = data
  BY <1>8, <1>12, <1>16, <1>17 DEF Fitting, tablesEnd
<1>31. l.groups[0].freeBlocks = most(l.groups[0].lastBlock + 1 - l.groups[0].dataStart, 0)
  <2>1. l.groups[0].freeBlocks = end - data - j - 2
    BY <1>17, <1>23, <1>25
  <2>2. l.groups[0].lastBlock = end - 1
    BY <1>17, <1>19
  <2>3. l.groups[0].lastBlock + 1 - l.groups[0].dataStart = end - (data + j + 2)
    BY <1>17, <1>20, <1>25, <2>2
  <2>4. most(end - (data + j + 2), 0) = end - data - j - 2
    BY <1>20, <1>25 DEF most
  <2> QED BY <2>1, <2>3, <2>4
<1>32. GroupSound(l, 0)
  <2>1. Fitting(G[0], 0, n, total, inodes)
    BY <1>12, <1>16
  <2>2. l.groups[0].hasSB \in BOOLEAN
    BY <1>12, <1>27 DEF hasSuperBackup
  <2>3. data <= (0 + 1) * blocksPerGroup
    BY <1>8, <2>1 DEF Fitting
  <2> QED BY <1>11, <1>12, <1>17, <1>27, <1>30, <1>31, <2>1, <2>2, <2>3 DEF Fitting, GroupSound
<1>33. \A g \in 0 .. n - 1 : GroupSound(l, g)
  BY <1>29, <1>32
<1>34. /\ gdtBlocks(n) \in Nat /\ reservedGDT(n) \in Nat
  BY <1>3, FrontBounds
<1>35. l.groups[0].dataStart <= l.groups[0].lastBlock + 1
  BY <1>17, <1>19, <1>20, <1>25
<1>36. /\ l.rootDirBlock = l.journalBlock + l.journalSize /\ l.lfDirBlock = l.rootDirBlock + 1
       /\ l.groups[0].dataStart = l.lfDirBlock + 1
  BY <1>11, <1>17, <1>25
<1>37. 16 <= inodes
  BY <1>5 DEF inodesPerBlock
<1>38. l.groups[0].hasSB
  BY <1>12, <1>27, <1>28
<1>39. Sound(l)
  BY <1>2, <1>3, <1>5, <1>11, <1>17, <1>25, <1>30, <1>33, <1>34, <1>35, <1>36, <1>37, <1>38 DEF Sound
<1> QED BY <1>9, <1>39

-----------------------------------------------------------------------------
(***************************************************************************)
(* The structures of one group.                                            *)
(***************************************************************************)

Whats == {"super", "gdt", "reserved", "blockBitmap", "inodeBitmap", "inodeTable",
          "journal", "rootDir", "lostFound"}
Piece == [what : Whats, group : Nat, at : Nat, len : Nat]

\* The structures ps of group g follow one another from block first up to, not
\* including, block end: a block in between lies in one of them, no other does.
Tiles(ps, g, first, end) ==
    /\ ps \in Seq(Piece) /\ Len(ps) > 0
    /\ \A s \in 1 .. Len(ps) :
          /\ ps[s].group = g
          /\ ps[s].at + ps[s].len = IF s = Len(ps) THEN end ELSE ps[s + 1].at
    /\ ps[1].at = first
    /\ \A b \in Int : (first <= b /\ b < end) <=> \E s \in 1 .. Len(ps) : within(b, ps[s])

\* A structure of kind what begins at block at.
Has(ps, what, at) == \E s \in 1 .. Len(ps) : ps[s].what = what /\ ps[s].at = at

\* Three elements of a set are a sequence.
LEMMA Triple ==
    ASSUME NEW S, NEW a \in S, NEW b \in S, NEW c \in S
    PROVE  <<a, b, c>> \in Seq(S)
OBVIOUS

\* Three structures, one behind the other.
LEMMA ThreeRecords ==
    ASSUME NEW g \in Nat, NEW x \in Nat, NEW u \in Whats, NEW v \in Whats, NEW w \in Whats,
           NEW m \in Nat, NEW n \in Nat, NEW k \in Nat,
           NEW a, a = piece(u, g, x, m), NEW b, b = piece(v, g, x + m, n),
           NEW c, c = piece(w, g, x + m + n, k)
    PROVE  /\ Tiles(<<a, b, c>>, g, x, x + m + n + k)
           /\ Has(<<a, b, c>>, u, x) /\ Has(<<a, b, c>>, v, x + m)
           /\ Has(<<a, b, c>>, w, x + m + n)
<1>1. /\ a.at = x /\ a.len = m /\ a.what = u /\ a.group = g
      /\ b.at = x + m /\ b.len = n /\ b.what = v /\ b.group = g
      /\ c.at = x + m + n /\ c.len = k /\ c.what = w /\ c.group = g
  BY DEF piece
<1>2. a \in Piece /\ b \in Piece /\ c \in Piece
  <2>1. x + m \in Nat /\ x + m + n \in Nat
    OBVIOUS
  <2> QED BY <2>1 DEF piece, Piece
<1> DEFINE ps == <<a, b, c>>
<1>3. Len(ps) = 3 /\ ps[1] = a /\ ps[2] = b /\ ps[3] = c
  OBVIOUS
<1>4. ps \in Seq(Piece)
  BY <1>2, Triple
<1> HIDE DEF ps
<1>5. ASSUME NEW s \in 1 .. 3
      PROVE  /\ ps[s].group = g
             /\ ps[s].at + ps[s].len = IF s = 3 THEN x + m + n + k ELSE ps[s + 1].at
  <2>1. CASE s = 1
    BY <1>1, <1>3, <2>1
  <2>2. CASE s = 2
    BY <1>1, <1>3, <2>2
  <2>3. CASE s = 3
    BY <1>1, <1>3, <2>3
  <2> QED BY <2>1, <2>2, <2>3
<1>6. ASSUME NEW y \in Int
      PROVE  (x <= y /\ y < x + m + n + k)
               <=> (within(y, a) \/ within(y, b) \/ within(y, c))
  BY <1>1 DEF within
<1>7. ASSUME NEW y \in Int
      PROVE  (within(y, a) \/ within(y, b) \/ within(y, c))
               <=> \E s \in 1 .. 3 : within(y, ps[s])
  <2>1. ASSUME NEW s \in 1 .. 3, within(y, ps[s])
        PROVE  within(y, a) \/ within(y, b) \/ within(y, c)
    <3>1. s = 1 \/ s = 2 \/ s = 3
      OBVIOUS
    <3> QED BY <1>3, <2>1, <3>1
  <2>2. 1 \in 1 .. 3 /\ 2 \in 1 .. 3 /\ 3 \in 1 .. 3
    OBVIOUS
  <2> QED BY <1>3, <2>1, <2>2, Zenon
<1>8. Tiles(ps, g, x, x + m + n + k)
  BY <1>1, <1>3, <1>4, <1>5, <1>6, <1>7 DEF Tiles
<1>9. Has(ps, u, x) /\ Has(ps, v, x + m) /\ Has(ps, w, x + m + n)
  BY <1>1, <1>3 DEF Has
<1> QED BY <1>8, <1>9 DEF ps

\* The same, of the sequence as write() has it.
LEMMA ThreeTile ==
    ASSUME NEW g \in Nat, NEW x \in Nat, NEW u \in Whats, NEW v \in Whats, NEW w \in Whats,
           NEW m \in Nat, NEW n \in Nat, NEW k \in Nat,
           NEW ps, ps = << piece(u, g, x, m), piece(v, g, x + m, n), piece(w, g, x + m + n, k) >>
    PROVE  /\ Tiles(ps, g, x, x + m + n + k)
           /\ Has(ps, u, x) /\ Has(ps, v, x + m) /\ Has(ps, w, x + m + n)
BY ThreeRecords, ZenonT(30)

\* Structures up to a block, and structures from there on, tile together.
LEMMA TilesJoined ==
    ASSUME NEW ps, NEW qs, NEW g, NEW x \in Int, NEW y \in Int, NEW z \in Int,
           x <= y, y <= z, Tiles(ps, g, x, y), Tiles(qs, g, y, z)
    PROVE  /\ Tiles(ps \o qs, g, x, z)
           /\ \A what, at : Has(ps, what, at) \/ Has(qs, what, at) <=> Has(ps \o qs, what, at)
<1>1. PICK rs : rs = ps \o qs
  OBVIOUS
<1>2. PICK m \in Nat : m = Len(ps) /\ m > 0
  BY LenProperties DEF Tiles
<1>3. PICK n \in Nat : n = Len(qs) /\ n > 0
  BY LenProperties DEF Tiles
<1>4. /\ rs \in Seq(Piece) /\ Len(rs) = m + n
      /\ \A i \in 1 .. m + n : rs[i] = IF i <= m THEN ps[i] ELSE qs[i - m]
  BY <1>1, <1>2, <1>3, ConcatProperties DEF Tiles
<1>5. \A s \in 1 .. m : s \in 1 .. m + n /\ rs[s] = ps[s]
  BY <1>4
<1>6. \A s \in 1 .. n : s + m \in 1 .. m + n /\ rs[s + m] = qs[s]
  BY <1>4
<1>7. \A s \in 1 .. m + n : s \in 1 .. m \/ (s - m \in 1 .. n /\ s = (s - m) + m)
  OBVIOUS
<1>8. ASSUME NEW s \in 1 .. m + n
      PROVE  /\ rs[s].group = g
             /\ rs[s].at + rs[s].len = IF s = m + n THEN z ELSE rs[s + 1].at
  <2>1. CASE s \in 1 .. m /\ s # m
    <3>1. s + 1 \in 1 .. m
      BY <2>1
    <3> QED BY <1>2, <1>3, <1>5, <2>1, <3>1 DEF Tiles
  <2>2. CASE s = m
    <3>1. 1 \in 1 .. n /\ 1 + m = s + 1 /\ s \in 1 .. m /\ s # m + n
      BY <1>2, <1>3, <2>2
    <3>2. rs[s + 1] = qs[1] /\ rs[s] = ps[s]
      BY <1>5, <1>6, <3>1
    <3> QED BY <1>2, <2>2, <3>1, <3>2 DEF Tiles
  <2>3. CASE s \notin 1 .. m
    <3>1. PICK i \in 1 .. n : s = i + m
      BY <1>7, <2>3
    <3>2. rs[s] = qs[i]
      BY <1>6, <3>1
    <3>3. CASE i = n
      BY <1>3, <3>1, <3>2, <3>3 DEF Tiles
    <3>4. CASE i # n
      <4>1. i + 1 \in 1 .. n /\ (i + 1) + m = s + 1 /\ s # m + n
        BY <3>1, <3>4
      <4>2. rs[s + 1] = qs[i + 1]
        BY <1>6, <4>1
      <4> QED BY <1>3, <3>1, <3>2, <3>4, <4>1, <4>2 DEF Tiles
    <3> QED BY <3>3, <3>4
  <2> QED BY <2>1, <2>2, <2>3
<1>9. rs[1].at = x
  <2>1. 1 \in 1 .. m
    BY <1>2
  <2> QED BY <1>5, <2>1 DEF Tiles
<1>10. ASSUME NEW b \in Int
       PROVE  (x <= b /\ b < z) <=> \E s \in 1 .. m + n : within(b, rs[s])
  <2>1. (x <= b /\ b < z) <=> (x <= b /\ b < y) \/ (y <= b /\ b < z)
    OBVIOUS
  <2>2. (x <= b /\ b < y) <=> \E s \in 1 .. m : within(b, ps[s])
    BY <1>2 DEF Tiles
  <2>3. (y <= b /\ b < z) <=> \E s \in 1 .. n : within(b, qs[s])
    BY <1>3 DEF Tiles
  <2>4. (\E s \in 1 .. m + n : within(b, rs[s]))
          <=> (\E s \in 1 .. m : within(b, ps[s])) \/ (\E s \in 1 .. n : within(b, qs[s]))
    BY <1>5, <1>6, <1>7
  <2> QED BY <2>1, <2>2, <2>3, <2>4
<1>11. Tiles(rs, g, x, z)
  BY <1>2, <1>3, <1>4, <1>8, <1>9, <1>10 DEF Tiles
<1>12. ASSUME NEW what, NEW at
       PROVE  Has(ps, what, at) \/ Has(qs, what, at) <=> Has(rs, what, at)
  <2>1. ASSUME NEW s \in 1 .. m + n, rs[s].what = what, rs[s].at = at
        PROVE  Has(ps, what, at) \/ Has(qs, what, at)
    <3>1. CASE s \in 1 .. m
      BY <1>2, <1>5, <2>1, <3>1 DEF Has
    <3>2. CASE s \notin 1 .. m
      <4>1. s - m \in 1 .. n /\ rs[s] = qs[s - m]
        BY <1>6, <1>7, <3>2
      <4> QED BY <1>3, <2>1, <4>1 DEF Has
    <3> QED BY <3>1, <3>2
  <2>2. Has(ps, what, at) => Has(rs, what, at)
    BY <1>2, <1>4, <1>5 DEF Has
  <2>3. Has(qs, what, at) => Has(rs, what, at)
    BY <1>3, <1>4, <1>6 DEF Has
  <2>4. Has(rs, what, at) => Has(ps, what, at) \/ Has(qs, what, at)
    BY <1>4, <2>1 DEF Has
  <2> QED BY <2>2, <2>3, <2>4
<1> QED BY <1>1, <1>11, <1>12

\* What write() emits for a group tiles it from its first block to its
\* dataStart, with each table at the block computeLayout has put it.
LEMMA PiecesTile ==
    ASSUME NEW l, Sound(l), NEW g \in 0 .. l.numGroups - 1
    PROVE  /\ Tiles(piecesOf(l, g), g, l.groups[g].firstBlock, l.groups[g].dataStart)
           /\ Has(piecesOf(l, g), "blockBitmap", l.groups[g].blockBitmap)
           /\ Has(piecesOf(l, g), "inodeBitmap", l.groups[g].inodeBitmap)
           /\ Has(piecesOf(l, g), "inodeTable", l.groups[g].inodeTable)
<1>1. PICK first : first = l.groups[g].firstBlock
  OBVIOUS
<1>2. PICK G : G = gdtBlocks(l.numGroups)
  OBVIOUS
<1>3. PICK R : R = reservedGDT(l.numGroups)
  OBVIOUS
<1>4. PICK T : T = l.groups[g].inodeTableBlocks
  OBVIOUS
<1>5. PICK J : J = l.journalSize
  OBVIOUS
<1>6. GroupSound(l, g)
  BY DEF Sound
<1>7. g \in Nat /\ first \in Nat /\ G \in Nat /\ R \in Nat /\ T \in Nat /\ J \in Nat /\ J > 0
  <2>1. g \in Nat
    BY DEF Sound
  <2>2. first \in Nat
    BY <1>1, <1>6, <2>1 DEF GroupSound, blocksPerGroup
  <2>3. T \in Nat
    BY <1>4, <1>6 DEF GroupSound
  <2>4. G \in Nat /\ R \in Nat /\ J \in Nat /\ J > 0
    BY <1>2, <1>3, <1>5 DEF Sound
  <2> QED BY <2>1, <2>2, <2>3, <2>4
<1>8. PICK x : x = front(l, g)
  OBVIOUS
<1>9. x \in Nat
  BY <1>2, <1>3, <1>7, <1>8 DEF front
<1>10. /\ l.groups[g].blockBitmap = first + x
       /\ l.groups[g].inodeBitmap = first + x + 1
       /\ l.groups[g].inodeTable = first + x + 1 + 1
       /\ tablesEnd(l, g) = first + x + 1 + 1 + T
  BY <1>1, <1>4, <1>6, <1>8 DEF GroupSound, tablesEnd
<1>11. /\ Tiles(tablesOf(l, g), g, first + x, first + x + 1 + 1 + T)
       /\ Has(tablesOf(l, g), "blockBitmap", first + x)
       /\ Has(tablesOf(l, g), "inodeBitmap", first + x + 1)
       /\ Has(tablesOf(l, g), "inodeTable", first + x + 1 + 1)
  <2>1. tablesOf(l, g) = << piece("blockBitmap", g, first + x, 1),
                            piece("inodeBitmap", g, first + x + 1, 1),
                            piece("inodeTable", g, first + x + 1 + 1, T) >>
    BY <1>4, <1>10 DEF tablesOf
  <2>2. first + x \in Nat /\ 1 \in Nat
    BY <1>7, <1>9
  <2>3. /\ "blockBitmap" \in Whats /\ "inodeBitmap" \in Whats /\ "inodeTable" \in Whats
    BY DEF Whats
  <2> QED BY <1>7, <2>1, <2>2, <2>3, ThreeTile, ZenonT(30)
<1>12. PICK ft : ft = frontOf(l, g) \o tablesOf(l, g)
  OBVIOUS
<1>13. /\ Tiles(ft, g, first, first + x + 1 + 1 + T)
       /\ Has(ft, "blockBitmap", first + x)
       /\ Has(ft, "inodeBitmap", first + x + 1)
       /\ Has(ft, "inodeTable", first + x + 1 + 1)
  <2>1. CASE l.groups[g].hasSB
    <3>1. frontOf(l, g) = << piece("super", g, first, 1), piece("gdt", g, first + 1, G),
                             piece("reserved", g, first + 1 + G, R) >>
      BY <1>1, <1>2, <1>3, <2>1 DEF frontOf
    <3>2. Tiles(frontOf(l, g), g, first, first + 1 + G + R)
      <4>1. "super" \in Whats /\ "gdt" \in Whats /\ "reserved" \in Whats /\ 1 \in Nat
        BY DEF Whats
      <4> QED BY <1>7, <3>1, <4>1, ThreeTile, ZenonT(30)
    <3>3. x = 1 + G + R
      BY <1>2, <1>3, <1>8, <2>1 DEF front
    <3>4. first + 1 + G + R = first + x
      BY <1>7, <3>3
    <3>5. PICK mid \in Int : mid = first + x
      BY <1>7, <1>9
    <3>6. PICK end \in Int : end = first + x + 1 + 1 + T
      BY <1>7, <1>9
    <3>7. first \in Int /\ first <= mid /\ mid <= end
      BY <1>7, <1>9, <3>5, <3>6
    <3>8. Tiles(frontOf(l, g), g, first, mid) /\ Tiles(tablesOf(l, g), g, mid, end)
      BY <1>11, <3>2, <3>4, <3>5, <3>6
    <3>9. /\ Tiles(ft, g, first, end)
          /\ \A what, at : Has(tablesOf(l, g), what, at) => Has(ft, what, at)
      BY <1>12, <3>7, <3>8, TilesJoined
    <3> QED BY <1>11, <3>6, <3>9
  <2>2. CASE ~l.groups[g].hasSB
    <3>1. frontOf(l, g) = << >> /\ x = 0
      BY <1>8, <2>2 DEF frontOf, front
    <3>2. tablesOf(l, g) \in Seq(Piece)
      BY <1>11 DEF Tiles
    <3>3. ft = tablesOf(l, g)
      BY <1>12, <3>1, <3>2, ConcatEmptySeq
    <3>4. first + x = first
      BY <1>7, <3>1
    <3> QED BY <1>11, <3>3, <3>4
  <2> QED BY <2>1, <2>2
<1>14. piecesOf(l, g) = ft \o filesOf(l, g)
  BY <1>12 DEF piecesOf
<1>15. CASE g # 0
  <2>1. filesOf(l, g) = << >>
    BY <1>15 DEF filesOf
  <2>2. ft \in Seq(Piece)
    BY <1>13 DEF Tiles
  <2>3. piecesOf(l, g) = ft
    BY <1>14, <2>1, <2>2, ConcatEmptySeq
  <2>4. l.groups[g].dataStart = first + x + 1 + 1 + T
    BY <1>6, <1>10, <1>15 DEF GroupSound
  <2> QED BY <1>1, <1>10, <1>13, <2>3, <2>4
<1>16. CASE g = 0
  <2>1. PICK mid \in Nat : mid = first + x + 1 + 1 + T
    BY <1>7, <1>9
  <2>2. /\ l.journalBlock = mid /\ l.rootDirBlock = mid + J /\ l.lfDirBlock = mid + J + 1
        /\ l.groups[g].dataStart = mid + J + 1 + 1
    BY <1>5, <1>10, <1>16, <2>1 DEF Sound
  <2>3. most(l.journalSize, 1) = J
    BY <1>5, <1>7 DEF most
  <2>4. filesOf(l, g) = << piece("journal", g, mid, J), piece("rootDir", g, mid + J, 1),
                           piece("lostFound", g, mid + J + 1, 1) >>
    BY <1>16, <2>2, <2>3 DEF filesOf
  <2>5. "journal" \in Whats /\ "rootDir" \in Whats /\ "lostFound" \in Whats /\ 1 \in Nat
    BY DEF Whats
  <2>6. Tiles(filesOf(l, g), g, mid, mid + J + 1 + 1)
    BY <1>7, <2>4, <2>5, ThreeTile, ZenonT(30)
  <2>7. PICK end \in Int : end = mid + J + 1 + 1
    BY <1>7
  <2>8. first \in Int /\ mid \in Int /\ first <= mid /\ mid <= end
    BY <1>7, <1>9, <2>1, <2>7
  <2>9. /\ Tiles(ft \o filesOf(l, g), g, first, end)
        /\ \A what, at : Has(ft, what, at) => Has(ft \o filesOf(l, g), what, at)
    BY <1>13, <2>1, <2>6, <2>7, <2>8, TilesJoined
  <2> QED BY <1>1, <1>10, <1>13, <1>14, <2>2, <2>7, <2>9
<1> QED BY <1>15, <1>16

-----------------------------------------------------------------------------
(***************************************************************************)
(* The invariant of write().                                               *)
(***************************************************************************)
emitted(l, g) == {piecesOf(l, g)[s] : s \in 1 .. Len(piecesOf(l, g))}

\* The position in the loop, and what is on the disk by then.
ProgressInv ==
    /\ grp \in 0 .. fs.numGroups /\ step \in Nat
    /\ IF grp = fs.numGroups THEN step = 0 ELSE step < Len(todo)
    /\ disk = (UNION {emitted(fs, g) : g \in 0 .. grp - 1}) \cup {todo[s] : s \in 1 .. step}

\* Inside a group the cursor is where the next structure begins.  Between groups
\* it is where the group before ends, or already padded to the next one.
CursorInv ==
    st = "writing" =>
        /\ cur \in Nat
        /\ step > 0 => cur = next.at
        /\ step = 0 /\ grp = 0 => cur = 0
        /\ step = 0 /\ grp > 0 => \/ cur = fs.groups[grp - 1].dataStart
                                  \/ ~allEmitted /\ cur = fs.groups[grp].firstBlock

FormatInv ==
    /\ Sound(fs)
    /\ ProgressInv
    /\ CursorInv
    /\ st \in {"writing", "ok", "past", "failed"}
    /\ st = "ok" => allEmitted
    /\ FormatsWhatFits

\* A group whose tables do not reach into the next one; only the last group may
\* be too short for its own.
LEMMA GroupEnds ==
    ASSUME NEW l, Sound(l), NEW g \in 0 .. l.numGroups - 1
    PROVE  /\ l.groups[g].firstBlock \in Nat /\ l.groups[g].dataStart \in Nat
           /\ l.groups[g].firstBlock <= l.groups[g].dataStart
           /\ g < l.numGroups - 1 => /\ l.groups[g].dataStart <= l.groups[g + 1].firstBlock
                                     /\ l.groups[g].dataStart <= l.groups[g].lastBlock + 1
           /\ l.groups[0].firstBlock = 0
           /\ l.groups[l.numGroups - 1].lastBlock = l.totalBlocks - 1
           /\ l.groups[g].dataStart - l.groups[g].firstBlock <= 32768
           /\ l.groups[g].lastBlock - l.groups[g].firstBlock + 1 <= 32768
<1>1. PICK n \in Nat : n = l.numGroups /\ n > 0
  BY DEF Sound
<1>2. PICK total \in Nat : total = l.totalBlocks
  BY DEF Sound
<1>3. (n - 1) * blocksPerGroup < total /\ total <= n * blocksPerGroup
  BY <1>1, <1>2 DEF Sound
<1>4. ASSUME NEW h \in 0 .. n - 1 PROVE GroupSound(l, h)
  BY <1>1, <1>4 DEF Sound
<1>5. g \in 0 .. n - 1 /\ g \in Nat
  BY <1>1
<1>6. PICK first : first = l.groups[g].firstBlock
  OBVIOUS
<1>7. PICK data : data = l.groups[g].dataStart
  OBVIOUS
<1>8. PICK tend : tend = tablesEnd(l, g)
  OBVIOUS
<1>9. first \in Nat /\ first = g * 32768
  BY <1>4, <1>5, <1>6 DEF GroupSound, blocksPerGroup
<1>10. tend \in Nat /\ first <= tend /\ tend <= (g + 1) * 32768
  <2>1. PICK x : x = front(l, g)
    OBVIOUS
  <2>2. x \in Nat
    BY <2>1 DEF front, Sound
  <2>3. PICK T \in Nat : T = l.groups[g].inodeTableBlocks
    BY <1>4, <1>5 DEF GroupSound
  <2>4. tend = first + x + 1 + 1 + T
    BY <1>4, <1>5, <1>6, <1>8, <2>1, <2>3 DEF GroupSound, tablesEnd
  <2>5. tend <= (g + 1) * 32768
    BY <1>4, <1>5, <1>8 DEF GroupSound, blocksPerGroup
  <2> QED BY <1>9, <2>2, <2>4, <2>5
<1>11. least((g + 1) * 32768, total) \in Nat /\ least((g + 1) * 32768, total) <= (g + 1) * 32768
  BY <1>5 DEF least
<1>12. l.groups[g].lastBlock + 1 = least((g + 1) * 32768, total)
  BY <1>2, <1>4, <1>5, <1>11 DEF GroupSound, blocksPerGroup
<1>13. data \in Nat /\ first <= data /\ data <= (g + 1) * 32768
  <2>1. CASE g # 0
    BY <1>4, <1>5, <1>7, <1>8, <1>10, <2>1 DEF GroupSound
  <2>2. CASE g = 0
    <3>1. PICK J \in Nat : J = l.journalSize
      BY DEF Sound
    <3>2. data = tend + J + 1 + 1
      BY <1>7, <1>8, <1>10, <2>2, <3>1 DEF Sound
    <3>3. data <= l.groups[g].lastBlock + 1
      BY <1>7, <2>2 DEF Sound
    <3>4. data \in Nat /\ first <= data
      BY <1>9, <1>10, <3>2
    <3>5. PICK e \in Nat : e = least((g + 1) * 32768, total)
      BY <1>11
    <3>6. data <= e /\ e <= (g + 1) * 32768
      BY <1>11, <1>12, <3>3, <3>5
    <3> QED BY <1>5, <3>4, <3>6
  <2> QED BY <2>1, <2>2
<1>14. ASSUME g < n - 1
       PROVE data <= l.groups[g + 1].firstBlock /\ data <= l.groups[g].lastBlock + 1
  <2>1. g + 1 \in 0 .. n - 1
    BY <1>5, <1>14
  <2>2. l.groups[g + 1].firstBlock = (g + 1) * 32768
    BY <1>4, <2>1 DEF GroupSound, blocksPerGroup
  <2>3. (g + 1) * 32768 <= total
    BY <1>3, <1>5, <1>14 DEF blocksPerGroup
  <2>4. least((g + 1) * 32768, total) = (g + 1) * 32768
    BY <1>5, <2>3 DEF least
  <2> QED BY <1>12, <1>13, <2>2, <2>4
<1>15. l.groups[0].firstBlock = 0
  <2>1. 0 \in 0 .. n - 1
    BY <1>1
  <2> QED BY <1>4, <2>1 DEF GroupSound, blocksPerGroup
<1>16. l.groups[n - 1].lastBlock = total - 1
  <2>1. n - 1 \in 0 .. n - 1
    BY <1>1
  <2>2. l.groups[n - 1].lastBlock = least((n - 1 + 1) * 32768, total) - 1
    BY <1>2, <1>4, <2>1 DEF GroupSound, blocksPerGroup
  <2>3. least((n - 1 + 1) * 32768, total) = total
    BY <1>3 DEF least, blocksPerGroup
  <2> QED BY <2>2, <2>3
<1>17. data - first <= 32768
  BY <1>5, <1>9, <1>13
<1>18. l.groups[g].lastBlock - first + 1 <= 32768
  <2>1. PICK last \in Nat : last = l.groups[g].lastBlock
    BY <1>4, <1>5 DEF GroupSound
  <2>2. last + 1 <= (g + 1) * 32768
    BY <1>11, <1>12, <2>1
  <2> QED BY <1>5, <1>9, <2>1, <2>2
<1> QED BY <1>1, <1>2, <1>6, <1>7, <1>9, <1>13, <1>14, <1>15, <1>16, <1>17, <1>18

\* Format begins with a sound layout and nothing written.
LEMMA FormatInitially ==
    ASSUME Init
    PROVE  FormatInv
<1>1. Sound(fs)
  BY InputsAssumption, LayoutSound DEF Init
<1>2. 0 \in 0 .. fs.numGroups - 1 /\ fs.numGroups # 0 /\ 0 \in 0 .. fs.numGroups
  BY <1>1 DEF Sound
<1>3. Len(piecesOf(fs, 0)) > 0
  BY <1>1, <1>2, PiecesTile DEF Tiles
<1>4. grp = 0 /\ step = 0 /\ cur = 0 /\ disk = {} /\ st = "writing"
  BY DEF Init
<1>5. UNION {emitted(fs, g) : g \in 0 .. grp - 1} = {}
  BY <1>4
<1>6. ProgressInv
  BY <1>2, <1>3, <1>4, <1>5 DEF ProgressInv, todo
<1>7. CursorInv
  BY <1>4 DEF CursorInv
<1>8. FormatsWhatFits
  BY <1>4 DEF FormatsWhatFits
<1> QED BY <1>1, <1>4, <1>6, <1>7, <1>8 DEF FormatInv

\* emit writes the next structure where computeLayout has put it, and leaves the
\* cursor where the one behind it begins, or at the end of the group.
LEMMA EmitKeeps ==
    ASSUME FormatInv, Emit
    PROVE  FormatInv'
<1>1. Sound(fs) /\ fs' = fs /\ st = "writing" /\ st' = st
  BY DEF FormatInv, Emit
<1>2. PICK n \in Nat : n = fs.numGroups /\ n > 0
  BY <1>1 DEF Sound
<1>3. grp \in 0 .. n - 1 /\ grp \in Nat /\ step \in Nat
  BY <1>2 DEF FormatInv, ProgressInv, Emit, allEmitted
<1>4. PICK ps : ps = todo
  OBVIOUS
<1>5. ps = piecesOf(fs, grp)
  BY <1>4 DEF todo
<1>6. Tiles(ps, grp, fs.groups[grp].firstBlock, fs.groups[grp].dataStart)
  BY <1>1, <1>2, <1>3, <1>5, PiecesTile
<1>7. PICK m \in Nat : m = Len(ps) /\ step < m
  <2>1. step < Len(ps)
    BY <1>2, <1>3, <1>4 DEF FormatInv, ProgressInv
  <2> QED BY <1>6, <2>1, LenProperties DEF Tiles
<1>8. step + 1 \in 1 .. m
  BY <1>3, <1>7
<1>9. PICK p : p = ps[step + 1]
  OBVIOUS
<1>10. p \in Piece
  BY <1>6, <1>7, <1>8, <1>9, ElementOfSeq DEF Tiles
<1>11. next = p
  BY <1>4, <1>9 DEF next
<1>12. cur = p.at /\ cur' = p.at + p.len
  BY <1>11 DEF Emit
<1>13. [p EXCEPT !.at = cur] = p
  BY <1>10, <1>12 DEF Piece
<1>14. disk' = disk \cup {p}
  BY <1>11, <1>13 DEF Emit
<1>15. cur' \in Nat
  BY <1>10, <1>12 DEF Piece
<1>16. disk = (UNION {emitted(fs, g) : g \in 0 .. grp - 1}) \cup {ps[s] : s \in 1 .. step}
  BY <1>4 DEF FormatInv, ProgressInv
<1>17. p.at + p.len = IF step + 1 = m THEN fs.groups[grp].dataStart ELSE ps[step + 1 + 1].at
  BY <1>6, <1>7, <1>8, <1>9 DEF Tiles
<1>18. CASE step + 1 < m
  <2>1. step' = step + 1 /\ grp' = grp
    BY <1>4, <1>7, <1>18 DEF Emit
  <2>2. todo' = ps
    BY <1>1, <1>5, <2>1 DEF todo
  <2>3. {ps[s] : s \in 1 .. step + 1} = {ps[s] : s \in 1 .. step} \cup {p}
    BY <1>3, <1>9
  <2>4. disk' = (UNION {emitted(fs, g) : g \in 0 .. grp - 1}) \cup {ps[s] : s \in 1 .. step + 1}
    BY <1>14, <1>16, <2>3
  <2>5. ProgressInv'
    BY <1>1, <1>2, <1>3, <1>7, <1>18, <2>1, <2>2, <2>4 DEF ProgressInv
  <2>6. next' = ps[step + 1 + 1]
    BY <2>1, <2>2 DEF next
  <2>7. cur' = next'.at
    BY <1>12, <1>17, <1>18, <2>6
  <2>8. step' > 0
    BY <1>3, <2>1
  <2>9. CursorInv'
    BY <1>15, <2>7, <2>8 DEF CursorInv
  <2> QED BY <1>1, <2>5, <2>9 DEF FormatInv, FormatsWhatFits
<1>19. CASE step + 1 = m
  <2>1. step' = 0 /\ grp' = grp + 1
    BY <1>4, <1>7, <1>19 DEF Emit
  <2>2. {ps[s] : s \in 1 .. step} \cup {p} = emitted(fs, grp)
    BY <1>3, <1>5, <1>7, <1>9, <1>19 DEF emitted
  <2>3. (UNION {emitted(fs, g) : g \in 0 .. grp - 1}) \cup emitted(fs, grp)
          = UNION {emitted(fs, g) : g \in 0 .. grp + 1 - 1}
    BY <1>3
  <2>4. disk' = UNION {emitted(fs, g) : g \in 0 .. grp + 1 - 1}
    BY <1>14, <1>16, <2>2, <2>3
  <2>6. grp' \in 0 .. n /\ (grp' = n \/ grp' \in 0 .. n - 1)
    BY <1>3, <2>1
  <2>7. grp' # n => 0 < Len(todo')
    <3>1. ASSUME grp' # n PROVE 0 < Len(piecesOf(fs, grp'))
      BY <1>1, <1>2, <2>6, <3>1, PiecesTile DEF Tiles
    <3> QED BY <1>1, <3>1 DEF todo
  <2>8. ProgressInv'
    <3>1. grp' \in 0 .. fs'.numGroups /\ step' \in Nat
      BY <1>1, <1>2, <2>1, <2>6
    <3>2. IF grp' = fs'.numGroups THEN step' = 0 ELSE step' < Len(todo')
      BY <1>1, <1>2, <2>1, <2>7
    <3>3. {todo'[s] : s \in 1 .. step'} = {}
      BY <2>1
    <3>4. UNION {emitted(fs', g) : g \in 0 .. grp' - 1} = disk'
      <4>1. grp' - 1 = grp + 1 - 1
        BY <1>3, <2>1
      <4>2. disk' = UNION {emitted(fs, g) : g \in 0 .. grp' - 1}
        BY <2>4, <4>1, Zenon
      <4> QED BY <1>1, <4>2, Zenon
    <3>5. disk' = (UNION {emitted(fs', g) : g \in 0 .. grp' - 1}) \cup {todo'[s] : s \in 1 .. step'}
      BY <3>3, <3>4
    <3> QED BY <3>1, <3>2, <3>5 DEF ProgressInv, emitted
  <2>9. cur' = fs'.groups[grp' - 1].dataStart
    BY <1>1, <1>3, <1>12, <1>17, <1>19, <2>1
  <2>10. CursorInv'
    BY <1>3, <1>15, <2>1, <2>9 DEF CursorInv
  <2> QED BY <1>1, <2>8, <2>10 DEF FormatInv, FormatsWhatFits
<1> QED BY <1>3, <1>7, <1>18, <1>19

\* A step that changes only the cursor or the outcome leaves layout and progress.
LEMMA SameProgress ==
    ASSUME FormatInv, UNCHANGED <<fs, grp, step, disk>>
    PROVE  Sound(fs') /\ ProgressInv'
<1>1. todo' = todo
  BY DEF todo
<1> QED BY <1>1 DEF FormatInv, ProgressInv

\* The cursor between two groups, and behind the last one.
LEMMA CursorBounds ==
    ASSUME FormatInv, st = "writing"
    PROVE  /\ ~allEmitted => cur <= next.at /\ next.at \in Nat
           /\ allEmitted => cur = lastGroup.dataStart
           /\ ~allEmitted /\ cur # next.at => step = 0 /\ next.at = fs.groups[grp].firstBlock
<1>1. Sound(fs)
  BY DEF FormatInv
<1>2. PICK n \in Nat : n = fs.numGroups /\ n > 0
  BY <1>1 DEF Sound
<1>3. grp \in 0 .. n /\ step \in Nat /\ (grp = n => step = 0) /\ (grp # n => step < Len(todo))
  BY <1>2 DEF FormatInv, ProgressInv
<1>4. CASE allEmitted
  <2>1. grp = n /\ step = 0 /\ grp > 0
    BY <1>2, <1>3, <1>4 DEF allEmitted
  <2> QED BY <1>2, <1>4, <2>1 DEF FormatInv, CursorInv, lastGroup
<1>5. CASE ~allEmitted
  <2>1. grp \in 0 .. n - 1 /\ grp # n
    BY <1>2, <1>3, <1>5 DEF allEmitted
  <2>2. Tiles(todo, grp, fs.groups[grp].firstBlock, fs.groups[grp].dataStart)
    BY <1>1, <1>2, <2>1, PiecesTile DEF todo
  <2>3. step + 1 \in 1 .. Len(todo)
    BY <1>3, <2>1, <2>2, LenProperties DEF Tiles
  <2>4. next \in Piece
    BY <2>2, <2>3, ElementOfSeq DEF Tiles, next
  <2>5. next.at \in Nat
    BY <2>4 DEF Piece
  <2>6. CASE step > 0
    BY <2>5, <2>6, <1>5 DEF FormatInv, CursorInv
  <2>7. CASE step = 0
    <3>1. next.at = fs.groups[grp].firstBlock
      BY <2>2, <2>7 DEF Tiles, next
    <3>2. CASE grp = 0
      <4>1. cur = 0
        BY <2>7, <3>2 DEF FormatInv, CursorInv
      <4> QED BY <1>5, <2>5, <2>7, <3>1, <4>1
    <3>3. CASE grp # 0
      <4>1. grp > 0 /\ grp - 1 \in 0 .. n - 1 /\ grp - 1 < n - 1 /\ grp - 1 + 1 = grp
        BY <2>1, <3>3
      <4>2. \/ cur = fs.groups[grp - 1].dataStart
            \/ cur = fs.groups[grp].firstBlock
        BY <2>7, <4>1 DEF FormatInv, CursorInv
      <4>3. /\ fs.groups[grp - 1].dataStart <= fs.groups[grp].firstBlock
            /\ fs.groups[grp].firstBlock \in Nat
        BY <1>1, <1>2, <2>1, <4>1, GroupEnds
      <4> QED BY <1>5, <2>5, <2>7, <3>1, <4>2, <4>3
    <3> QED BY <3>2, <3>3
  <2> QED BY <1>3, <2>6, <2>7
<1> QED BY <1>4, <1>5

\* Every step of write() keeps the invariant.
LEMMA FormatStep ==
    ASSUME FormatInv, [Next]_vars
    PROVE  FormatInv'
<1>1. CASE UNCHANGED vars
  <2>1. todo' = todo /\ next' = next /\ lastGroup' = lastGroup /\ (allEmitted' <=> allEmitted)
    BY <1>1 DEF vars, todo, next, lastGroup, allEmitted
  <2>2. Sound(fs') /\ ProgressInv'
    BY <1>1, SameProgress DEF vars
  <2> QED BY <1>1, <2>1, <2>2 DEF vars, FormatInv, CursorInv, FormatsWhatFits
<1>2. CASE Emit
  BY <1>2, EmitKeeps
<1>3. CASE Pad
  <2>1. /\ UNCHANGED <<fs, grp, step, disk>> /\ st = "writing" /\ st' = st
        /\ ~allEmitted /\ cur < next.at /\ cur' = next.at
    BY <1>3 DEF Pad
  <2>2. Sound(fs') /\ ProgressInv'
    BY <2>1, SameProgress
  <2>3. next' = next /\ todo' = todo /\ (allEmitted' <=> allEmitted)
    BY <2>1 DEF todo, next, allEmitted
  <2>4. cur # next.at
    <3>1. cur \in Nat
      BY <2>1 DEF FormatInv, CursorInv
    <3>2. next.at \in Nat
      BY <2>1, CursorBounds
    <3> QED BY <2>1, <3>1, <3>2
  <2>5. step = 0 /\ next.at = fs.groups[grp].firstBlock /\ next.at \in Nat
    BY <2>1, <2>4, CursorBounds
  <2>6. grp # 0
    <3>1. ASSUME grp = 0 PROVE FALSE
      <4>1. 0 \in 0 .. fs.numGroups - 1
        BY <2>1, <3>1 DEF FormatInv, Sound
      <4>2. fs.groups[0].firstBlock = 0
        BY <4>1, GroupEnds DEF FormatInv
      <4>3. cur = 0
        BY <2>1, <2>5, <3>1 DEF FormatInv, CursorInv
      <4> QED BY <2>4, <2>5, <3>1, <4>2, <4>3
    <3> QED BY <3>1
  <2>7. CursorInv'
    BY <2>1, <2>3, <2>5, <2>6 DEF CursorInv
  <2> QED BY <2>1, <2>2, <2>7 DEF FormatInv, FormatsWhatFits
<1>4. CASE PadPast
  <2>1. /\ UNCHANGED <<fs, grp, step, disk, cur>> /\ st = "writing" /\ st' = "past"
        /\ cur > (IF allEmitted THEN fs.totalBlocks ELSE next.at)
    BY <1>4 DEF PadPast
  <2>2. cur \in Nat
    BY <2>1 DEF FormatInv, CursorInv
  <2>3. allEmitted
    BY <2>1, <2>2, CursorBounds
  <2>4. lastGroup.dataStart > fs.totalBlocks
    BY <2>1, <2>3, CursorBounds
  <2>5. lastGroup' = lastGroup
    BY <2>1 DEF lastGroup
  <2>6. FormatsWhatFits'
    BY <2>1, <2>4, <2>5 DEF FormatsWhatFits
  <2> QED BY <2>1, <2>6, SameProgress DEF FormatInv, CursorInv
<1>5. CASE Finish
  <2>1. /\ UNCHANGED <<fs, grp, step, disk>> /\ st = "writing" /\ st' = "ok"
        /\ allEmitted /\ cur <= fs.totalBlocks
    BY <1>5 DEF Finish
  <2>2. lastGroup.dataStart <= fs.totalBlocks
    BY <2>1, CursorBounds
  <2>3. lastGroup' = lastGroup /\ allEmitted'
    BY <2>1 DEF lastGroup, allEmitted
  <2>4. FormatsWhatFits'
    BY <2>1, <2>2, <2>3 DEF FormatsWhatFits
  <2> QED BY <2>1, <2>3, <2>4, SameProgress DEF FormatInv, CursorInv
<1>6. CASE WriteFails
  <2>1. UNCHANGED <<fs, grp, step, disk>> /\ st' = "failed"
    BY <1>6 DEF WriteFails
  <2> QED BY <2>1, SameProgress DEF FormatInv, CursorInv, FormatsWhatFits
<1> QED BY <1>1, <1>2, <1>3, <1>4, <1>5, <1>6 DEF Next

-----------------------------------------------------------------------------
(***************************************************************************)
(* The theorems.                                                           *)
(***************************************************************************)

\* The invariant of write() holds throughout, for every layout computeLayout can
\* give it.
THEOREM FormatInvariant == Spec => []FormatInv
<1>1. Init => FormatInv
  BY FormatInitially
<1>2. FormatInv /\ [Next]_vars => FormatInv'
  BY FormatStep
<1> QED BY <1>1, <1>2, PTL DEF Spec

\* For every size and ratio: pad finds the cursor past its target only where the
\* last group is shorter than its own tables, and Format never returns nil then.
THEOREM FormatsCorrect == Spec => []FormatsWhatFits
<1>1. FormatInv => FormatsWhatFits
  BY DEF FormatInv
<1> QED BY <1>1, FormatInvariant, PTL
\* When everything is written, what the disk has of group g are the structures
\* write() emits for it.
LEMMA WrittenOfGroup ==
    ASSUME FormatInv, st = "ok", NEW g \in 0 .. fs.numGroups - 1
    PROVE  {p \in disk : p.group = g} = emitted(fs, g)
<1>1. Sound(fs) /\ allEmitted
  BY DEF FormatInv
<1>2. PICK n \in Nat : n = fs.numGroups
  BY <1>1 DEF Sound
<1>3. step = 0 /\ grp = n
  BY <1>1, <1>2 DEF FormatInv, ProgressInv, allEmitted
<1>4. disk = UNION {emitted(fs, h) : h \in 0 .. n - 1}
  <2>1. {todo[s] : s \in 1 .. step} = {}
    BY <1>3
  <2> QED BY <1>3, <2>1 DEF FormatInv, ProgressInv
<1>5. ASSUME NEW h \in 0 .. n - 1, NEW p \in emitted(fs, h) PROVE p.group = h
  <2>1. Tiles(piecesOf(fs, h), h, fs.groups[h].firstBlock, fs.groups[h].dataStart)
    BY <1>1, <1>2, PiecesTile
  <2> QED BY <1>5, <2>1 DEF Tiles, emitted
<1> QED BY <1>2, <1>4, <1>5, Zenon

\* A block of a group lies in a structure exactly when its bit is set.
LEMMA UsedInGroup ==
    ASSUME FormatInv, st = "ok", NEW g \in 0 .. fs.numGroups - 1,
           NEW b \in fs.groups[g].firstBlock .. fs.groups[g].lastBlock
    PROVE  (b - fs.groups[g].firstBlock \in buildBlockBitmap(fs, g))
              <=> \E p \in {q \in disk : q.group = g} : within(b, p)
<1>1. Sound(fs)
  BY DEF FormatInv
<1>2. GroupSound(fs, g)
  BY <1>1 DEF Sound
<1>3. PICK first \in Nat : first = fs.groups[g].firstBlock
  BY <1>1, GroupEnds
<1>4. PICK data \in Nat : data = fs.groups[g].dataStart /\ first <= data
  BY <1>1, <1>3, GroupEnds
<1>5. PICK last \in Nat : last = fs.groups[g].lastBlock /\ last - first + 1 <= 32768
  BY <1>1, <1>2, <1>3, GroupEnds DEF GroupSound
<1>6. b \in Int /\ first <= b /\ b <= last
  BY <1>3, <1>5
<1>7. (b - first \in buildBlockBitmap(fs, g)) <=> b < data
  <2>1. buildBlockBitmap(fs, g) = (0 .. least(data - first, 32768) - 1)
                                     \cup (last - first + 1 .. 32768 - 1)
    BY <1>3, <1>4, <1>5 DEF buildBlockBitmap, blocksPerGroup
  <2>2. b - first \notin last - first + 1 .. 32768 - 1
    BY <1>5, <1>6
  <2>3. (b - first \in 0 .. least(data - first, 32768) - 1) <=> b < data
    BY <1>4, <1>5, <1>6 DEF least
  <2> QED BY <2>1, <2>2, <2>3
<1>8. Tiles(piecesOf(fs, g), g, first, data)
  BY <1>1, <1>3, <1>4, PiecesTile
<1>9. (first <= b /\ b < data) <=> \E s \in 1 .. Len(piecesOf(fs, g)) : within(b, piecesOf(fs, g)[s])
  BY <1>6, <1>8 DEF Tiles
<1>10. b < data <=> \E p \in emitted(fs, g) : within(b, p)
  BY <1>6, <1>9, Zenon DEF emitted
<1> QED BY <1>3, <1>7, <1>10, WrittenOfGroup

\* For every size and ratio: after Format returned nil the block bitmap of every
\* group has the bits of exactly the blocks that write() has put a structure in.
THEOREM UsedExactlyCorrect == Spec => []UsedExactly
<1>1. FormatInv => UsedExactly
  BY UsedInGroup DEF UsedExactly
<1> QED BY <1>1, FormatInvariant, PTL
\* Splitting a counter into halves loses nothing of it.
LEMMA HalvesJoined ==
    ASSUME NEW k \in Nat
    PROVE  joined(halves(k)) = k
BY DEF joined, halves

\* The clear bits of a bitmap that is set at both ends are those in between.
LEMMA ClearBits ==
    ASSUME NEW i \in Nat, NEW j \in Nat, i <= blocksPerGroup, j <= blocksPerGroup,
           NEW bits, bits = (0 .. i - 1) \cup (j .. blocksPerGroup - 1)
    PROVE  clear(bits) = IF i < j THEN j - i ELSE 0
<1>1. PICK m \in Nat : m = blocksPerGroup
  BY DEF blocksPerGroup
<1>2. ASSUME NEW b \in 0 .. m - 1 PROVE b \notin bits <=> b \in i .. j - 1
  BY <1>1, <1>2
<1>3. ASSUME NEW b \in i .. j - 1 PROVE b \in 0 .. m - 1
  BY <1>1, <1>3
<1>4. {b \in 0 .. m - 1 : b \notin bits} = i .. j - 1
  BY <1>2, <1>3, Zenon
<1>5. Cardinality(i .. j - 1) = IF i > j - 1 THEN 0 ELSE j - 1 - i + 1
  BY FS_Interval
<1>6. clear(bits) = Cardinality(i .. j - 1)
  BY <1>1, <1>4, Zenon DEF clear
<1> QED BY <1>5, <1>6

\* The counters of a group are the clear bits of its bitmaps.
LEMMA GroupCounters ==
    ASSUME NEW l, Sound(l), NEW g \in 0 .. l.numGroups - 1
    PROVE  /\ l.groups[g].freeBlocks \in Nat /\ l.groups[g].freeInodes \in Nat
           /\ l.groups[g].freeBlocks = clear(buildBlockBitmap(l, g))
           /\ l.groups[g].freeInodes = clear(buildInodeBitmap(l, g))
<1>1. GroupSound(l, g) /\ g \in Nat
  BY DEF Sound
<1>2. PICK first \in Nat : first = l.groups[g].firstBlock
  BY GroupEnds
<1>3. PICK data \in Nat : data = l.groups[g].dataStart /\ first <= data
  BY <1>2, GroupEnds
<1>4. PICK last \in Nat : last = l.groups[g].lastBlock
  BY <1>1 DEF GroupSound
<1>5. first <= last /\ last - first + 1 <= 32768
  BY <1>1, <1>2, <1>4, GroupEnds DEF GroupSound
<1>6. PICK k \in Nat : k = l.inodesPerGrp /\ 16 <= k /\ k <= 32768
  BY DEF Sound, blocksPerGroup
<1>7. data - first <= 32768
  BY <1>2, <1>3, GroupEnds
<1>8. l.groups[g].freeBlocks = most(last + 1 - data, 0)
  BY <1>1, <1>3, <1>4 DEF GroupSound
<1>9. clear(buildBlockBitmap(l, g)) = IF data - first < last - first + 1
                                      THEN last - first + 1 - (data - first) ELSE 0
  <2>1. data - first \in Nat /\ last - first + 1 \in Nat
    BY <1>3, <1>5
  <2>2. buildBlockBitmap(l, g) = (0 .. data - first - 1)
                                    \cup (last - first + 1 .. blocksPerGroup - 1)
    <3>1. least(data - first, blocksPerGroup) = data - first
      BY <1>7, <2>1 DEF least, blocksPerGroup
    <3> QED BY <1>2, <1>3, <1>4, <3>1 DEF buildBlockBitmap
  <2>3. data - first <= blocksPerGroup /\ last - first + 1 <= blocksPerGroup
    BY <1>5, <1>7 DEF blocksPerGroup
  <2> QED BY <2>1, <2>2, <2>3, ClearBits
<1>10. l.groups[g].freeInodes = IF g = 0 THEN k - 11 ELSE k
  BY <1>1, <1>6, SMTT(30) DEF Sound, GroupSound, inoLostFound
<1>11. clear(buildInodeBitmap(l, g)) = IF g = 0 THEN k - 11 ELSE k
  <2>1. k <= blocksPerGroup
    BY <1>6 DEF blocksPerGroup
  <2>2. CASE g = 0
    <3>1. buildInodeBitmap(l, g) = (0 .. 11 - 1) \cup (k .. blocksPerGroup - 1)
      BY <1>6, <2>2 DEF buildInodeBitmap, inoLostFound
    <3>2. 11 <= blocksPerGroup
      BY DEF blocksPerGroup
    <3> QED BY <1>6, <2>1, <2>2, <3>1, <3>2, ClearBits
  <2>3. CASE g # 0
    <3>1. PICK z \in Nat : z = 0
      OBVIOUS
    <3>2. buildInodeBitmap(l, g) = (0 .. z - 1) \cup (k .. blocksPerGroup - 1)
      <4>1. (0 .. z - 1) = {}
        BY <3>1
      <4> QED BY <1>6, <2>3, <4>1 DEF buildInodeBitmap
    <3>3. z <= blocksPerGroup
      BY <3>1 DEF blocksPerGroup
    <3>4. clear(buildInodeBitmap(l, g)) = IF z < k THEN k - z ELSE 0
      BY <2>1, <3>2, <3>3, ClearBits
    <3> QED BY <1>6, <2>3, <3>1, <3>4
  <2> QED BY <2>2, <2>3
<1>12. l.groups[g].freeBlocks \in Nat /\ l.groups[g].freeBlocks = clear(buildBlockBitmap(l, g))
  BY <1>2, <1>3, <1>4, <1>8, <1>9 DEF most
<1> QED BY <1>6, <1>10, <1>11, <1>12

\* For every size and ratio: what Open reads of a volume that Format returned nil
\* for leads to its bitmaps, and all counters agree with them.
THEOREM OpensCorrect == Spec => []OpensConsistent
<1>1. ASSUME FormatInv, st = "ok" PROVE OpensConsistent
  <2>1. Sound(fs)
    BY <1>1 DEF FormatInv
  <2>2. PICK n \in Nat : n = fs.numGroups /\ DOMAIN fs.groups = 0 .. n - 1
    BY <2>1 DEF Sound
  <2>3. PICK gdt : gdt = readGroupDescriptors(fs)
    OBVIOUS
  <2>4. PICK sb : sb = buildSuperblock(fs)
    OBVIOUS
  <2>5. groupCount(buildSuperblock(fs)) = n
    BY <2>1, <2>2 DEF groupCount, buildSuperblock, Sound
  <2>6. gdt = [g \in 0 .. n - 1 |-> encodeGDE(fs, g)]
    BY <2>3, <2>5 DEF readGroupDescriptors
  <2>7. ASSUME NEW g \in 0 .. n - 1
        PROVE  /\ joined(gdt[g].freeBlocks) = fs.groups[g].freeBlocks
               /\ joined(gdt[g].freeInodes) = fs.groups[g].freeInodes
               /\ fs.groups[g].freeBlocks = clear(buildBlockBitmap(fs, g))
               /\ fs.groups[g].freeInodes = clear(buildInodeBitmap(fs, g))
    <3>1. /\ gdt[g].freeBlocks = halves(fs.groups[g].freeBlocks)
          /\ gdt[g].freeInodes = halves(fs.groups[g].freeInodes)
      BY <2>6 DEF encodeGDE
    <3>2. fs.groups[g].freeBlocks \in Nat /\ fs.groups[g].freeInodes \in Nat
      BY <2>1, <2>2, GroupCounters
    <3>3. /\ joined(gdt[g].freeBlocks) = fs.groups[g].freeBlocks
          /\ joined(gdt[g].freeInodes) = fs.groups[g].freeInodes
      BY <3>1, <3>2, HalvesJoined
    <3> QED BY <2>1, <2>2, <3>3, GroupCounters
  <2>8. ASSUME NEW g \in 0 .. n - 1, NEW what, NEW at, Has(piecesOf(fs, g), what, at)
        PROVE  \E p \in disk : p.what = what /\ p.group = g /\ p.at = at
    <3>1. PICK p \in emitted(fs, g) : p.what = what /\ p.at = at
      BY <2>8 DEF Has, emitted
    <3>2. p \in disk /\ p.group = g
      BY <1>1, <2>2, <3>1, WrittenOfGroup
    <3> QED BY <3>1, <3>2
  <2>9. ASSUME NEW g \in 0 .. n - 1
        PROVE  /\ \E p \in disk : p.what = "blockBitmap" /\ p.group = g /\ p.at = gdt[g].blockBitmap
               /\ \E p \in disk : p.what = "inodeBitmap" /\ p.group = g /\ p.at = gdt[g].inodeBitmap
               /\ \E p \in disk : p.what = "inodeTable" /\ p.group = g /\ p.at = gdt[g].inodeTable
    <3>1. /\ gdt[g].blockBitmap = fs.groups[g].blockBitmap
          /\ gdt[g].inodeBitmap = fs.groups[g].inodeBitmap
          /\ gdt[g].inodeTable = fs.groups[g].inodeTable
      BY <2>6 DEF encodeGDE
    <3>2. /\ Has(piecesOf(fs, g), "blockBitmap", gdt[g].blockBitmap)
          /\ Has(piecesOf(fs, g), "inodeBitmap", gdt[g].inodeBitmap)
          /\ Has(piecesOf(fs, g), "inodeTable", gdt[g].inodeTable)
      BY <2>1, <2>2, <3>1, PiecesTile
    <3> QED BY <2>8, <3>2
  <2>10. /\ sb.freeBlocks = sumOf([g \in 0 .. n - 1 |-> fs.groups[g].freeBlocks])
         /\ sb.freeInodes = sumOf([g \in 0 .. n - 1 |-> fs.groups[g].freeInodes])
    BY <2>2, <2>4 DEF buildSuperblock
  <2>11. /\ [g \in 0 .. n - 1 |-> fs.groups[g].freeBlocks]
               = [g \in 0 .. n - 1 |-> joined(gdt[g].freeBlocks)]
         /\ [g \in 0 .. n - 1 |-> fs.groups[g].freeInodes]
               = [g \in 0 .. n - 1 |-> joined(gdt[g].freeInodes)]
    BY <2>7
  <2>12. DOMAIN gdt = 0 .. n - 1
    BY <2>6
  <2>13. /\ sb.freeBlocks = sumOf([g \in DOMAIN gdt |-> joined(gdt[g].freeBlocks)])
         /\ sb.freeInodes = sumOf([g \in DOMAIN gdt |-> joined(gdt[g].freeInodes)])
    BY <2>10, <2>11, <2>12
  <2> QED BY <2>2, <2>3, <2>4, <2>7, <2>9, <2>12, <2>13, SMTT(30) DEF OpensConsistent
<1>2. FormatInv => OpensConsistent
  <2>1. st # "ok" => OpensConsistent
    BY DEF OpensConsistent
  <2> QED BY <1>1, <2>1
<1> QED BY <1>2, FormatInvariant, PTL

-----------------------------------------------------------------------------
(***************************************************************************)
(* The groups with a backup.  The loop of hasSuperBackup ends because it   *)
(* multiplies; it ends at g itself exactly when every factor of g is a     *)
(* multiple of the prime it multiplies by.  Induction over the numbers is  *)
(* replaced throughout by the least element of a set of counterexamples.   *)
(***************************************************************************)

\* A non-empty set of naturals has a least element.
LEMMA NatMin ==
    ASSUME NEW T, T \subseteq Nat, T # {}
    PROVE  \E x \in T : \A y \in T : x <= y
<1> DEFINE R == OpToRel(<, Nat)
<1>1. IsWellFoundedOn(R, Nat)
  BY NatLessThanWellFounded
<1>2. \E x \in T : \A y \in T : ~(<<y, x>> \in R)
  <2> HIDE DEF R
  <2> QED BY <1>1, WFMin
<1>3. \A x, y \in T : ~(<<y, x>> \in R) => x <= y
  BY DEF OpToRel
<1> QED
  BY <1>2, <1>3

\* a is a multiple of d.
Multiple(a, d) == \E k \in Nat : a = d * k

\* Quotient and remainder.
LEMMA Division ==
    ASSUME NEW a \in Nat, NEW d \in Nat, d > 0
    PROVE  \E q \in Nat, m \in Nat : m = a % d /\ a = d * q + m /\ m < d
<1>1. PICK q \in Nat, m \in Nat : q = a \div d /\ m = a % d /\ a = d * q + m /\ m < d
  BY Z3
<1> QED BY <1>1

\* A remainder of 0 says so.
LEMMA Remainder ==
    ASSUME NEW a \in Nat, NEW d \in Nat, d > 0
    PROVE  (a % d = 0) <=> Multiple(a, d)
<1>1. PICK q \in Nat, m \in Nat : m = a % d /\ a = d * q + m /\ m < d
  BY Division
<1>2. ASSUME m = 0 PROVE Multiple(a, d)
  BY <1>1, <1>2 DEF Multiple
<1>3. ASSUME NEW k \in Nat, a = d * k PROVE m = 0
  <2>1. PICK j \in Int : j = k - q
    OBVIOUS
  <2>2. d * j = m
    <3>1. d * j = d * (k - q)
      BY <2>1
    <3>2. d * (k - q) = d * k - d * q
      OBVIOUS
    <3>3. PICK u \in Nat, v \in Nat : u = d * k /\ v = d * q
      OBVIOUS
    <3>4. d * j = u - v
      BY <3>1, <3>2, <3>3
    <3>5. u = v + m
      BY <1>1, <1>3, <3>3
    <3> QED BY <3>4, <3>5
  <2>3. j >= 1 => d * j >= d
    BY SMT
  <2>4. j <= -1 => d * j < 0
    BY SMT
  <2>5. j = 0
    BY <1>1, <2>2, <2>3, <2>4
  <2> QED BY <2>2, <2>5
<1> QED BY <1>1, <1>2, <1>3 DEF Multiple

\* The factors of the loop are primes, in terms of remainders.
LEMMA Residues ==
    ASSUME NEW b \in {3, 5, 7}, NEW r \in Nat, 1 <= r, r < b, NEW t \in Nat, t < b,
           NEW z \in Int, r * t = b * z
    PROVE  t = 0
<1>1. r = 1 \/ r = 2 \/ r = 3 \/ r = 4 \/ r = 5 \/ r = 6
  OBVIOUS
<1>2. CASE b = 3
  <2>1. CASE r = 1
    BY <1>2, <2>1
  <2>2. CASE r = 2
    BY <1>2, <2>2
  <2> QED BY <1>1, <1>2, <2>1, <2>2
<1>3. CASE b = 5
  <2>1. CASE r = 1
    BY <1>3, <2>1
  <2>2. CASE r = 2
    BY <1>3, <2>2
  <2>3. CASE r = 3
    BY <1>3, <2>3
  <2>4. CASE r = 4
    BY <1>3, <2>4
  <2> QED BY <1>1, <1>3, <2>1, <2>2, <2>3, <2>4
<1>4. CASE b = 7
  <2>1. CASE r = 1
    BY <1>4, <2>1
  <2>2. CASE r = 2
    BY <1>4, <2>2
  <2>3. CASE r = 3
    BY <1>4, <2>3
  <2>4. CASE r = 4
    BY <1>4, <2>4
  <2>5. CASE r = 5
    BY <1>4, <2>5
  <2>6. CASE r = 6
    BY <1>4, <2>6
  <2> QED BY <1>1, <2>1, <2>2, <2>3, <2>4, <2>5, <2>6
<1> QED BY <1>2, <1>3, <1>4

\* If b divides a product, it divides one of the factors.
LEMMA Prime ==
    ASSUME NEW b \in {3, 5, 7}, NEW d \in Nat, NEW k \in Nat, NEW y \in Nat, d * k = b * y
    PROVE  Multiple(d, b) \/ Multiple(k, b)
<1>1. b \in Nat /\ b > 0
  OBVIOUS
<1>2. PICK q \in Nat, r \in Nat : d = b * q + r /\ r < b
  BY <1>1, Division
<1>3. PICK s \in Nat, t \in Nat : k = b * s + t /\ t < b
  BY <1>1, Division
<1>4. CASE r = 0
  BY <1>2, <1>4 DEF Multiple
<1>5. CASE r # 0
  <2> DEFINE z == y - q * k - r * s
  <2>1. z \in Int
    OBVIOUS
  <2>2. r * t = b * z
    <3>1. d * k = b * (q * k) + r * k
      BY <1>1, <1>2
    <3>2. r * k = b * (r * s) + r * t
      BY <1>1, <1>3
    <3>3. b * z = b * y - b * (q * k) - b * (r * s)
      BY <1>1
    <3> QED BY <1>1, <3>1, <3>2, <3>3
  <2> HIDE DEF z
  <2>3. t = 0
    BY <1>2, <1>3, <1>5, <2>1, <2>2, Residues
  <2> QED BY <1>1, <1>3, <2>3 DEF Multiple
<1> QED BY <1>4, <1>5

\* Every divisor of x other than 1 is a multiple of b.
OnlyFactor(b, x) == \A d \in Nat : d >= 2 /\ Multiple(x, d) => Multiple(d, b)

\* A prime has itself only.
LEMMA OnlyItself ==
    ASSUME NEW b \in {3, 5, 7}
    PROVE  OnlyFactor(b, b)
<1> SUFFICES ASSUME NEW d \in Nat, d >= 2, NEW k \in Nat, b = d * k PROVE d = b
  <2>1. \A d \in Nat : d = b => Multiple(d, b)
    <3>1. b = b * 1 /\ 1 \in Nat
      OBVIOUS
    <3> QED BY <3>1 DEF Multiple
  <2> QED BY <2>1 DEF OnlyFactor, Multiple
<1>1. k = 0 \/ k = 1 \/ k = 2 \/ k = 3 \/ k >= 4
  OBVIOUS
<1>2. k # 0
  <2>1. k = 0 => d * k = 0
    OBVIOUS
  <2> QED BY <2>1
<1>3. k < 4
  <2>1. k >= 4 => d * k >= 8
    BY SMT
  <2> QED BY <2>1
<1>4. (k # 2 /\ k # 3) \/ d = b
  <2>1. CASE k = 2
    BY <2>1
  <2>2. CASE k = 3
    BY <2>2
  <2>3. CASE k # 2 /\ k # 3
    BY <2>3
  <2> QED BY <2>1, <2>2, <2>3
<1>5. k = 1 => d = b
  OBVIOUS
<1> QED BY <1>1, <1>2, <1>3, <1>4, <1>5

\* The loop multiplies by b, which adds no other factor.
LEMMA OnlyTimes ==
    ASSUME NEW b \in {3, 5, 7}, NEW y \in Nat, OnlyFactor(b, y)
    PROVE  OnlyFactor(b, y * b)
<1> SUFFICES ASSUME NEW d \in Nat, d >= 2, NEW k \in Nat, y * b = d * k PROVE Multiple(d, b)
  BY DEF OnlyFactor, Multiple
<1>1. Multiple(d, b) \/ Multiple(k, b)
  <2>1. d * k = b * y
    OBVIOUS
  <2> QED BY <2>1, Prime
<1>2. CASE Multiple(k, b)
  <2>1. PICK j \in Nat : k = b * j
    BY <1>2 DEF Multiple
  <2>2. b * y = b * (d * j)
    <3>1. d * k = b * (d * j)
      BY <2>1
    <3> QED BY <3>1
  <2>3. y = d * j
    <3>1. PICK m \in Nat : m = d * j
      OBVIOUS
    <3>2. b * y = b * m
      BY <2>2, <3>1
    <3>3. y = m
      BY <3>2
    <3> QED BY <3>1, <3>3
  <2> QED BY <2>3 DEF OnlyFactor, Multiple
<1> QED BY <1>1, <1>2

\* What holds at 0 and is kept by each of n steps holds after all of them.
LEMMA Upward ==
    ASSUME NEW n \in Nat, NEW S, 0 \in S,
           \A k \in 1..n : k - 1 \in S => k \in S
    PROVE  \A k \in 0..n : k \in S
<1> DEFINE bad == {k \in 0..n : k \notin S}
<1>1. SUFFICES ASSUME bad # {} PROVE FALSE
  OBVIOUS
<1>2. bad \subseteq Nat
  OBVIOUS
<1>3. PICK k \in bad : \A j \in bad : k <= j
  BY <1>1, <1>2, NatMin
<1>4. k \in 1..n /\ k - 1 \in 0..n
  BY <1>3
<1>5. k - 1 \in S
  BY <1>3, <1>4
<1> QED
  BY <1>3, <1>4, <1>5

\* What the loop of hasSuperBackup makes of x, in terms of what it makes of x * b.
Loops(f, b, g, x) == f[x] = IF x < g THEN f[x * b] ELSE x

\* The function that hasSuperBackup defines.
GrownOf(b, g) == CHOOSE f : f = [x \in 1 .. (7 * g) |-> IF x < g THEN f[x * b] ELSE x]

\* The loop ends, whatever it begins with: it has a function.
LEMMA GrownLoop ==
    ASSUME NEW g \in Nat, g >= 2, NEW b \in {3, 5, 7}
    PROVE  \A x \in 1 .. (7 * g) : Loops(GrownOf(b, g), b, g, x)
<1>1. PICK n \in Nat : n = 7 * g
  OBVIOUS
<1>2. \A x \in 1..n : x < g => x * b \in Int /\ x < x * b /\ x * b <= n
  BY <1>1
<1> DEFINE S == {k \in 0..n : \E f : \A x \in (n - k + 1)..n : Loops(f, b, g, x)}
<1>3. 0 \in S
  <2>1. (n - 0 + 1)..n = {}
    OBVIOUS
  <2>2. 0 \in 0..n
    OBVIOUS
  <2> QED BY <2>1, <2>2
<1>4. ASSUME NEW k \in 1..n, k - 1 \in S PROVE k \in S
  <2>1. PICK f : \A x \in (n - (k - 1) + 1)..n : Loops(f, b, g, x)
    BY <1>4
  <2>2. PICK m \in 1..n : m = n - k + 1
    OBVIOUS
  <2> DEFINE h == [x \in m..n |-> IF x = m THEN IF m < g THEN f[m * b] ELSE m ELSE f[x]]
  <2>3. ASSUME NEW x \in m..n PROVE Loops(h, b, g, x)
    <3>0. x \in 1..n
      BY <2>2
    <3>1. x < g => x * b \in m..n /\ x * b # m
      BY <1>2, <2>2, <3>0
    <3>2. x < g => h[x * b] = f[x * b]
      BY <3>1
    <3>3. CASE x = m
      BY <3>2, <3>3 DEF Loops
    <3>4. CASE x # m
      <4>1. x \in (n - (k - 1) + 1)..n
        BY <2>2, <3>4
      <4>2. Loops(f, b, g, x)
        BY <2>1, <4>1
      <4>3. h[x] = f[x]
        BY <3>4
      <4> HIDE DEF h
      <4> QED BY <3>2, <4>2, <4>3 DEF Loops
    <3> QED BY <3>3, <3>4
  <2> HIDE DEF h
  <2>4. \A x \in (n - k + 1)..n : Loops(h, b, g, x)
    BY <2>2, <2>3
  <2>5. k \in 0..n
    OBVIOUS
  <2> QED BY <2>4, <2>5
<1>5. n \in S
  <2> HIDE DEF S
  <2>1. \A k \in 0..n : k \in S
    BY <1>3, <1>4, Upward
  <2> QED BY <2>1
<1>6. PICK f : \A x \in (n - n + 1)..n : Loops(f, b, g, x)
  BY <1>5
<1> DEFINE h == [x \in 1..n |-> f[x]]
<1>7. ASSUME NEW x \in 1..n PROVE h[x] = IF x < g THEN h[x * b] ELSE x
  <2>1. Loops(f, b, g, x)
    <3>1. x \in (n - n + 1)..n
      OBVIOUS
    <3> QED BY <1>6, <3>1
  <2>2. x < g => x * b \in 1..n
    BY <1>2
  <2> QED BY <2>1, <2>2 DEF Loops
<1>8. h = [x \in 1..n |-> IF x < g THEN h[x * b] ELSE x]
  BY <1>7
<1> HIDE DEF h
<1> DEFINE w == GrownOf(b, g)
<1>9. w = [x \in 1..n |-> IF x < g THEN w[x * b] ELSE x]
  BY <1>1, <1>8, Zenon DEF GrownOf
<1> HIDE DEF w
<1>10. \A x \in 1..n : Loops(w, b, g, x)
  BY <1>9 DEF Loops
<1> QED BY <1>1, <1>10 DEF w

\* powerOf in terms of factors.
LEMMA PowerFactors ==
    ASSUME NEW g \in Nat, g >= 2, NEW b \in {3, 5, 7}
    PROVE  powerOf(b, g) <=> OnlyFactor(b, g)
<1>1. b \in Nat /\ b > 0
  OBVIOUS
<1>2. ASSUME NEW d \in Nat, d >= 2
      PROVE  (g % d = 0 <=> Multiple(g, d)) /\ (d % b = 0 <=> Multiple(d, b))
  BY <1>1, <1>2, Remainder
<1>3. ASSUME NEW d \in Nat, d >= 2, Multiple(g, d) PROVE d <= g
  <2>1. PICK k \in Nat : g = d * k
    BY <1>3 DEF Multiple
  <2>2. k # 0
    <3>1. k = 0 => d * k = 0
      OBVIOUS
    <3> QED BY <2>1, <3>1
  <2>3. k >= 1 => d * k >= d
    BY SMT
  <2> QED BY <2>1, <2>2, <2>3
<1>4. ASSUME powerOf(b, g) PROVE OnlyFactor(b, g)
  <2> SUFFICES ASSUME NEW d \in Nat, d >= 2, Multiple(g, d) PROVE Multiple(d, b)
    BY DEF OnlyFactor
  <2>1. d \in 2 .. g
    BY <1>3
  <2> QED BY <1>2, <1>4, <2>1 DEF powerOf
<1>5. ASSUME OnlyFactor(b, g) PROVE powerOf(b, g)
  <2> SUFFICES ASSUME NEW d \in 2 .. g, g % d = 0 PROVE d % b = 0
    BY DEF powerOf
  <2>1. d \in Nat /\ d >= 2
    OBVIOUS
  <2> QED BY <1>2, <1>5, <2>1 DEF OnlyFactor
<1> QED BY <1>4, <1>5

\* A power of b is where the loop ends: its smallest factor that leads there is b.
LEMMA PowersReached ==
    ASSUME NEW g \in Nat, g >= 2, NEW b \in {3, 5, 7}, OnlyFactor(b, g)
    PROVE  GrownOf(b, g)[b] = g
<1> DEFINE f == GrownOf(b, g)
           D == {x \in 1 .. g : Multiple(x, b) /\ Multiple(g, x) /\ f[x] = g}
<1>1. \A x \in 1 .. (7 * g) : f[x] = IF x < g THEN f[x * b] ELSE x
  BY GrownLoop DEF Loops
<1> HIDE DEF f
<1>2. g = g * 1 /\ 1 \in Nat
  OBVIOUS
<1>3. Multiple(g, g)
  BY <1>2 DEF Multiple
<1>4. g \in D
  <2>1. Multiple(g, b)
    BY <1>3 DEF OnlyFactor
  <2>2. g \in 1 .. (7 * g) /\ g \in 1 .. g
    OBVIOUS
  <2>3. f[g] = g
    BY <1>1, <2>2
  <2> QED BY <1>3, <2>1, <2>2, <2>3
<1>5. PICK x \in D : \A y \in D : x <= y
  <2>1. D \subseteq Nat /\ D # {}
    BY <1>4
  <2> HIDE DEF D
  <2> QED BY <2>1, NatMin
<1>6. PICK y \in Nat : x = b * y
  BY <1>5 DEF Multiple
<1>7. x \in Nat /\ 1 <= x /\ x <= g /\ 1 <= y /\ y < x
  BY <1>5, <1>6
<1>8. CASE y = 1
  BY <1>5, <1>6, <1>8 DEF f
<1>9. CASE y >= 2
  <2>1. Multiple(g, y)
    <3>1. PICK k \in Nat : g = x * k
      BY <1>5 DEF Multiple
    <3>2. x * k = y * (b * k) /\ b * k \in Nat
      BY <1>6
    <3> QED BY <3>1, <3>2 DEF Multiple
  <2>2. Multiple(y, b)
    BY <1>9, <2>1 DEF OnlyFactor
  <2>3. y \in 1 .. (7 * g) /\ y \in 1 .. g /\ y < g
    BY <1>7
  <2>4. y * b = x
    BY <1>6
  <2>5. f[y] = g
    BY <1>1, <1>5, <2>3, <2>4
  <2>6. y \in D
    BY <2>1, <2>2, <2>3, <2>5
  <2> QED BY <1>5, <1>7, <2>6
<1> QED BY <1>7, <1>8, <1>9

\* What the loop ends at exactly is a power of b: so is the largest number below
\* that leads there.
LEMMA ReachedPowers ==
    ASSUME NEW g \in Nat, g >= 2, NEW b \in {3, 5, 7}, GrownOf(b, g)[b] = g
    PROVE  OnlyFactor(b, g)
<1> DEFINE f == GrownOf(b, g)
           D == {e \in 0 .. g : f[g - e] = g /\ OnlyFactor(b, g - e) /\ g - e >= 1}
<1>1. \A x \in 1 .. (7 * g) : f[x] = IF x < g THEN f[x * b] ELSE x
  BY GrownLoop DEF Loops
<1>2. f[b] = g
  OBVIOUS
<1> HIDE DEF f
<1>3. b <= g
  <2>1. b \in 1 .. (7 * g)
    OBVIOUS
  <2> QED BY <1>1, <1>2, <2>1
<1>4. g - b \in D
  <2>1. g - b \in 0 .. g /\ g - (g - b) = b
    BY <1>3
  <2> QED BY <1>2, <2>1, OnlyItself
<1>5. PICK e \in D : \A h \in D : e <= h
  <2>1. D \subseteq Nat
    OBVIOUS
  <2> HIDE DEF D
  <2>2. D # {}
    BY <1>4
  <2> QED BY <2>1, <2>2, NatMin
<1>6. PICK x \in Nat : x = g - e /\ 1 <= x /\ x <= g /\ f[x] = g /\ OnlyFactor(b, x)
  BY <1>5
<1>7. CASE x < g
  <2>1. PICK z \in Nat : z = x * b /\ x < z /\ z <= 7 * g
    BY <1>6, <1>7
  <2>2. f[z] = g
    <3>1. x \in 1 .. (7 * g)
      BY <1>6
    <3> QED BY <1>1, <1>6, <1>7, <2>1, <3>1
  <2>3. z <= g
    <3>1. z \in 1 .. (7 * g)
      BY <2>1
    <3> QED BY <1>1, <2>1, <2>2, <3>1
  <2>4. OnlyFactor(b, z)
    BY <1>6, <2>1, OnlyTimes
  <2>5. g - z \in 0 .. g /\ g - (g - z) = z /\ z >= 1
    BY <2>1, <2>3
  <2>6. g - z \in D
    BY <2>2, <2>4, <2>5
  <2>7. g - z < e
    BY <1>6, <2>1, <2>3, <1>5
  <2> QED BY <1>5, <2>6, <2>7
<1> QED BY <1>6, <1>7

\* hasSuperBackup is the sparse_super rule.
LEMMA BackupGroups ==
    ASSUME NEW g \in Nat
    PROVE  hasSuperBackup(g) <=> g <= 1 \/ \E p \in {3, 5, 7} : powerOf(p, g)
<1>1. CASE g <= 1
  BY <1>1 DEF hasSuperBackup
<1>2. CASE g >= 2
  <2>1. hasSuperBackup(g) <=> \E b \in {3, 5, 7} : GrownOf(b, g)[b] = g
    <3>1. ~(g <= 1)
      BY <1>2
    <3> QED BY <3>1, Zenon DEF hasSuperBackup, GrownOf
  <2>2. ASSUME NEW b \in {3, 5, 7} PROVE GrownOf(b, g)[b] = g <=> powerOf(b, g)
    BY <1>2, PowersReached, ReachedPowers, PowerFactors
  <2>3. ~(g <= 1)
    BY <1>2
  <2> QED BY <2>1, <2>2, <2>3, Zenon
<1> QED BY <1>1, <1>2

-----------------------------------------------------------------------------
\* The layout says of every group what hasSuperBackup says of it.
BackupsInv ==
    \A g \in 0 .. fs.numGroups - 1 : fs.groups[g].hasSB <=> hasSuperBackup(g)

\* computeLayout asks hasSuperBackup for every group, and placing the journal and
\* the directories in group 0 leaves the answer.
LEMMA LayoutBackups ==
    ASSUME NEW size \in Nat, size >= 16 * 1024,
           size \div (blockSize * blocksPerGroup) < groupLimit, NEW ratio \in Nat \ {0},
           NEW l, l = computeLayout(size, ratio), NEW g \in 0 .. l.numGroups - 1
    PROVE  l.groups[g].hasSB <=> hasSuperBackup(g)
<1>1. PICK total : total = size \div blockSize
  OBVIOUS
<1>2. PICK n : n = ceilDiv(total, blocksPerGroup)
  OBVIOUS
<1>3. n \in Nat \ {0}
  BY <1>1, <1>2, GroupBounds
<1>4. PICK inodes : inodes = inodesPerGrp(size, ratio, n)
  OBVIOUS
<1>5. PICK G : G = [h \in 0 .. n - 1 |-> groupLayout(h, total, n, inodes)]
  BY Zenon
<1>6. PICK j : j = journalSize(total, G[0].freeBlocks)
  OBVIOUS
<1>7. PICK data : data = G[0].dataStart
  OBVIOUS
<1>8. l = [totalBlocks |-> total, numGroups |-> n, inodesPerGrp |-> inodes,
           journalSize |-> j, journalBlock |-> data,
           rootDirBlock |-> data + j, lfDirBlock |-> data + j + 1,
           groups |-> [G EXCEPT ![0].dataStart  = data + j + 2,
                                ![0].freeBlocks = @ - j - 2,
                                ![0].freeInodes = inodes - inoLostFound]]
  BY <1>1, <1>2, <1>4, <1>5, <1>6, <1>7, ZenonT(30) DEF computeLayout
<1>9. l.numGroups = n /\ g \in 0 .. n - 1 /\ 0 \in 0 .. n - 1
  BY <1>3, <1>8
<1>10. G[g].hasSB = hasSuperBackup(g)
  BY <1>5, <1>9 DEF groupLayout
<1>11. l.groups[g].hasSB = G[g].hasSB
  <2>1. CASE g # 0
    BY <1>5, <1>8, <1>9, <2>1
  <2>2. CASE g = 0
    <3>1. l.groups[0] = [G[0] EXCEPT !.dataStart = data + j + 2, !.freeBlocks = @ - j - 2,
                                     !.freeInodes = inodes - inoLostFound]
      BY <1>5, <1>8, <1>9
    <3>2. G[0] = groupLayout(0, total, n, inodes)
      BY <1>5, <1>9
    <3>3. l.groups[0].hasSB = G[0].hasSB
      BY <3>1, <3>2 DEF groupLayout
    <3> QED BY <2>2, <3>3
  <2> QED BY <2>1, <2>2
<1> QED BY <1>10, <1>11

\* Whether a sequence of structures has a superblock.
HasSuper(ps) == \E s \in 1 .. Len(ps) : ps[s].what = "super"

\* Two sequences have one together when one of them does.
LEMMA SuperJoined ==
    ASSUME NEW S, NEW ps \in Seq(S), NEW qs \in Seq(S)
    PROVE  HasSuper(ps \o qs) <=> HasSuper(ps) \/ HasSuper(qs)
<1>1. PICK m \in Nat, k \in Nat : m = Len(ps) /\ k = Len(qs)
  BY LenProperties
<1>2. PICK rs : rs = ps \o qs
  OBVIOUS
<1>3. /\ Len(rs) = m + k
      /\ \A s \in 1 .. m + k : rs[s] = IF s <= m THEN ps[s] ELSE qs[s - m]
  BY <1>1, <1>2, ConcatProperties
<1>4. ASSUME NEW s \in 1 .. m + k, rs[s].what = "super" PROVE HasSuper(ps) \/ HasSuper(qs)
  <2>1. CASE s <= m
    <3>1. s \in 1 .. m
      BY <2>1
    <3> QED BY <1>1, <1>3, <1>4, <2>1, <3>1 DEF HasSuper
  <2>2. CASE ~(s <= m)
    <3>1. s - m \in 1 .. k
      BY <2>2
    <3> QED BY <1>1, <1>3, <1>4, <2>2, <3>1 DEF HasSuper
  <2> QED BY <2>1, <2>2
<1>5. ASSUME NEW s \in 1 .. m, ps[s].what = "super" PROVE HasSuper(rs)
  <2>1. s \in 1 .. m + k /\ s <= m
    OBVIOUS
  <2> QED BY <1>3, <1>5, <2>1 DEF HasSuper
<1>6. ASSUME NEW s \in 1 .. k, qs[s].what = "super" PROVE HasSuper(rs)
  <2>1. PICK t \in 1 .. m + k : ~(t <= m) /\ t - m = s
    <3>1. s + m \in 1 .. m + k /\ ~(s + m <= m) /\ s + m - m = s
      OBVIOUS
    <3> QED BY <3>1
  <2>2. rs[t].what = "super"
    BY <1>3, <1>6, <2>1
  <2> QED BY <1>3, <2>2 DEF HasSuper
<1> QED BY <1>1, <1>2, <1>3, <1>4, <1>5, <1>6 DEF HasSuper

\* write() emits a superblock in a group exactly when the layout says so.
LEMMA SuperEmitted ==
    ASSUME NEW l, Sound(l), NEW g \in 0 .. l.numGroups - 1
    PROVE  l.groups[g].hasSB <=> \E p \in emitted(l, g) : p.what = "super"
<1>1. PICK tb : tb = tablesOf(l, g)
  OBVIOUS
<1>2. PICK fl : fl = filesOf(l, g)
  OBVIOUS
<1>3. PICK fr : fr = frontOf(l, g)
  OBVIOUS
<1> DEFINE S == {tb[1], tb[2], tb[3], fl[1], fl[2], fl[3], fr[1], fr[2], fr[3]}
<1>4. tb \in Seq(S) /\ ~HasSuper(tb)
  <2>1. tb = <<tb[1], tb[2], tb[3]>>
    BY <1>1 DEF tablesOf
  <2>2. tb \in Seq(S)
    <3>1. tb[1] \in S /\ tb[2] \in S /\ tb[3] \in S
      OBVIOUS
    <3> HIDE DEF S
    <3> QED BY <2>1, <3>1, Triple
  <2>3. tb[1].what # "super" /\ tb[2].what # "super" /\ tb[3].what # "super"
    BY <1>1 DEF tablesOf, piece
  <2>4. Len(tb) = 3
    BY <2>1
  <2> QED BY <2>2, <2>3, <2>4 DEF HasSuper
<1>5. fl \in Seq(S) /\ ~HasSuper(fl)
  <2>1. CASE g # 0
    <3>1. fl = << >>
      BY <1>2, <2>1 DEF filesOf
    <3> HIDE DEF S
    <3> QED BY <3>1 DEF HasSuper
  <2>2. CASE g = 0
    <3>1. fl = <<fl[1], fl[2], fl[3]>>
      BY <1>2, <2>2 DEF filesOf
    <3>2. fl \in Seq(S)
      <4>1. fl[1] \in S /\ fl[2] \in S /\ fl[3] \in S
        OBVIOUS
      <4> HIDE DEF S
      <4> QED BY <3>1, <4>1, Triple
    <3>3. fl[1].what # "super" /\ fl[2].what # "super" /\ fl[3].what # "super"
      BY <1>2, <2>2 DEF filesOf, piece
    <3>4. Len(fl) = 3
      BY <3>1
    <3> QED BY <3>2, <3>3, <3>4 DEF HasSuper
  <2> QED BY <2>1, <2>2
<1>6. fr \in Seq(S) /\ (HasSuper(fr) <=> l.groups[g].hasSB)
  <2>1. CASE ~l.groups[g].hasSB
    <3>1. fr = << >>
      BY <1>3, <2>1 DEF frontOf
    <3> HIDE DEF S
    <3> QED BY <2>1, <3>1 DEF HasSuper
  <2>2. CASE l.groups[g].hasSB
    <3>1. fr = <<fr[1], fr[2], fr[3]>>
      BY <1>3, <2>2 DEF frontOf
    <3>2. fr \in Seq(S)
      <4>1. fr[1] \in S /\ fr[2] \in S /\ fr[3] \in S
        OBVIOUS
      <4> HIDE DEF S
      <4> QED BY <3>1, <4>1, Triple
    <3>3. fr[1].what = "super"
      BY <1>3, <2>2 DEF frontOf, piece
    <3>4. Len(fr) = 3
      BY <3>1
    <3> QED BY <2>2, <3>2, <3>3, <3>4 DEF HasSuper
  <2> QED BY <2>1, <2>2
<1> HIDE DEF S
<1>7. fr \o tb \in Seq(S)
  BY <1>4, <1>6
<1>8. HasSuper((fr \o tb) \o fl) <=> l.groups[g].hasSB
  BY <1>4, <1>5, <1>6, <1>7, SuperJoined
<1>9. piecesOf(l, g) = (fr \o tb) \o fl
  BY <1>1, <1>2, <1>3 DEF piecesOf
<1>10. HasSuper(piecesOf(l, g)) <=> \E p \in emitted(l, g) : p.what = "super"
  BY Zenon DEF HasSuper, emitted
<1> QED BY <1>8, <1>9, <1>10

\* The rule holds of a finished volume.
LEMMA BackupsWritten ==
    ASSUME FormatInv, BackupsInv
    PROVE  SparseBackups
<1> SUFFICES ASSUME st = "ok"
             PROVE  {p.group : p \in {q \in disk : q.what = "super"}}
                       = {g \in 0 .. fs.numGroups - 1 :
                             g <= 1 \/ \E p \in {3, 5, 7} : powerOf(p, g)}
  BY DEF SparseBackups
<1>1. Sound(fs) /\ allEmitted
  BY DEF FormatInv
<1>2. PICK n \in Nat : n = fs.numGroups
  BY <1>1 DEF Sound
<1>3. ASSUME NEW g \in 0 .. n - 1
      PROVE  (\E p \in disk : p.group = g /\ p.what = "super")
                <=> g <= 1 \/ \E p \in {3, 5, 7} : powerOf(p, g)
  <2>1. {p \in disk : p.group = g} = emitted(fs, g)
    BY <1>2, WrittenOfGroup
  <2>2. fs.groups[g].hasSB <=> \E p \in emitted(fs, g) : p.what = "super"
    BY <1>1, <1>2, SuperEmitted
  <2>3. fs.groups[g].hasSB <=> hasSuperBackup(g)
    BY <1>2 DEF BackupsInv
  <2>4. hasSuperBackup(g) <=> g <= 1 \/ \E p \in {3, 5, 7} : powerOf(p, g)
    <3>1. g \in Nat
      OBVIOUS
    <3> QED BY <3>1, BackupGroups
  <2>5. (\E p \in disk : p.group = g /\ p.what = "super")
           <=> \E p \in emitted(fs, g) : p.what = "super"
    BY <2>1, Zenon
  <2> QED BY <2>2, <2>3, <2>4, <2>5, Zenon
<1>4. ASSUME NEW p \in disk PROVE p.group \in 0 .. n - 1
  <2>1. step = 0 /\ grp = n
    BY <1>1, <1>2 DEF FormatInv, ProgressInv, allEmitted
  <2>2. {todo[s] : s \in 1 .. step} = {}
    BY <2>1
  <2>3. disk = UNION {emitted(fs, h) : h \in 0 .. n - 1}
    BY <2>1, <2>2 DEF FormatInv, ProgressInv
  <2>4. PICK h \in 0 .. n - 1 : p \in emitted(fs, h)
    BY <1>4, <2>3
  <2>5. Tiles(piecesOf(fs, h), h, fs.groups[h].firstBlock, fs.groups[h].dataStart)
    BY <1>1, <1>2, PiecesTile
  <2>6. p.group = h
    BY <2>4, <2>5 DEF Tiles, emitted
  <2> QED BY <2>6
<1> QED BY <1>2, <1>3, <1>4, ZenonT(30)

\* For every size and ratio: after Format returned nil, superblock and descriptors
\* are in groups 0 and 1 and the powers of 3, 5 and 7, and in no others.
THEOREM SparseBackupsCorrect == Spec => []SparseBackups
<1>1. Init => BackupsInv
  BY InputsAssumption, LayoutBackups DEF Init, BackupsInv
<1>2. BackupsInv /\ [Next]_vars => BackupsInv'
  <2> SUFFICES ASSUME BackupsInv, [Next]_vars PROVE BackupsInv'
    OBVIOUS
  <2>1. fs' = fs
    BY DEF Next, Pad, PadPast, Emit, Finish, WriteFails, vars
  <2> QED BY <2>1 DEF BackupsInv
<1>3. FormatInv /\ BackupsInv => SparseBackups
  BY BackupsWritten
<1> QED BY <1>1, <1>2, <1>3, FormatInvariant, PTL DEF Spec
===============================================================================
