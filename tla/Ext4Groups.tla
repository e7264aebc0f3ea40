----------------------------- MODULE Ext4Groups -----------------------------
(***************************************************************************)
(* The block and inode allocators of the ext4 driver (ext4/alloc.go) as    *)
(* operators on a record of what they read and write: the bitmaps, the     *)
(* free counts of the group descriptors and of the superblock.             *)
(*                                                                         *)
(*   bmap, imap     bits set in the block / inode bitmap of each group     *)
(*   gfree, gifree  free blocks / inodes according to the descriptor       *)
(*   dirs           directories according to the descriptor                *)
(*   sfree, sifree  free blocks / inodes according to the superblock       *)
(*                                                                         *)
(* Bitmaps, descriptors and superblock are staged in memory, so nothing    *)
(* here can fail but a search that finds no free bit.  firstDataBlock is   *)
(* 0 (block sizes above 1 KB).                                             *)
(***************************************************************************)
EXTENDS Integers, FiniteSets

CONSTANTS NumGroups, BlocksPerGroup, InodesPerGroup,
          UsedDirsMod   \* 2^16: usedDirs only ever counts up, and wraps

ASSUME GroupsAssumption ==
    /\ NumGroups \in Nat \ {0}
    /\ BlocksPerGroup \in Nat \ {0}
    /\ InodesPerGroup \in Nat \ {0}
    /\ UsedDirsMod \in Nat \ {0}

Groups    == 0..(NumGroups - 1)
BlockBits == 0..(BlocksPerGroup - 1)
InodeBits == 0..(InodesPerGroup - 1)
Blocks    == 0..(NumGroups * BlocksPerGroup - 1)
Inodes    == 1..(NumGroups * InodesPerGroup)

inodeBlockGroup(ino) == (ino - 1) \div InodesPerGroup
inodeLocalIndex(ino) == (ino - 1) % InodesPerGroup

\* findFreeBit: the first clear bit below the limit.
isFirstFree(bit, used, bits) ==
    /\ bit \in bits \ used
    /\ \A b \in bits \ used : bit <= b

findFreeBit(used, bits) == CHOOSE bit \in bits : isFirstFree(bit, used, bits)

\* The groups in the order they are tried from `start' on, and the first that
\* has what is wanted; `fits' is the set of groups that have.
nth(start, i) == (start + i) % NumGroups

firstFit(start, fits) ==
    nth(start, CHOOSE i \in Groups :
                  /\ nth(start, i) \in fits
                  /\ \A j \in Groups : j < i => nth(start, j) \notin fits)

\* Mutant of roomForBlock: the last block of a group is kept back.
roomForBlock_KeepsLast(a) == {g \in Groups : a.gfree[g] > 1 /\ BlockBits \ a.bmap[g] # {}}

\* allocBlockInGroup refuses a group by its count or by its bitmap.
roomForBlock(a) == {g \in Groups : a.gfree[g] # 0 /\ BlockBits \ a.bmap[g] # {}}

\* Mutant of takeBlock: the descriptor is updated in a copy.
takeBlock_CopiesDescriptor(a, g, bit) ==
    [a EXCEPT !.bmap[g] = @ \cup {bit},
              !.sfree   = @ - 1]

\* Mutant of takeBlock: the bitmap is not written back.
takeBlock_NoBitmap(a, g, bit) ==
    [a EXCEPT !.gfree[g] = @ - 1,
              !.sfree    = @ - 1]

takeBlock(a, g, bit) ==
    [a EXCEPT !.bmap[g]  = @ \cup {bit},
              !.gfree[g] = @ - 1,
              !.sfree    = @ - 1]

canAllocBlock(a) == roomForBlock(a) # {}

allocBlock(a, preferGroup) ==
    LET g   == firstFit(preferGroup, roomForBlock(a))
        bit == findFreeBit(a.bmap[g], BlockBits)
    IN  [a |-> takeBlock(a, g, bit), blk |-> g * BlocksPerGroup + bit]

\* A directory goes to the first of the groups with the most free inodes.
mostFree(a, preferGroup) ==
    IF \A g \in Groups : a.gifree[g] = 0 THEN preferGroup
    ELSE CHOOSE g \in Groups :
            /\ \A h \in Groups : a.gifree[h] <= a.gifree[g]
            /\ \A h \in Groups : h < g => a.gifree[h] < a.gifree[g]

roomForInode(a) == {g \in Groups : a.gifree[g] # 0 /\ InodeBits \ a.imap[g] # {}}

\* Mutant of takeInode: bits counted from 1.
takeInode_NextBit(a, g, bit, isDir) ==
    [a EXCEPT !.imap[g]   = @ \cup {bit + 1},
              !.gifree[g] = @ - 1,
              !.sifree    = @ - 1]

takeInode(a, g, bit, isDir) ==
    [a EXCEPT !.imap[g]   = @ \cup {bit},
              !.gifree[g] = @ - 1,
              !.dirs[g]   = (@ + (IF isDir THEN 1 ELSE 0)) % UsedDirsMod,
              !.sifree    = @ - 1]

canAllocInode(a) == roomForInode(a) # {}

allocInode(a, preferGroup, isDir) ==
    LET start == IF isDir THEN mostFree(a, preferGroup) ELSE preferGroup
        g     == firstFit(start, roomForInode(a))
        bit   == findFreeBit(a.imap[g], InodeBits)
    IN  [a |-> takeInode(a, g, bit, isDir), ino |-> g * InodesPerGroup + bit + 1]

\* Mutant of freeInode: the superblock is not told.
freeInode_SkipsSuperblock(a, ino) ==
    LET g == inodeBlockGroup(ino)
    IN  [a EXCEPT !.imap[g]   = @ \ {inodeLocalIndex(ino)},
                  !.gifree[g] = @ + 1]

\* freeInode clears the bit and counts, whether or not the bit was set; usedDirs
\* is left alone.
freeInode(a, ino) ==
    LET g == inodeBlockGroup(ino)
    IN  [a EXCEPT !.imap[g]   = @ \ {inodeLocalIndex(ino)},
                  !.gifree[g] = @ + 1,
                  !.sifree    = @ + 1]

blockUsed(a, blk) == blk % BlocksPerGroup \in a.bmap[blk \div BlocksPerGroup]
inodeUsed(a, ino) == inodeLocalIndex(ino) \in a.imap[inodeBlockGroup(ino)]
=============================================================================
