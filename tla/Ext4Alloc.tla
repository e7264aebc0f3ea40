----------------------------- MODULE Ext4Alloc -----------------------------
(***************************************************************************)
(* The ext4 allocators (ext4/alloc.go) at work: any sequence of block and  *)
(* inode allocations, with any preferred group, mixed with frees of        *)
(* inodes, on a file system that was consistent when it was mounted.       *)
(* freeInode is called without a look at the bitmap, so an inode may be    *)
(* freed that is free already: a handle kept across a Remove puts the old  *)
(* link count back, and the Remove of another name frees the inode again.  *)
(* freeBlock is left out: nothing in the driver calls it.                  *)
(***************************************************************************)
EXTENDS Ext4Groups

CONSTANT MaxTwice   \* bound on the frees of inodes that are free already

\* The free inodes of a descriptor are counted in 16 bits (freeInodesLo).
ASSUME TwiceAssumption == MaxTwice \in Nat /\ InodesPerGroup + MaxTwice < 2^16

VARIABLES al,       \* bitmaps and counts
          owners,   \* how often each block has been handed out
          iowners,  \* how often each inode is handed out at present
          freed,    \* the inodes freed since the mount: a name may still lead there
          twice     \* the frees of inodes free already: by group, and all together

vars == <<al, owners, iowners, freed, twice>>

setsOn(bits) == [Groups -> SUBSET bits]

\* The bits of all groups that are clear.
freeBlocks(a) == {b \in Blocks : ~blockUsed(a, b)}
freeInodes(a) == {n \in Inodes : ~inodeUsed(a, n)}

\* A consistent file system: what mkfs leaves behind, or e2fsck.  Bits that are
\* set belong to metadata, to files already there, or to the padding behind the
\* end of a short last group.
consistent(bmap, imap) ==
    [bmap   |-> bmap,
     gfree  |-> [g \in Groups |-> BlocksPerGroup - Cardinality(bmap[g])],
     imap   |-> imap,
     gifree |-> [g \in Groups |-> InodesPerGroup - Cardinality(imap[g])],
     dirs   |-> [g \in Groups |-> 0],
     sfree  |-> Cardinality(freeBlocks([bmap |-> bmap])),
     sifree |-> Cardinality(freeInodes([imap |-> imap]))]

NoneTwice == [by |-> [g \in Groups |-> 0], all |-> 0]

Init ==
    /\ \E bmap \in setsOn(BlockBits), imap \in setsOn(InodeBits) : al = consistent(bmap, imap)
    /\ owners = [b \in Blocks |-> 0]
    /\ iowners = [n \in Inodes |-> 0]
    /\ freed = {}
    /\ twice = NoneTwice

AllocBlock(preferGroup) ==
    /\ canAllocBlock(al)
    /\ LET r == allocBlock(al, preferGroup)
       IN  /\ al' = r.a
           /\ owners' = [owners EXCEPT ![r.blk] = @ + 1]
    /\ UNCHANGED <<iowners, freed, twice>>

AllocInode(preferGroup, isDir) ==
    /\ canAllocInode(al)
    /\ LET r == allocInode(al, preferGroup, isDir)
       IN  /\ al' = r.a
           /\ iowners' = [iowners EXCEPT ![r.ino] = @ + 1]
    /\ UNCHANGED <<owners, freed, twice>>

countTwice(t, g) == [by |-> [t.by EXCEPT ![g] = @ + 1], all |-> t.all + 1]

\* remove() frees the inode whose link count it has brought to 0: one in use,
\* handed out by this mount or found on the disk, or one freed before.
FreeInode(ino) ==
    /\ \/ inodeUsed(al, ino) /\ UNCHANGED twice
       \/ /\ ~inodeUsed(al, ino) /\ ino \in freed /\ twice.all < MaxTwice
          /\ twice' = countTwice(twice, inodeBlockGroup(ino))
    /\ al' = freeInode(al, ino)
    /\ iowners' = [iowners EXCEPT ![ino] = 0]
    /\ freed' = freed \cup {ino}
    /\ UNCHANGED owners

\* "no free blocks", "no free inodes".
Full ==
    /\ ~canAllocBlock(al) \/ ~canAllocInode(al)
    /\ UNCHANGED vars

Next ==
    \/ \E g \in Groups : AllocBlock(g)
    \/ \E g \in Groups, isDir \in BOOLEAN : AllocInode(g, isDir)
    \/ \E ino \in Inodes : FreeInode(ino)
    \/ Full

Spec == Init /\ [][Next]_vars

-----------------------------------------------------------------------------
(***************************************************************************)
(* Properties.                                                             *)
(***************************************************************************)

TypeOK ==
    /\ al \in [bmap : setsOn(BlockBits), gfree : [Groups -> Int],
               imap : setsOn(InodeBits), gifree : [Groups -> Int],
               dirs : [Groups -> Int], sfree : Int, sifree : Int]
    /\ owners \in [Blocks -> Nat]
    /\ iowners \in [Inodes -> Nat]
    /\ freed \subseteq Inodes
    /\ twice \in [by : [Groups -> Nat], all : Nat]

\* The unsigned free counts of every group descriptor are exactly the clear
\* bits of its bitmaps, whatever mix of allocations in preferred and in overflow
\* groups and of frees has run, so none ever wraps below zero (the -- in
\* allocBlockInGroup and allocInodeInGroup); a free of an inode that was free
\* already, and nothing else, leaves its group's count of inodes too large, by
\* one and for good.
GroupCountsExact ==
    \A g \in Groups :
        /\ al.gfree[g]  = BlocksPerGroup - Cardinality(al.bmap[g])
        /\ al.gifree[g] = InodesPerGroup - Cardinality(al.imap[g]) + twice.by[g]

\* The superblock's counts, decremented and incremented on their own, are the
\* clear bits of all bitmaps together, and so the sums of the descriptors'
\* counts (what e2fsck compares), but for the same frees.
SuperblockCountsExact ==
    /\ al.sfree  = Cardinality(freeBlocks(al))
    /\ al.sifree = Cardinality(freeInodes(al)) + twice.all

\* No block and no inode is handed out twice, across groups, while its first
\* owner has it, an inode until some Remove frees it: two files never share a
\* block, however wrong double frees have left the counts.
ExclusiveOwners ==
    /\ \A b \in Blocks : owners[b] <= 1 /\ (owners[b] = 1 => blockUsed(al, b))
    /\ \A n \in Inodes : iowners[n] <= 1 /\ (iowners[n] = 1 => inodeUsed(al, n))

\* allocBlock and allocInode report a full disk only when every bit of every
\* group is set: the count a group is skipped by never hides free space.  Counts that
\* are too large only make a search look at a bitmap in vain.
FullIsFull ==
    /\ ~canAllocBlock(al) => \A g \in Groups : al.bmap[g] = BlockBits
    /\ ~canAllocInode(al) => \A g \in Groups : al.imap[g] = InodeBits
=============================================================================
