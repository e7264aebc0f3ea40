---------------------------- MODULE Ext4Extents ----------------------------
(***************************************************************************)
(* The extent tree of one ext4 file (ext4/write.go appendExtentToInode and *)
(* appendExtentIndirect, ext4/read.go searchExtentNode), as                *)
(* writeFileRange drives it, composed with the allocators it takes its     *)
(* blocks from: each block that is not mapped yet gets a block of its own  *)
(* and an extent of length one, while other files allocate and free.       *)
(*                                                                         *)
(* An extent is [log, phys].  A file with depth 0 keeps its extents in the *)
(* inode; with depth 1 the inode holds index entries [first, at, leaf],    *)
(* each leading to a block of extents.                                     *)
(***************************************************************************)
EXTENDS Ext4Alloc, Sequences

CONSTANTS MaxInline,   \* extents, or index entries, an inode holds: 4
          LeafMax,     \* extents a leaf block holds: (blockSize - 12) / 12
          MaxLog,      \* bound: logical blocks written are 0..MaxLog-1
          MaxBack,     \* bound: blocks from here on are written behind all others
          MaxOthers,   \* bound on allocations and frees by other files
          UsedBlocks,  \* block bitmaps to begin with
          UsedInodes   \* inode bitmaps to begin with

ASSUME ExtentsAssumption ==
    /\ MaxInline \in Nat \ {0, 1}
    /\ LeafMax \in Nat
    /\ LeafMax > MaxInline
    /\ MaxLog \in Nat
    /\ MaxBack \in Nat
    /\ MaxOthers \in Nat
    /\ UsedBlocks \subseteq setsOn(BlockBits) /\ \A m \in UsedBlocks : 0 \in m[0]
    /\ UsedInodes \subseteq setsOn(InodeBits)

VARIABLES depth,      \* extent header of iBlock
          inline,     \* its extents, when depth = 0
          index,      \* its index entries, when depth = 1
          truth,      \* what has been written: the block given to each logical block
          ascending,  \* every block so far came behind all that were there
          others      \* allocations and frees by other files so far

inodeVars == <<iowners, freed, twice>>
tree     == <<depth, inline, index>>
fileVars == <<depth, inline, index, truth, ascending, others>>
allVars  == <<al, owners, iowners, freed, twice, depth, inline, index, truth, ascending, others>>

Hole == 0
Logs == 0..(MaxLog - 1)
prefer == inodeBlockGroup(1)     \* the group of the file's inode

\* An empty file on a consistent file system; block 0 is the superblock's.
FileInit ==
    /\ \E bmap \in UsedBlocks, imap \in UsedInodes : al = consistent(bmap, imap)
    /\ owners = [b \in Blocks |-> 0]
    /\ iowners = [n \in Inodes |-> 0]
    /\ freed = {}
    /\ twice = NoneTwice
    /\ depth = 0
    /\ inline = <<>>
    /\ index = <<>>
    /\ truth = [l \in Logs |-> Hole]
    /\ ascending = TRUE
    /\ others = 0

(***************************************************************************)
(* searchExtentNode.  Leaves are searched linearly; of the index entries,  *)
(* the scan stops at the first one that begins behind the block.           *)
(***************************************************************************)
matches(leaf, l) == {k \in 1..Len(leaf) : leaf[k].log = l}

inLeaf(leaf, l) ==
    IF matches(leaf, l) = {} THEN Hole
    ELSE leaf[CHOOSE k \in matches(leaf, l) : \A j \in matches(leaf, l) : k <= j].phys

reached(l) == {i \in 1..Len(index) : \A j \in 1..i : index[j].first <= l}

child(l) == CHOOSE i \in reached(l) : \A j \in reached(l) : j <= i

logicalToPhysical(l) ==
    IF depth = 0 THEN inLeaf(inline, l)
    ELSE IF reached(l) = {} THEN Hole
    ELSE inLeaf(index[child(l)].leaf, l)

(***************************************************************************)
(* One iteration of writeFileRange.  A block that is found is written in   *)
(* place.  A missing one is allocated before the tree is looked at; where  *)
(* the tree then needs a leaf and there is no block for it, the write      *)
(* fails and the first block stays allocated.                              *)
(***************************************************************************)
written == {l \in Logs : truth[l] # Hole}

mayWrite(l) == l < MaxBack \/ \A k \in written : k <= l

found(l)   == mayWrite(l) /\ logicalToPhysical(l) # Hole
missing(l) == mayWrite(l) /\ logicalToPhysical(l) = Hole

data(a) == allocBlock(a, prefer)
extent(l) == [log |-> l, phys |-> data(al).blk]

handedOut(blks) == owners' = [b \in Blocks |-> owners[b] + IF b \in blks THEN 1 ELSE 0]

gaveBlock(l) ==
    /\ truth' = [truth EXCEPT ![l] = data(al).blk]
    /\ ascending' = (ascending /\ \A k \in written : k < l)
    /\ UNCHANGED <<inodeVars, others>>

\* The data block alone, and the data block with one for a leaf.
gaveData(l) ==
    /\ canAllocBlock(al)
    /\ al' = data(al).a
    /\ handedOut({data(al).blk})
    /\ gaveBlock(l)

gaveLeaf(l) ==
    /\ canAllocBlock(al) /\ canAllocBlock(data(al).a)
    /\ al' = data(data(al).a).a
    /\ handedOut({data(al).blk, data(data(al).a).blk})
    /\ gaveBlock(l)

leafBlock == data(data(al).a).blk

Overwrite(l) ==
    /\ found(l)
    /\ truth' = [truth EXCEPT ![l] = logicalToPhysical(l)]
    /\ UNCHANGED <<vars, tree, ascending, others>>

AppendInline(l) ==
    /\ missing(l)
    /\ depth = 0 /\ Len(inline) < MaxInline
    /\ gaveData(l)
    /\ inline' = Append(inline, extent(l))
    /\ UNCHANGED <<depth, index>>

\* The inline extents are full, or the last leaf is.
full(leaf) == Len(leaf) >= LeafMax
lastLeaf   == index[Len(index)].leaf
needsLeaf  == IF depth = 0 THEN Len(inline) = MaxInline ELSE full(lastLeaf)

\* Mutant of Promote: the new extent alone goes into the leaf.
Promote_DropsInline(l) ==
    /\ missing(l)
    /\ depth = 0 /\ needsLeaf
    /\ gaveLeaf(l)
    /\ depth' = 1
    /\ index' = <<[first |-> 0, at |-> leafBlock, leaf |-> <<extent(l)>>]>>
    /\ inline' = <<>>

\* The inline extents move to a leaf block, which then takes the new one.
Promote(l) ==
    /\ missing(l)
    /\ depth = 0 /\ needsLeaf
    /\ gaveLeaf(l)
    /\ depth' = 1
    /\ index' = <<[first |-> 0, at |-> leafBlock, leaf |-> Append(inline, extent(l))]>>
    /\ inline' = <<>>

AppendToLeaf(l) ==
    /\ missing(l)
    /\ depth = 1 /\ ~needsLeaf
    /\ gaveData(l)
    /\ index' = [index EXCEPT ![Len(index)].leaf = Append(@, extent(l))]
    /\ UNCHANGED <<depth, inline>>

\* The last leaf is full.  A fifth leaf is written but nothing leads to it, and
\* the write reports success.
AppendLeaf(l) ==
    /\ missing(l)
    /\ depth = 1 /\ needsLeaf
    /\ gaveLeaf(l)
    /\ index' = IF Len(index) < MaxInline
                THEN Append(index, [first |-> l, at |-> leafBlock, leaf |-> <<extent(l)>>])
                ELSE index
    /\ UNCHANGED <<depth, inline>>

\* "alloc block": nothing is free, or nothing is free for the leaf.
NoSpace(l) ==
    /\ missing(l)
    /\ ~canAllocBlock(al)
    /\ UNCHANGED allVars

NoSpaceForLeaf(l) ==
    /\ missing(l) /\ needsLeaf
    /\ canAllocBlock(al) /\ ~canAllocBlock(data(al).a)
    /\ al' = data(al).a
    /\ handedOut({data(al).blk})
    /\ UNCHANGED <<inodeVars, fileVars>>

\* Another file allocates or is removed.
OtherFile ==
    /\ others < MaxOthers
    /\ others' = others + 1
    /\ Next
    /\ UNCHANGED <<tree, truth, ascending>>

FileNext ==
    \/ \E l \in Logs :
          \/ Overwrite(l) \/ AppendInline(l) \/ Promote(l)
          \/ AppendToLeaf(l) \/ AppendLeaf(l) \/ NoSpace(l) \/ NoSpaceForLeaf(l)
    \/ OtherFile

FileSpec == FileInit /\ [][FileNext]_allVars

-----------------------------------------------------------------------------
(***************************************************************************)
(* Properties, besides those of Ext4Alloc.                                 *)
(***************************************************************************)

\* What the tree is good for: files written front to back, with holes or without,
\* as long as the leaves have room; and in any order while there is one leaf.
\* Otherwise a block can end up in a leaf that no lookup, or the wrong one,
\* leads to, although writeFileRange promises "extending as needed".
Supported ==
    \/ depth = 0 \/ Len(index) = 1
    \/ ascending /\ Cardinality(written) <= MaxInline * LeafMax

\* A read finds every block where it was written, through promotion to an
\* indirect tree and across leaf blocks, while other files take blocks between
\* and the disk fills up; and the tree's own blocks and the data are all
\* different blocks, marked in the bitmap.
ReadsBack ==
    LET leafs  == {index[i].at : i \in DOMAIN index}
        blocks == {truth[l] : l \in written}
    IN  Supported =>
            /\ \A l \in written : logicalToPhysical(l) = truth[l]
            /\ leafs \cap blocks = {}
            /\ Cardinality(leafs) = Len(index) /\ Cardinality(blocks) = Cardinality(written)
            /\ \A b \in leafs \cup blocks : blockUsed(al, b)
=============================================================================
