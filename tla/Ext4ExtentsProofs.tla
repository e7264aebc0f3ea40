------------------------- MODULE Ext4ExtentsProofs -------------------------
(***************************************************************************)
(* The ext4 allocators, for any number of groups and any group size: the   *)
(* descriptors count exactly the clear bits and the frees of inodes that   *)
(* were free already, nothing is handed out twice, and "full" is never     *)
(* reported while a bit is clear.  Then a file's extent tree on top of     *)
(* them, for any number of extents in an inode and in a leaf: while other  *)
(* files allocate and free, the allocators keep what is shown of them, and *)
(* every lookup leads to the block that was written.                       *)
(***************************************************************************)
EXTENDS Ext4Extents, FiniteSetTheorems, WellFoundedInduction, SequenceTheorems, TLAPS

USE GroupsAssumption

(***************************************************************************)
(* Arithmetic and the two searches.                                        *)
(***************************************************************************)

\* A non-empty set of naturals has a least element.
LEMMA NatMin ==
    ASSUME NEW T, T \subseteq Nat, T # {}
    PROVE  \E x \in T : \A y \in T : x <= y
<1> DEFINE R == OpToRel(<, Nat)
<1>1. IsWellFoundedOn(R, Nat)
  BY NatLessThanWellFounded
<1>2. \E x \in T : \A y \in T : ~(<<y, x>> \in R)
  <2> HIDE DEF R
  <2> QED BY <1>1, WFMin
<1>3. \A x, y \in T : ~(<<y, x>> \in R) => x <= y
  BY DEF OpToRel
<1> QED
  BY <1>2, <1>3

\* findFreeBit returns a clear bit when there is one.
LEMMA FindFreeBit ==
    ASSUME NEW bits, bits \subseteq Nat, NEW used, bits \ used # {}
    PROVE  findFreeBit(used, bits) \in bits \ used
<1>1. PICK bit \in bits \ used : \A b \in bits \ used : bit <= b
  BY NatMin
<1>2. isFirstFree(bit, used, bits)
  BY <1>1 DEF isFirstFree
<1> QED
  BY <1>1, <1>2 DEF findFreeBit, isFirstFree

\* The scan that starts at any group and wraps around reaches every group.
LEMMA NthReaches ==
    ASSUME NEW start \in Groups, NEW g \in Groups
    PROVE  \E i \in Groups : nth(start, i) = g
<1>1. CASE g >= start
  <2>1. g % NumGroups = g
    BY DEF Groups
  <2>2. g - start \in Groups /\ start + (g - start) = g
    BY <1>1 DEF Groups
  <2> QED
    BY <2>1, <2>2 DEF nth
<1>2. CASE g < start
  <2>1. (g + NumGroups) % NumGroups = g
    BY DEF Groups
  <2>2. g - start + NumGroups \in Groups /\ start + (g - start + NumGroups) = g + NumGroups
    BY <1>2 DEF Groups
  <2> QED
    BY <2>1, <2>2 DEF nth
<1> QED
  BY <1>1, <1>2 DEF Groups

\* The round through the groups, from the preferred one, ends at a group that fits.
LEMMA FirstFit ==
    ASSUME NEW start \in Groups, NEW fits, fits \subseteq Groups, fits # {}
    PROVE  firstFit(start, fits) \in fits
<1> DEFINE good == {i \in Groups : nth(start, i) \in fits}
<1>1. good \subseteq Nat /\ good # {}
  <2>1. PICK g \in fits : g \in Groups
    OBVIOUS
  <2>2. PICK i \in Groups : nth(start, i) = g
    BY <2>1, NthReaches
  <2> QED
    BY <2>1, <2>2 DEF Groups
<1>2. PICK i \in good : \A j \in good : i <= j
  BY <1>1, NatMin
<1>3. /\ i \in Groups /\ nth(start, i) \in fits
      /\ \A j \in Groups : j < i => nth(start, j) \notin fits
  BY <1>2 DEF Groups
<1> QED
  BY <1>3 DEF firstFit

\* Group and bit determine a number and are recovered from it.
LEMMA Address ==
    ASSUME NEW n \in Nat \ {0}, NEW g \in Groups, NEW b \in 0..(n - 1)
    PROVE  /\ g * n + b \in 0..(NumGroups * n - 1)
           /\ (g * n + b) \div n = g
           /\ (g * n + b) % n = b
<1>0. g \in Nat /\ g \in 0..(NumGroups - 1)
  BY DEF Groups
<1>1. g * n + b \in 0..(NumGroups * n - 1)
  BY <1>0, SMTT(30)
<1>2. (g * n + b) \div n = g
  BY <1>0, SMTT(30)
<1>3. (g * n + b) % n = b
  BY <1>0, SMTT(30)
<1> QED
  BY <1>1, <1>2, <1>3

\* A number below NumGroups * n has a group and an offset inside it.
LEMMA Decompose ==
    ASSUME NEW n \in Nat \ {0}, NEW x \in 0..(NumGroups * n - 1)
    PROVE  x \div n \in Groups /\ x % n \in 0..(n - 1)
<1>0. x \in Nat
  OBVIOUS
<1>1. x \div n \in Nat /\ x % n \in 0..(n - 1)
  BY <1>0, SMTT(30)
<1>2. n * (x \div n) <= x
  <2>1. x = n * (x \div n) + (x % n)
    BY <1>0, Z3T(30)
  <2> QED
    BY <2>1, <1>1, SMTT(30)
<1>3. ASSUME NEW q \in Nat, q >= NumGroups, n * q <= x
      PROVE  FALSE
  <2>1. n * q >= NumGroups * n
    BY <1>3, SMTT(30)
  <2> QED
    BY <2>1, <1>3, SMTT(30)
<1> QED
  BY <1>1, <1>2, <1>3 DEF Groups

\* Group and offset together determine the number.
LEMMA SameAddress ==
    ASSUME NEW n \in Nat \ {0}, NEW x \in Nat, NEW y \in Nat,
           x \div n = y \div n, x % n = y % n
    PROVE  x = y
  BY SMTT(30)

\* Setting a clear bit, clearing a set one.
LEMMA BitCount ==
    ASSUME NEW n \in Nat \ {0}, NEW S, S \subseteq 0..(n - 1)
    PROVE  /\ IsFiniteSet(S) /\ Cardinality(S) \in 0..n
           /\ Cardinality(S) = n => S = 0..(n - 1)
           /\ \A b : b \notin S => Cardinality(S \cup {b}) = Cardinality(S) + 1
           /\ \A b : b \in S => Cardinality(S \ {b}) = Cardinality(S) - 1
<1>1. IsFiniteSet(0..(n - 1)) /\ Cardinality(0..(n - 1)) = n
  BY FS_Interval
<1>2. /\ IsFiniteSet(S) /\ Cardinality(S) <= n
      /\ Cardinality(S) = n => S = 0..(n - 1)
  BY <1>1, FS_Subset
<1>3. Cardinality(S) \in Nat
  BY <1>2, FS_CardinalityType
<1>4. \A b : b \notin S => Cardinality(S \cup {b}) = Cardinality(S) + 1
  BY <1>2, FS_AddElement
<1>5. \A b : b \in S => Cardinality(S \ {b}) = Cardinality(S) - 1
  BY <1>2, FS_RemoveElement
<1> QED
  BY <1>2, <1>3, <1>4, <1>5

-----------------------------------------------------------------------------
(***************************************************************************)
(* What each operation does to the record, given exact counts; x counts    *)
(* the frees of inodes that were free.                                     *)
(***************************************************************************)
Tally(x) ==
    /\ x \in [by : [Groups -> Nat], all : Nat]
    /\ \A g \in Groups : x.by[g] <= x.all

Counts(a, x) ==
    \A g \in Groups :
        /\ a.gfree[g]  = BlocksPerGroup - Cardinality(a.bmap[g])
        /\ a.gifree[g] = InodesPerGroup - Cardinality(a.imap[g]) + x.by[g]

State == [bmap : setsOn(BlockBits), gfree : [Groups -> Int],
          imap : setsOn(InodeBits), gifree : [Groups -> Int],
          dirs : [Groups -> Int], sfree : Int, sifree : Int]

\* A group has room exactly when its bitmap has a clear bit.
LEMMA RoomForBlock ==
    ASSUME NEW a \in State, NEW x, Tally(x), Counts(a, x), NEW g \in Groups
    PROVE  g \in roomForBlock(a) <=> BlockBits \ a.bmap[g] # {}
<1>1. a.bmap[g] \subseteq 0..(BlocksPerGroup - 1)
  BY DEF State, setsOn, BlockBits
<1>2. Cardinality(a.bmap[g]) \in 0..BlocksPerGroup
  BY <1>1, BitCount
<1>3. Cardinality(a.bmap[g]) = BlocksPerGroup => a.bmap[g] = 0..(BlocksPerGroup - 1)
  BY <1>1, BitCount
<1>4. a.gfree[g] = BlocksPerGroup - Cardinality(a.bmap[g])
  BY DEF Counts
<1>5. a.gfree[g] = 0 => BlockBits \ a.bmap[g] = {}
  BY <1>2, <1>3, <1>4 DEF BlockBits
<1> QED
  BY <1>5 DEF roomForBlock

\* allocInodeInGroup passes over a group only when its bitmap is full: the counter
\* it looks at is never too small.
LEMMA RoomForInode ==
    ASSUME NEW a \in State, NEW x, Tally(x), Counts(a, x), NEW g \in Groups
    PROVE  g \in roomForInode(a) <=> InodeBits \ a.imap[g] # {}
<1>1. a.imap[g] \subseteq 0..(InodesPerGroup - 1)
  BY DEF State, setsOn, InodeBits
<1>2. Cardinality(a.imap[g]) \in 0..InodesPerGroup
  BY <1>1, BitCount
<1>3. Cardinality(a.imap[g]) = InodesPerGroup => a.imap[g] = 0..(InodesPerGroup - 1)
  BY <1>1, BitCount
<1>4. a.gifree[g] = InodesPerGroup - Cardinality(a.imap[g]) + x.by[g] /\ x.by[g] \in Nat
  BY DEF Counts, Tally
<1>5. a.gifree[g] = 0 => InodeBits \ a.imap[g] = {}
  BY <1>2, <1>3, <1>4 DEF InodeBits
<1> QED
  BY <1>5 DEF roomForInode

\* allocBlock takes one clear bit of one group and counts it.
LEMMA AllocBlockEffect ==
    ASSUME NEW a \in State, NEW x, Tally(x), Counts(a, x), NEW p \in Groups, canAllocBlock(a)
    PROVE  \E g \in Groups, bit \in BlockBits :
              /\ bit \notin a.bmap[g]
              /\ allocBlock(a, p) = [a |-> takeBlock(a, g, bit),
                                     blk |-> g * BlocksPerGroup + bit]
<1> DEFINE g   == firstFit(p, roomForBlock(a))
           bit == findFreeBit(a.bmap[g], BlockBits)
<1>1. roomForBlock(a) \subseteq Groups /\ roomForBlock(a) # {}
  BY DEF roomForBlock, canAllocBlock
<1>2. g \in roomForBlock(a) /\ g \in Groups
  BY <1>1, FirstFit
<1>3. BlockBits \ a.bmap[g] # {}
  BY <1>2, RoomForBlock
<1>4. bit \in BlockBits \ a.bmap[g]
  BY <1>3, FindFreeBit DEF BlockBits
<1> QED
  BY <1>2, <1>4 DEF allocBlock

\* allocInode's search for the emptiest group, for a directory, gives a group.
LEMMA MostFree ==
    ASSUME NEW a \in State, NEW x, Tally(x), Counts(a, x), NEW p \in Groups
    PROVE  mostFree(a, p) \in Groups
<1>1. CASE \A g \in Groups : a.gifree[g] = 0
  BY <1>1 DEF mostFree
<1>2. CASE ~\A g \in Groups : a.gifree[g] = 0
  <2> DEFINE most  == InodesPerGroup + x.all
             slack == {most - a.gifree[g] : g \in Groups}
  <2>1. \A g \in Groups : most - a.gifree[g] \in Nat
    <3> TAKE g \in Groups
    <3>1. a.imap[g] \subseteq 0..(InodesPerGroup - 1)
      BY DEF State, setsOn, InodeBits
    <3>2. Cardinality(a.imap[g]) \in 0..InodesPerGroup
      BY <3>1, BitCount
    <3>3. /\ a.gifree[g] = InodesPerGroup - Cardinality(a.imap[g]) + x.by[g]
          /\ x.by[g] \in Nat /\ x.all \in Nat /\ x.by[g] <= x.all
      BY DEF Counts, Tally
    <3> QED
      BY <3>2, <3>3
  <2>0. most \in Int
    BY DEF Tally
  <2> HIDE DEF most
  <2>2. slack \subseteq Nat /\ slack # {}
    BY <2>1 DEF Groups
  <2>3. PICK m \in slack : \A y \in slack : m <= y
    BY <2>2, NatMin
  <2>4. PICK g0 \in Groups : m = most - a.gifree[g0]
    BY <2>3
  <2> DEFINE best == {g \in Groups : a.gifree[g] = a.gifree[g0]}
  <2>5. best \subseteq Nat /\ best # {}
    BY <2>4 DEF Groups
  <2>6. PICK g \in best : \A h \in best : g <= h
    BY <2>5, NatMin
  <2>7. \A h \in Groups : a.gifree[h] <= a.gifree[g]
    <3> TAKE h \in Groups
    <3>1. most - a.gifree[h] \in slack
      OBVIOUS
    <3>2. a.gifree[h] \in Int /\ a.gifree[g] \in Int /\ a.gifree[g] = a.gifree[g0]
      BY <2>6 DEF State
    <3>3. most - a.gifree[g0] <= most - a.gifree[h]
      BY <3>1, <2>3, <2>4
    <3> QED
      BY <2>0, <3>2, <3>3
  <2>8. \A h \in Groups : h < g => a.gifree[h] < a.gifree[g]
    <3> SUFFICES ASSUME NEW h \in Groups, h < g, ~(a.gifree[h] < a.gifree[g])
                 PROVE  FALSE
      OBVIOUS
    <3>1. a.gifree[h] \in Int /\ a.gifree[g] \in Int
      BY <2>6 DEF State
    <3>2. a.gifree[h] = a.gifree[g]
      BY <3>1, <2>7
    <3>3. h \in best
      BY <3>2, <2>6
    <3>4. g <= h /\ g \in Int /\ h \in Int
      BY <3>3, <2>6 DEF Groups
    <3> QED
      BY <3>4
  <2> QED
    BY <1>2, <2>6, <2>7, <2>8 DEF mostFree
<1> QED
  BY <1>1, <1>2

\* allocInode takes a clear bit of some group, and returns the number of that bit.
LEMMA AllocInodeEffect ==
    ASSUME NEW a \in State, NEW x, Tally(x), Counts(a, x), NEW p \in Groups, NEW isDir \in BOOLEAN,
           canAllocInode(a)
    PROVE  \E g \in Groups, bit \in InodeBits :
              /\ bit \notin a.imap[g]
              /\ allocInode(a, p, isDir) = [a |-> takeInode(a, g, bit, isDir),
                                            ino |-> g * InodesPerGroup + bit + 1]
<1> DEFINE start == IF isDir THEN mostFree(a, p) ELSE p
           g     == firstFit(start, roomForInode(a))
           bit   == findFreeBit(a.imap[g], InodeBits)
<1>0. start \in Groups
  BY MostFree
<1>1. roomForInode(a) \subseteq Groups /\ roomForInode(a) # {}
  BY DEF roomForInode, canAllocInode
<1>2. g \in roomForInode(a) /\ g \in Groups
  BY <1>0, <1>1, FirstFit
<1>3. InodeBits \ a.imap[g] # {}
  BY <1>2, RoomForInode
<1>4. bit \in InodeBits \ a.imap[g]
  BY <1>3, FindFreeBit DEF InodeBits
<1> QED
  BY <1>2, <1>4 DEF allocInode

-----------------------------------------------------------------------------
(***************************************************************************)
(* The inductive invariant, of a record and of who was handed what, so     *)
(* that it can be carried through a step that allocates more than once.    *)
(***************************************************************************)
Super(a, x) ==
    /\ a.sfree  = Cardinality(freeBlocks(a))
    /\ a.sifree = Cardinality(freeInodes(a)) + x.all

Owned(a, ow, iow) ==
    /\ \A b \in Blocks : ow[b] <= 1 /\ (ow[b] = 1 => blockUsed(a, b))
    /\ \A n \in Inodes : iow[n] <= 1 /\ (iow[n] = 1 => inodeUsed(a, n))

Good(a, ow, iow, x) ==
    /\ a \in State /\ ow \in [Blocks -> Nat] /\ iow \in [Inodes -> Nat]
    /\ Tally(x) /\ Counts(a, x) /\ Super(a, x) /\ Owned(a, ow, iow)

Inv == Good(al, owners, iowners, twice) /\ freed \subseteq Inodes

\* Inode numbers start at 1; apart from that they are addresses like blocks.
LEMMA InodeAddress ==
    ASSUME NEW g \in Groups, NEW bit \in InodeBits
    PROVE  /\ g * InodesPerGroup + bit + 1 \in Inodes
           /\ inodeBlockGroup(g * InodesPerGroup + bit + 1) = g
           /\ inodeLocalIndex(g * InodesPerGroup + bit + 1) = bit
<1> DEFINE x == g * InodesPerGroup + bit
<1>1. /\ x \in 0..(NumGroups * InodesPerGroup - 1)
      /\ x \div InodesPerGroup = g /\ x % InodesPerGroup = bit
  BY Address DEF InodeBits
<1>2. x + 1 - 1 = x
  BY <1>1
<1> HIDE DEF x
<1>3. /\ x + 1 \in Inodes /\ inodeBlockGroup(x + 1) = g /\ inodeLocalIndex(x + 1) = bit
  BY <1>1, <1>2 DEF Inodes, inodeBlockGroup, inodeLocalIndex
<1> QED
  BY <1>3 DEF x

\* Every inode number has a group and a bit of its bitmap.
LEMMA InodeDecompose ==
    ASSUME NEW n \in Inodes
    PROVE  inodeBlockGroup(n) \in Groups /\ inodeLocalIndex(n) \in InodeBits
<1>1. n - 1 \in 0..(NumGroups * InodesPerGroup - 1)
  BY DEF Inodes
<1> QED
  BY <1>1, Decompose DEF inodeBlockGroup, inodeLocalIndex, InodeBits

\* Two inode numbers with the same group and bit are the same.
LEMMA SameInode ==
    ASSUME NEW m \in Inodes, NEW n \in Inodes,
           inodeBlockGroup(m) = inodeBlockGroup(n), inodeLocalIndex(m) = inodeLocalIndex(n)
    PROVE  m = n
<1>1. m - 1 \in Nat /\ n - 1 \in Nat
  BY DEF Inodes
<1>2. m - 1 = n - 1
  BY <1>1, SameAddress DEF inodeBlockGroup, inodeLocalIndex
<1> QED
  BY <1>1, <1>2 DEF Inodes

\* Every block and inode number is a bit of a bitmap, and bits differ when
\* numbers do.
LEMMA SameBlock ==
    ASSUME NEW b \in Blocks, NEW c \in Blocks,
           b \div BlocksPerGroup = c \div BlocksPerGroup,
           b % BlocksPerGroup = c % BlocksPerGroup
    PROVE  b = c
<1>1. b \in Nat /\ c \in Nat
  BY DEF Blocks
<1> QED BY <1>1, SameAddress

\* The clear bits of all groups are finitely many.
LEMMA FreeFinite ==
    ASSUME NEW a
    PROVE  IsFiniteSet(freeBlocks(a)) /\ IsFiniteSet(freeInodes(a))
<1>1. IsFiniteSet(Blocks) /\ IsFiniteSet(Inodes)
  <2>1. NumGroups * BlocksPerGroup - 1 \in Int /\ NumGroups * InodesPerGroup \in Int
    OBVIOUS
  <2> QED BY <2>1, FS_Interval DEF Blocks, Inodes
<1>2. freeBlocks(a) \in SUBSET Blocks /\ freeInodes(a) \in SUBSET Inodes
  BY DEF freeBlocks, freeInodes
<1> QED BY <1>1, <1>2, FS_Subset

\* So their numbers are integers.
LEMMA FreeCount ==
    ASSUME NEW a
    PROVE  Cardinality(freeBlocks(a)) \in Int /\ Cardinality(freeInodes(a)) \in Int
<1>1. Cardinality(freeBlocks(a)) \in Nat /\ Cardinality(freeInodes(a)) \in Nat
  BY FreeFinite, FS_CardinalityType
<1> QED BY <1>1

\* allocBlock hands out a block nobody has and keeps the three records of what
\* is free (bitmap, descriptor, superblock) in step.
LEMMA BlockStep ==
    ASSUME NEW a, NEW ow, NEW iow, NEW x, Good(a, ow, iow, x),
           NEW p \in Groups, canAllocBlock(a)
    PROVE  LET r == allocBlock(a, p) IN
           /\ r.blk \in Blocks /\ ~blockUsed(a, r.blk)
           /\ \A b \in Blocks : blockUsed(r.a, b) <=> blockUsed(a, b) \/ b = r.blk
           /\ Good(r.a, [ow EXCEPT ![r.blk] = @ + 1], iow, x)
<1>1. a \in State /\ Tally(x) /\ Counts(a, x) /\ Super(a, x)
  BY DEF Good
<1>2. PICK g \in Groups, bit \in BlockBits :
          /\ bit \notin a.bmap[g]
          /\ allocBlock(a, p) = [a |-> takeBlock(a, g, bit),
                                 blk |-> g * BlocksPerGroup + bit]
  BY <1>1, AllocBlockEffect
<1> DEFINE blk == g * BlocksPerGroup + bit
           a2  == takeBlock(a, g, bit)
           ow2 == [ow EXCEPT ![blk] = @ + 1]
<1>3. blk \in Blocks /\ blk \div BlocksPerGroup = g /\ blk % BlocksPerGroup = bit
  BY Address DEF Blocks, BlockBits
<1>4. /\ a.bmap \in setsOn(BlockBits) /\ a.gfree \in [Groups -> Int]
      /\ a.imap \in setsOn(InodeBits) /\ a.gifree \in [Groups -> Int]
      /\ a.dirs \in [Groups -> Int] /\ a.sfree \in Int /\ a.sifree \in Int
  BY <1>1 DEF State
<1>5. a2 = [bmap |-> [a.bmap EXCEPT ![g] = @ \cup {bit}],
            gfree |-> [a.gfree EXCEPT ![g] = @ - 1],
            imap |-> a.imap, gifree |-> a.gifree, dirs |-> a.dirs,
            sfree |-> a.sfree - 1, sifree |-> a.sifree]
  <2>1. PICK w : w = takeBlock(a, g, bit)
    OBVIOUS
  <2>2. w = a2
    BY <2>1
  <2> HIDE DEF a2
  <2> QED BY <1>1, <2>1, <2>2 DEF takeBlock, State
<1>6. a2 \in State
  <2>1. [a.bmap EXCEPT ![g] = @ \cup {bit}] \in setsOn(BlockBits)
    BY <1>4 DEF setsOn
  <2>2. [a.gfree EXCEPT ![g] = @ - 1] \in [Groups -> Int]
    BY <1>4
  <2> HIDE DEF a2
  <2> QED BY <1>4, <1>5, <2>1, <2>2 DEF State
<1> HIDE DEF a2, blk
<1>7. /\ \A h \in Groups : a2.bmap[h] = IF h = g THEN a.bmap[h] \cup {bit} ELSE a.bmap[h]
      /\ \A h \in Groups : a2.gfree[h] = IF h = g THEN a.gfree[h] - 1 ELSE a.gfree[h]
      /\ a2.imap = a.imap /\ a2.gifree = a.gifree
      /\ a2.sfree = a.sfree - 1 /\ a2.sifree = a.sifree
  BY <1>4, <1>5 DEF setsOn
<1>8. Counts(a2, x)
  <2> SUFFICES ASSUME NEW h \in Groups
               PROVE  a2.gfree[h] = BlocksPerGroup - Cardinality(a2.bmap[h])
    BY <1>1, <1>7 DEF Counts
  <2>1. CASE h # g
    BY <2>1, <1>1, <1>7 DEF Counts
  <2>2. CASE h = g
    <3>1. a.bmap[g] \subseteq 0..(BlocksPerGroup - 1)
      BY <1>4 DEF setsOn, BlockBits
    <3>2. /\ Cardinality(a.bmap[g]) \in 0..BlocksPerGroup
          /\ Cardinality(a.bmap[g] \cup {bit}) = Cardinality(a.bmap[g]) + 1
      BY <3>1, <1>2, BitCount
    <3>3. a.gfree[g] = BlocksPerGroup - Cardinality(a.bmap[g])
      BY <1>1 DEF Counts
    <3>4. a2.bmap[g] = a.bmap[g] \cup {bit} /\ a2.gfree[g] = a.gfree[g] - 1
      BY <1>7
    <3> QED BY <2>2, <3>2, <3>3, <3>4
  <2> QED BY <2>1, <2>2
<1>9. ~blockUsed(a, blk)
  BY <1>2, <1>3 DEF blockUsed
<1>10. ASSUME NEW b \in Blocks PROVE blockUsed(a2, b) <=> blockUsed(a, b) \/ b = blk
  <2>1. b \div BlocksPerGroup \in Groups
    BY Decompose DEF Blocks
  <2>2. b = blk <=> b \div BlocksPerGroup = g /\ b % BlocksPerGroup = bit
    BY <1>3, SameBlock
  <2> QED BY <1>7, <2>1, <2>2 DEF blockUsed
<1>11. Super(a2, x)
  <2>1. freeBlocks(a2) = freeBlocks(a) \ {blk} /\ blk \in freeBlocks(a)
    BY <1>3, <1>9, <1>10 DEF freeBlocks
  <2>2. freeInodes(a2) = freeInodes(a)
    BY <1>7 DEF freeInodes, inodeUsed
  <2>3. Cardinality(freeBlocks(a2)) = Cardinality(freeBlocks(a)) - 1
    <3>1. PICK F : F = freeBlocks(a) /\ IsFiniteSet(F)
      BY FreeFinite
    <3>2. Cardinality(F \ {blk}) = Cardinality(F) - 1
      BY <2>1, <3>1, FS_RemoveElement
    <3> QED BY <2>1, <3>1, <3>2
  <2> QED BY <1>1, <1>7, <2>2, <2>3 DEF Super
<1>12. Owned(a2, ow2, iow)
  <2>1. ow \in [Blocks -> Nat] /\ Owned(a, ow, iow)
    BY DEF Good
  <2>2. ow[blk] = 0
    BY <1>3, <1>9, <2>1 DEF Owned
  <2>3. \A b \in Blocks : ow2[b] = IF b = blk THEN 1 ELSE ow[b]
    BY <1>3, <2>1, <2>2
  <2> HIDE DEF ow2
  <2>4. \A b \in Blocks : ow2[b] <= 1 /\ (ow2[b] = 1 => blockUsed(a2, b))
    BY <1>10, <2>1, <2>3 DEF Owned
  <2>5. \A n \in Inodes : iow[n] <= 1 /\ (iow[n] = 1 => inodeUsed(a2, n))
    BY <1>7, <2>1 DEF Owned, inodeUsed
  <2> QED BY <2>4, <2>5 DEF Owned
<1>13. ow2 \in [Blocks -> Nat] /\ iow \in [Inodes -> Nat]
  BY <1>3 DEF Good
<1>14. Good(a2, ow2, iow, x)
  BY <1>6, <1>8, <1>11, <1>12, <1>13 DEF Good
<1>15. allocBlock(a, p).a = a2 /\ allocBlock(a, p).blk = blk
  BY <1>2 DEF a2, blk
<1> QED BY <1>3, <1>9, <1>10, <1>14, <1>15

\* allocInode does the same for inodes, and counts a directory.
LEMMA InodeStep ==
    ASSUME NEW a, NEW ow, NEW iow, NEW x, Good(a, ow, iow, x),
           NEW p \in Groups, NEW isDir \in BOOLEAN, canAllocInode(a)
    PROVE  LET r == allocInode(a, p, isDir) IN
           /\ r.a.bmap = a.bmap
           /\ Good(r.a, ow, [iow EXCEPT ![r.ino] = @ + 1], x)
<1>1. a \in State /\ Tally(x) /\ Counts(a, x) /\ Super(a, x)
  BY DEF Good
<1>2. PICK g \in Groups, bit \in InodeBits :
          /\ bit \notin a.imap[g]
          /\ allocInode(a, p, isDir) = [a |-> takeInode(a, g, bit, isDir),
                                        ino |-> g * InodesPerGroup + bit + 1]
  BY <1>1, AllocInodeEffect
<1> DEFINE ino  == g * InodesPerGroup + bit + 1
           a2   == takeInode(a, g, bit, isDir)
           d    == (a.dirs[g] + (IF isDir THEN 1 ELSE 0)) % UsedDirsMod
           iow2 == [iow EXCEPT ![ino] = @ + 1]
<1>3. ino \in Inodes /\ inodeBlockGroup(ino) = g /\ inodeLocalIndex(ino) = bit
  BY InodeAddress
<1>4. /\ a.bmap \in setsOn(BlockBits) /\ a.gfree \in [Groups -> Int]
      /\ a.imap \in setsOn(InodeBits) /\ a.gifree \in [Groups -> Int]
      /\ a.dirs \in [Groups -> Int] /\ a.sfree \in Int /\ a.sifree \in Int
  BY <1>1 DEF State
<1>5. a2 = [bmap |-> a.bmap, gfree |-> a.gfree,
            imap |-> [a.imap EXCEPT ![g] = @ \cup {bit}],
            gifree |-> [a.gifree EXCEPT ![g] = @ - 1],
            dirs |-> [a.dirs EXCEPT ![g] = d],
            sfree |-> a.sfree, sifree |-> a.sifree - 1]
  <2>1. PICK w : w = takeInode(a, g, bit, isDir)
    OBVIOUS
  <2>2. w = a2
    BY <2>1
  <2> HIDE DEF a2
  <2> QED BY <1>1, <2>1, <2>2 DEF takeInode, State
<1>6. a2 \in State
  <2>1. [a.imap EXCEPT ![g] = @ \cup {bit}] \in setsOn(InodeBits)
    BY <1>4 DEF setsOn
  <2>2. [a.gifree EXCEPT ![g] = @ - 1] \in [Groups -> Int]
    BY <1>4
  <2>3. d \in Int
    BY <1>4
  <2>4. [a.dirs EXCEPT ![g] = d] \in [Groups -> Int]
    BY <1>4, <2>3
  <2> HIDE DEF a2, d
  <2> QED BY <1>4, <1>5, <2>1, <2>2, <2>4 DEF State
<1> HIDE DEF a2, ino, d
<1>7. /\ \A h \in Groups : a2.imap[h] = IF h = g THEN a.imap[h] \cup {bit} ELSE a.imap[h]
      /\ \A h \in Groups : a2.gifree[h] = IF h = g THEN a.gifree[h] - 1 ELSE a.gifree[h]
      /\ a2.bmap = a.bmap /\ a2.gfree = a.gfree
      /\ a2.sfree = a.sfree /\ a2.sifree = a.sifree - 1
  BY <1>4, <1>5 DEF setsOn
<1>8. Counts(a2, x)
  <2> SUFFICES ASSUME NEW h \in Groups
               PROVE  a2.gifree[h] = InodesPerGroup - Cardinality(a2.imap[h]) + x.by[h]
    BY <1>1, <1>7 DEF Counts
  <2>1. CASE h # g
    BY <2>1, <1>1, <1>7 DEF Counts
  <2>2. CASE h = g
    <3>1. a.imap[g] \subseteq 0..(InodesPerGroup - 1)
      BY <1>4 DEF setsOn, InodeBits
    <3>2. /\ Cardinality(a.imap[g]) \in 0..InodesPerGroup
          /\ Cardinality(a.imap[g] \cup {bit}) = Cardinality(a.imap[g]) + 1
      BY <3>1, <1>2, BitCount
    <3>3. a.gifree[g] = InodesPerGroup - Cardinality(a.imap[g]) + x.by[g] /\ x.by[g] \in Nat
      BY <1>1 DEF Counts, Tally
    <3>4. a2.imap[g] = a.imap[g] \cup {bit} /\ a2.gifree[g] = a.gifree[g] - 1
      BY <1>7
    <3> QED BY <2>2, <3>2, <3>3, <3>4
  <2> QED BY <2>1, <2>2
<1>9. ~inodeUsed(a, ino)
  BY <1>2, <1>3 DEF inodeUsed
<1>10. ASSUME NEW n \in Inodes PROVE inodeUsed(a2, n) <=> inodeUsed(a, n) \/ n = ino
  <2>1. inodeBlockGroup(n) \in Groups
    BY InodeDecompose
  <2>2. n = ino <=> inodeBlockGroup(n) = g /\ inodeLocalIndex(n) = bit
    BY <1>3, SameInode
  <2> QED BY <1>7, <2>1, <2>2 DEF inodeUsed
<1>11. Super(a2, x)
  <2>1. freeInodes(a2) = freeInodes(a) \ {ino} /\ ino \in freeInodes(a)
    BY <1>3, <1>9, <1>10 DEF freeInodes
  <2>2. freeBlocks(a2) = freeBlocks(a)
    BY <1>7 DEF freeBlocks, blockUsed
  <2>3. Cardinality(freeInodes(a2)) = Cardinality(freeInodes(a)) - 1
    <3>1. PICK F : F = freeInodes(a) /\ IsFiniteSet(F)
      BY FreeFinite
    <3>2. Cardinality(F \ {ino}) = Cardinality(F) - 1
      BY <2>1, <3>1, FS_RemoveElement
    <3> QED BY <2>1, <3>1, <3>2
  <2>4. Cardinality(freeInodes(a)) \in Int /\ x.all \in Nat
    BY <1>1, FreeCount DEF Tally
  <2> QED BY <1>1, <1>7, <2>2, <2>3, <2>4 DEF Super
<1>12. Owned(a2, ow, iow2)
  <2>1. iow \in [Inodes -> Nat] /\ Owned(a, ow, iow)
    BY DEF Good
  <2>2. iow[ino] = 0
    BY <1>3, <1>9, <2>1 DEF Owned
  <2>3. \A n \in Inodes : iow2[n] = IF n = ino THEN 1 ELSE iow[n]
    BY <1>3, <2>1, <2>2
  <2> HIDE DEF iow2
  <2>4. \A n \in Inodes : iow2[n] <= 1 /\ (iow2[n] = 1 => inodeUsed(a2, n))
    BY <1>10, <2>1, <2>3 DEF Owned
  <2>5. \A b \in Blocks : ow[b] <= 1 /\ (ow[b] = 1 => blockUsed(a2, b))
    BY <1>7, <2>1 DEF Owned, blockUsed
  <2> QED BY <2>4, <2>5 DEF Owned
<1>13. ow \in [Blocks -> Nat] /\ iow2 \in [Inodes -> Nat]
  BY <1>3 DEF Good
<1>14. Good(a2, ow, iow2, x)
  BY <1>6, <1>8, <1>11, <1>12, <1>13 DEF Good
<1>15. allocInode(a, p, isDir).a = a2 /\ allocInode(a, p, isDir).ino = ino
  BY <1>2 DEF a2, ino
<1> QED BY <1>7, <1>14, <1>15

freeing(a, x, ino) == IF inodeUsed(a, ino) THEN x ELSE countTwice(x, inodeBlockGroup(ino))

\* freeInode gives an inode in use back in all three records; one that is free
\* already is only counted once more.
LEMMA FreeStep ==
    ASSUME NEW a, NEW ow, NEW iow, NEW x, Good(a, ow, iow, x),
           NEW ino \in Inodes
    PROVE  /\ freeInode(a, ino).bmap = a.bmap
           /\ Good(freeInode(a, ino), ow, [iow EXCEPT ![ino] = 0], freeing(a, x, ino))
<1> DEFINE g    == inodeBlockGroup(ino)
           bit  == inodeLocalIndex(ino)
           a2   == freeInode(a, ino)
           iow2 == [iow EXCEPT ![ino] = 0]
           y    == freeing(a, x, ino)
<1>1. a \in State /\ Tally(x) /\ Counts(a, x) /\ Super(a, x)
  BY DEF Good
<1>2. g \in Groups /\ bit \in InodeBits /\ (inodeUsed(a, ino) <=> bit \in a.imap[g])
  BY InodeDecompose DEF inodeUsed
<1>3. /\ a.bmap \in setsOn(BlockBits) /\ a.gfree \in [Groups -> Int]
      /\ a.imap \in setsOn(InodeBits) /\ a.gifree \in [Groups -> Int]
      /\ a.dirs \in [Groups -> Int] /\ a.sfree \in Int /\ a.sifree \in Int
  BY <1>1 DEF State
<1>4. a2 = [bmap |-> a.bmap, gfree |-> a.gfree,
            imap |-> [a.imap EXCEPT ![g] = @ \ {bit}],
            gifree |-> [a.gifree EXCEPT ![g] = @ + 1],
            dirs |-> a.dirs, sfree |-> a.sfree, sifree |-> a.sifree + 1]
  <2>1. PICK w : w = freeInode(a, ino)
    OBVIOUS
  <2>2. w = a2
    BY <2>1
  <2> HIDE DEF a2
  <2> QED BY <1>1, <2>1, <2>2 DEF freeInode, State
<1>5. a2 \in State
  <2> HIDE DEF g, bit, a2
  <2>1. [a.imap EXCEPT ![g] = @ \ {bit}] \in setsOn(InodeBits)
    BY <1>2, <1>3 DEF setsOn
  <2>2. [a.gifree EXCEPT ![g] = @ + 1] \in [Groups -> Int]
    BY <1>2, <1>3
  <2> QED BY <1>3, <1>4, <2>1, <2>2 DEF State
<1> HIDE DEF a2
<1>6. /\ \A h \in Groups : a2.imap[h] = IF h = g THEN a.imap[h] \ {bit} ELSE a.imap[h]
      /\ \A h \in Groups : a2.gifree[h] = IF h = g THEN a.gifree[h] + 1 ELSE a.gifree[h]
      /\ a2.bmap = a.bmap /\ a2.gfree = a.gfree
      /\ a2.sfree = a.sfree /\ a2.sifree = a.sifree + 1
  <2> HIDE DEF g, bit
  <2> QED BY <1>3, <1>4 DEF setsOn
<1>13. /\ Tally(y)
       /\ inodeUsed(a, ino) => y = x
       /\ ~inodeUsed(a, ino) => /\ \A h \in Groups : y.by[h] = x.by[h] + IF h = g THEN 1 ELSE 0
                               /\ y.all = x.all + 1
  <2> HIDE DEF g, bit
  <2>1. CASE inodeUsed(a, ino)
    BY <1>1, <2>1 DEF freeing
  <2>2. CASE ~inodeUsed(a, ino)
    <3>1. y = [by |-> [x.by EXCEPT ![g] = @ + 1], all |-> x.all + 1]
      BY <2>2 DEF freeing, countTwice, g
    <3>2. x.by \in [Groups -> Nat] /\ x.all \in Nat /\ \A h \in Groups : x.by[h] <= x.all
      BY <1>1 DEF Tally
    <3> HIDE DEF y
    <3>3. \A h \in Groups : y.by[h] = x.by[h] + IF h = g THEN 1 ELSE 0
      BY <3>1, <3>2
    <3>5. [x.by EXCEPT ![g] = @ + 1] \in [Groups -> Nat]
      BY <1>2, <3>2
    <3>4. y \in [by : [Groups -> Nat], all : Nat] /\ y.all = x.all + 1
      BY <3>1, <3>2, <3>5
    <3> QED
      BY <2>2, <3>2, <3>3, <3>4 DEF Tally
  <2> QED
    BY <2>1, <2>2
<1> HIDE DEF y
<1>7. Counts(a2, y)
  <2>0. ASSUME NEW h \in Groups PROVE x.by[h] \in Nat /\ a.gifree[h] \in Int
    BY <1>1, <1>3 DEF Tally
  <2> SUFFICES ASSUME NEW h \in Groups
               PROVE  a2.gifree[h] = InodesPerGroup - Cardinality(a2.imap[h]) + y.by[h]
    BY <1>1, <1>6 DEF Counts
  <2> HIDE DEF g, bit
  <2>1. CASE h # g
    <3>1. y.by[h] = x.by[h]
      BY <1>13, <2>0, <2>1
    <3> QED
      BY <2>1, <3>1, <1>1, <1>6 DEF Counts
  <2>2. CASE h = g
    <3>1. a.imap[g] \subseteq 0..(InodesPerGroup - 1)
      BY <1>2, <1>3 DEF setsOn, InodeBits
    <3>2. /\ Cardinality(a.imap[g]) \in 0..InodesPerGroup
          /\ bit \in a.imap[g] => Cardinality(a.imap[g] \ {bit}) = Cardinality(a.imap[g]) - 1
      BY <3>1, BitCount
    <3>3. a.gifree[g] = InodesPerGroup - Cardinality(a.imap[g]) + x.by[g] /\ x.by[g] \in Nat
      BY <1>1, <1>2, <2>0 DEF Counts
    <3>4. a2.imap[g] = a.imap[g] \ {bit} /\ a2.gifree[g] = a.gifree[g] + 1
      BY <1>2, <1>6
    <3>5. CASE inodeUsed(a, ino)
      <4>1. y = x /\ bit \in a.imap[g]
        BY <1>2, <1>13, <3>5
      <4>2. Cardinality(a2.imap[g]) = Cardinality(a.imap[g]) - 1 /\ y.by[g] = x.by[g]
        BY <3>2, <3>4, <4>1
      <4> QED
        BY <2>2, <3>2, <3>3, <3>4, <4>2
    <3>6. CASE ~inodeUsed(a, ino)
      <4>1. a.imap[g] \ {bit} = a.imap[g] /\ y.by[g] = x.by[g] + 1
        BY <1>2, <1>13, <3>6
      <4>2. Cardinality(a2.imap[g]) = Cardinality(a.imap[g])
        BY <3>4, <4>1
      <4>3. y.by[g] = x.by[g] + 1 /\ a2.gifree[g] = a.gifree[g] + 1
        BY <3>4, <4>1
      <4> HIDE DEF a2, y
      <4> QED
        BY <2>2, <3>2, <3>3, <4>2, <4>3
    <3> QED BY <3>5, <3>6
  <2> QED BY <2>1, <2>2
<1>8. ASSUME NEW n \in Inodes PROVE inodeUsed(a2, n) <=> inodeUsed(a, n) /\ n # ino
  <2>1. inodeBlockGroup(n) \in Groups
    BY InodeDecompose
  <2>2. n = ino <=> inodeBlockGroup(n) = g /\ inodeLocalIndex(n) = bit
    BY SameInode
  <2> HIDE DEF g, bit
  <2> QED BY <1>6, <2>1, <2>2 DEF inodeUsed
<1>9. Super(a2, y)
  <2>1. freeInodes(a2) = freeInodes(a) \cup {ino} /\ (ino \in freeInodes(a) <=> ~inodeUsed(a, ino))
    BY <1>8 DEF freeInodes
  <2>2. freeBlocks(a2) = freeBlocks(a)
    BY <1>6 DEF freeBlocks, blockUsed
  <2>3. Cardinality(freeInodes(a)) \in Int /\ x.all \in Nat
    BY <1>1, FreeCount DEF Tally
  <2>4. CASE inodeUsed(a, ino)
    <3>1. Cardinality(freeInodes(a2)) = Cardinality(freeInodes(a)) + 1
      BY <2>1, <2>4, FreeFinite, FS_AddElement
    <3> QED BY <1>1, <1>6, <1>13, <2>2, <2>3, <2>4, <3>1 DEF Super
  <2>5. CASE ~inodeUsed(a, ino)
    <3>1. freeInodes(a2) = freeInodes(a)
      BY <2>1, <2>5
    <3> QED BY <1>1, <1>6, <1>13, <2>2, <2>3, <2>5, <3>1 DEF Super
  <2> QED BY <2>4, <2>5
<1>10. Owned(a2, ow, iow2)
  <2>1. iow \in [Inodes -> Nat] /\ Owned(a, ow, iow)
    BY DEF Good
  <2>2. \A n \in Inodes : iow2[n] = IF n = ino THEN 0 ELSE iow[n]
    BY <2>1
  <2> HIDE DEF iow2
  <2>3. \A n \in Inodes : iow2[n] <= 1 /\ (iow2[n] = 1 => inodeUsed(a2, n))
    BY <1>8, <2>1, <2>2 DEF Owned
  <2>4. \A b \in Blocks : ow[b] <= 1 /\ (ow[b] = 1 => blockUsed(a2, b))
    BY <1>6, <2>1 DEF Owned, blockUsed
  <2> QED BY <2>3, <2>4 DEF Owned
<1>11. ow \in [Blocks -> Nat] /\ iow2 \in [Inodes -> Nat]
  BY DEF Good
<1>12. Good(a2, ow, iow2, y)
  BY <1>5, <1>7, <1>9, <1>10, <1>11, <1>13 DEF Good
<1> QED BY <1>6, <1>12 DEF a2, y

-----------------------------------------------------------------------------
(***************************************************************************)
(* The theorems.                                                           *)
(***************************************************************************)

\* A file system as mkfs leaves it satisfies the invariant.
LEMMA ConsistentGood ==
    ASSUME NEW bmap \in setsOn(BlockBits), NEW imap \in setsOn(InodeBits)
    PROVE  Good(consistent(bmap, imap), [b \in Blocks |-> 0], [n \in Inodes |-> 0], NoneTwice)
<1> DEFINE a == consistent(bmap, imap)
<1>1. \A g \in Groups : /\ Cardinality(bmap[g]) \in Int
                        /\ Cardinality(imap[g]) \in Int
  <2> TAKE g \in Groups
  <2>1. bmap[g] \subseteq 0..(BlocksPerGroup - 1) /\ imap[g] \subseteq 0..(InodesPerGroup - 1)
    BY DEF setsOn, BlockBits, InodeBits
  <2>2. Cardinality(bmap[g]) \in 0..BlocksPerGroup
    BY <2>1, BitCount
  <2>3. Cardinality(imap[g]) \in 0..InodesPerGroup
    BY <2>1, BitCount
  <2> QED BY <2>2, <2>3
<1>2. freeBlocks([bmap |-> bmap]) = freeBlocks(a) /\ freeInodes([imap |-> imap]) = freeInodes(a)
  BY DEF consistent, freeBlocks, freeInodes, blockUsed, inodeUsed
<1>3. Cardinality(freeBlocks(a)) \in Int /\ Cardinality(freeInodes(a)) \in Int
  BY FreeCount
<1>4. a \in State
  BY <1>1, <1>2, <1>3 DEF consistent, State
<1>8. /\ Tally(NoneTwice) /\ NoneTwice.all = 0
      /\ \A g \in Groups : NoneTwice.by[g] = 0
  BY DEF NoneTwice, Tally
<1>5. Counts(a, NoneTwice)
  BY <1>1, <1>8 DEF consistent, Counts
<1>6. Super(a, NoneTwice)
  BY <1>2, <1>3, <1>8 DEF consistent, Super
<1>7. Owned(a, [b \in Blocks |-> 0], [n \in Inodes |-> 0])
  BY DEF Owned
<1> QED BY <1>4, <1>5, <1>6, <1>7, <1>8 DEF Good

\* A consistent file system, as Open reads it, satisfies the invariant.
LEMMA InitInv == Init => Inv
BY ConsistentGood DEF Init, Inv

\* allocBlock, allocInode, freeInode and a refused allocation keep the invariant.
LEMMA NextInv == Inv /\ [Next]_vars => Inv'
<1> SUFFICES ASSUME Inv, [Next]_vars PROVE Inv'
  OBVIOUS
<1>1. ASSUME UNCHANGED vars PROVE Inv'
  BY <1>1 DEF vars, Inv
<1>2. ASSUME NEW p \in Groups, AllocBlock(p) PROVE Inv'
  <2>1. /\ al' = allocBlock(al, p).a /\ UNCHANGED <<iowners, freed, twice>>
        /\ owners' = [owners EXCEPT ![allocBlock(al, p).blk] = @ + 1]
    BY <1>2 DEF AllocBlock
  <2>2. Good(allocBlock(al, p).a, [owners EXCEPT ![allocBlock(al, p).blk] = @ + 1], iowners, twice)
    BY <1>2, BlockStep DEF Inv, AllocBlock
  <2> QED BY <2>1, <2>2 DEF Inv
<1>3. ASSUME NEW p \in Groups, NEW isDir \in BOOLEAN, AllocInode(p, isDir) PROVE Inv'
  <2>1. /\ al' = allocInode(al, p, isDir).a /\ UNCHANGED <<owners, freed, twice>>
        /\ iowners' = [iowners EXCEPT ![allocInode(al, p, isDir).ino] = @ + 1]
    BY <1>3 DEF AllocInode
  <2>2. Good(allocInode(al, p, isDir).a, owners,
             [iowners EXCEPT ![allocInode(al, p, isDir).ino] = @ + 1], twice)
    BY <1>3, InodeStep DEF Inv, AllocInode
  <2> QED BY <2>1, <2>2 DEF Inv
<1>4. ASSUME NEW ino \in Inodes, FreeInode(ino) PROVE Inv'
  <2>1. Good(freeInode(al, ino), owners, [iowners EXCEPT ![ino] = 0], freeing(al, twice, ino))
    BY <1>4, FreeStep DEF Inv
  <2>2. /\ al' = freeInode(al, ino) /\ owners' = owners /\ iowners' = [iowners EXCEPT ![ino] = 0]
        /\ twice' = freeing(al, twice, ino) /\ freed' = freed \cup {ino}
    BY <1>4 DEF FreeInode, freeing
  <2> QED BY <2>1, <2>2 DEF Inv
<1>5. CASE Full
  BY <1>5, <1>1 DEF Full
<1> QED
  BY <1>1, <1>2, <1>3, <1>4, <1>5 DEF Next

\* The invariant holds after any sequence of allocations and frees.
LEMMA Invariance == Spec => []Inv
  BY InitInv, NextInv, PTL DEF Spec

\* What the invariant says of the allocators' properties.
LEMMA InvImplies ==
    Inv => TypeOK /\ GroupCountsExact /\ SuperblockCountsExact /\ ExclusiveOwners /\ FullIsFull
<1> SUFFICES ASSUME Inv
             PROVE  TypeOK /\ GroupCountsExact /\ SuperblockCountsExact /\ ExclusiveOwners /\ FullIsFull
  OBVIOUS
<1>1. al \in State /\ Tally(twice) /\ Counts(al, twice)
  BY DEF Inv, Good
<1>2. TypeOK
  BY DEF Inv, Good, Tally, TypeOK, State
<1>3. GroupCountsExact /\ SuperblockCountsExact /\ ExclusiveOwners
  BY DEF Inv, Good, GroupCountsExact, Counts, SuperblockCountsExact, Super, ExclusiveOwners, Owned
<1>4. \A g \in Groups : al.bmap[g] \subseteq BlockBits /\ al.imap[g] \subseteq InodeBits
  BY <1>1 DEF State, setsOn
<1>5. ~canAllocBlock(al) => \A g \in Groups : al.bmap[g] = BlockBits
  BY <1>1, <1>4, RoomForBlock DEF canAllocBlock
<1>6. ~canAllocInode(al) => \A g \in Groups : al.imap[g] = InodeBits
  BY <1>1, <1>4, RoomForInode DEF canAllocInode
<1> QED
  BY <1>2, <1>3, <1>5, <1>6 DEF FullIsFull

\* Every state of the allocators is well typed.
THEOREM TypeCorrect == Spec => []TypeOK
BY Invariance, InvImplies, PTL

\* The free counts of the group descriptors are those of the bitmaps and one more
\* for every free of an inode that was free, for any number of groups of any size
\* (allocBlockInGroup, allocInodeInGroup, freeInode).
THEOREM CountsCorrect == Spec => []GroupCountsExact
BY Invariance, InvImplies, PTL

\* The superblock's free counts, which allocBlockInGroup, allocInodeInGroup and
\* freeInode change on their own, are the clear bits of all groups together and
\* one more for every free of an inode that was free.
THEOREM SuperblockCorrect == Spec => []SuperblockCountsExact
BY Invariance, InvImplies, PTL

\* No block and no inode is handed out twice (allocBlock, allocInode).
THEOREM OwnersCorrect == Spec => []ExclusiveOwners
BY Invariance, InvImplies, PTL

\* allocBlock and allocInode fail only on a full file system: the scan over the
\* groups, the skip by the descriptor's count and the search of the bitmap
\* together overlook no clear bit.
THEOREM FullCorrect == Spec => []FullIsFull
BY Invariance, InvImplies, PTL

-----------------------------------------------------------------------------

(***************************************************************************)
(* The inductive invariant.                                                *)
(***************************************************************************)
Extents == [log : Logs, phys : Blocks]
Entries == [first : Nat, at : Blocks, leaf : Seq(Extents)]

\* Block 0 is never handed out, so that it can stand for a hole.
FileType ==
    /\ depth \in {0, 1}
    /\ inline \in Seq(Extents)
    /\ index \in Seq(Entries)
    /\ depth = 0 => index = <<>>
    /\ depth = 1 => Len(index) >= 1
    /\ truth \in [Logs -> Blocks]
    /\ ascending \in BOOLEAN
    /\ blockUsed(al, 0)

\* The extents of a leaf say what was written.
agrees(leaf, w, t) ==
    \A k \in 1..Len(leaf) : leaf[k].log \in w /\ t[leaf[k].log] = leaf[k].phys

truthful(leaf) == agrees(leaf, written, truth)

holds(leaf, l) == \E k \in 1..Len(leaf) : leaf[k].log = l

InlineInv ==
    /\ Len(inline) <= MaxInline
    /\ truthful(inline)
    /\ \A l \in written : holds(inline, l)
    /\ Cardinality(written) = Len(inline)

\* Leaves are never empty nor too long, hold everything that was written, and
\* begin behind everything in the leaves before them; all but the last are full.
Leaves == 1..Len(index)

LeavesInv ==
    /\ Len(index) <= MaxInline
    /\ index[1].first = 0
    /\ \A i \in Leaves : Len(index[i].leaf) \in 1..LeafMax /\ truthful(index[i].leaf)
    /\ \A l \in written : \E i \in Leaves : holds(index[i].leaf, l)
    /\ \A i \in Leaves : \A k \in 1..Len(index[i].leaf) :
          /\ index[i].first <= index[i].leaf[k].log
          /\ \A j \in Leaves : i < j => index[i].leaf[k].log < index[j].first
    /\ Cardinality(written) = (Len(index) - 1) * LeafMax + Len(lastLeaf)

\* The blocks of the tree and of the data are different and in use.
leafBlocks == {index[i].at : i \in Leaves}
dataBlocks == {truth[l] : l \in written}

BlocksInv ==
    /\ leafBlocks \cap dataBlocks = {}
    /\ Cardinality(leafBlocks) = Len(index)
    /\ Cardinality(dataBlocks) = Cardinality(written)
    /\ \A b \in leafBlocks \cup dataBlocks : b \in Blocks /\ blockUsed(al, b)

TreeInv ==
    /\ depth = 0 => InlineInv
    /\ depth = 1 => LeavesInv
    /\ BlocksInv

FileInv == Inv /\ FileType /\ (Supported => TreeInv)

-----------------------------------------------------------------------------
\* The sizes of an inode and of a leaf: 4 extents and 340 at 4 KB blocks.
LEMMA Sizes == /\ MaxInline \in Nat /\ MaxInline >= 2
               /\ LeafMax \in Nat /\ LeafMax > MaxInline
               /\ MaxLog \in Nat
BY ExtentsAssumption

(***************************************************************************)
(* The allocators under the file.                                          *)
(***************************************************************************)

\* The group of inode 1 is the first one.
LEMMA Prefer == prefer \in Groups
<1>1. 1 \in Inodes
  <2>1. NumGroups * InodesPerGroup >= 1
    BY SMTT(30)
  <2> QED BY <2>1 DEF Inodes
<1> QED BY <1>1, InodeDecompose DEF prefer

\* The owners after one more for c, and for all blocks of S as handedOut counts.
Up(ow, c) == [ow EXCEPT ![c] = @ + 1]
Counted(ow, S) == [b \in Blocks |-> ow[b] + IF b \in S THEN 1 ELSE 0]

\* Counting a block up, written as an EXCEPT and as handedOut writes it.
LEMMA HandedOne ==
    ASSUME NEW ow \in [Blocks -> Nat], NEW c \in Blocks
    PROVE  Up(ow, c) = Counted(ow, {c})
<1>1. ASSUME NEW b \in Blocks
      PROVE  [ow EXCEPT ![c] = @ + 1][b] = ow[b] + IF b \in {c} THEN 1 ELSE 0
  <2>1. CASE b = c
    BY <2>1
  <2>2. CASE b # c
    BY <2>2
  <2> QED BY <2>1, <2>2
<1> QED BY <1>1 DEF Up, Counted

\* The same for two different blocks, a data block and a leaf.
LEMMA HandedTwo ==
    ASSUME NEW ow \in [Blocks -> Nat], NEW c \in Blocks, NEW d \in Blocks, c # d
    PROVE  Up(Up(ow, c), d) = Counted(ow, {c, d})
<1> DEFINE f == [ow EXCEPT ![c] = @ + 1]
<1>1. f \in [Blocks -> Nat] /\ f[c] = ow[c] + 1 /\ \A b \in Blocks : b # c => f[b] = ow[b]
  OBVIOUS
<1> HIDE DEF f
<1>2. ASSUME NEW b \in Blocks
      PROVE  [f EXCEPT ![d] = @ + 1][b] = ow[b] + IF b \in {c, d} THEN 1 ELSE 0
  <2>1. CASE b = c
    BY <1>1, <2>1
  <2>2. CASE b = d
    BY <1>1, <2>2
  <2>3. CASE b # c /\ b # d
    BY <1>1, <2>3
  <2> QED BY <2>1, <2>2, <2>3
<1>3. [f EXCEPT ![d] = @ + 1] = [b \in Blocks |-> ow[b] + IF b \in {c, d} THEN 1 ELSE 0]
  BY <1>1, <1>2
<1> QED BY <1>3, Zenon DEF f, Up, Counted

\* One call of allocBlock for the file: the block it gets was free, and is the
\* only one whose bit changes.
LEMMA OneBlock ==
    ASSUME Inv, canAllocBlock(al), al' = data(al).a,
           handedOut({data(al).blk}), UNCHANGED inodeVars
    PROVE  /\ Inv'
           /\ data(al).blk \in Blocks /\ ~blockUsed(al, data(al).blk)
           /\ \A b \in Blocks : blockUsed(al', b) <=> blockUsed(al, b) \/ b = data(al).blk
<1> DEFINE r == allocBlock(al, prefer)
<1>1. /\ r.blk \in Blocks /\ ~blockUsed(al, r.blk)
      /\ \A b \in Blocks : blockUsed(r.a, b) <=> blockUsed(al, b) \/ b = r.blk
      /\ Good(r.a, [owners EXCEPT ![r.blk] = @ + 1], iowners, twice)
  BY BlockStep, Prefer DEF Inv
<1> HIDE DEF r
<1>2. al' = r.a /\ data(al).blk = r.blk
  BY DEF data, r
<1>3. owners' = [owners EXCEPT ![r.blk] = @ + 1]
  <2>1. handedOut({r.blk})
    BY <1>2
  <2>2. owners' = [b \in Blocks |-> owners[b] + IF b \in {r.blk} THEN 1 ELSE 0]
    BY <2>1 DEF handedOut
  <2>3. owners \in [Blocks -> Nat]
    BY DEF Inv, Good
  <2>4. Up(owners, r.blk) = Counted(owners, {r.blk})
    BY <1>1, <2>3, HandedOne
  <2> QED BY <2>2, <2>4 DEF Up, Counted
<1> QED BY <1>1, <1>2, <1>3 DEF Inv, inodeVars

\* Two calls in one write, for the data and for a leaf: two different blocks.
LEMMA TwoBlocks ==
    ASSUME Inv, canAllocBlock(al), canAllocBlock(data(al).a), al' = data(data(al).a).a,
           handedOut({data(al).blk, leafBlock}), UNCHANGED inodeVars
    PROVE  /\ Inv'
           /\ data(al).blk \in Blocks /\ ~blockUsed(al, data(al).blk)
           /\ leafBlock \in Blocks /\ ~blockUsed(al, leafBlock)
           /\ data(al).blk # leafBlock
           /\ \A b \in Blocks : blockUsed(al', b) <=>
                 blockUsed(al, b) \/ b = data(al).blk \/ b = leafBlock
<1> DEFINE r   == allocBlock(al, prefer)
           ow  == [owners EXCEPT ![r.blk] = @ + 1]
           q   == allocBlock(r.a, prefer)
<1>1. /\ r.blk \in Blocks /\ ~blockUsed(al, r.blk)
      /\ \A b \in Blocks : blockUsed(r.a, b) <=> blockUsed(al, b) \/ b = r.blk
      /\ Good(r.a, ow, iowners, twice)
  BY BlockStep, Prefer DEF Inv
<1>2. canAllocBlock(r.a)
  BY DEF data
<1> HIDE DEF r, ow
<1>3. /\ q.blk \in Blocks /\ ~blockUsed(r.a, q.blk)
      /\ \A b \in Blocks : blockUsed(q.a, b) <=> blockUsed(r.a, b) \/ b = q.blk
      /\ Good(q.a, [ow EXCEPT ![q.blk] = @ + 1], iowners, twice)
  BY <1>1, <1>2, BlockStep, Prefer
<1> HIDE DEF q
<1>4. al' = q.a /\ data(al).blk = r.blk /\ leafBlock = q.blk
  BY DEF data, leafBlock, r, q
<1>5. r.blk # q.blk
  BY <1>1, <1>3
<1>6. owners' = [ow EXCEPT ![q.blk] = @ + 1]
  <2>1. handedOut({r.blk, q.blk})
    BY <1>4
  <2>2. owners' = [b \in Blocks |-> owners[b] + IF b \in {r.blk, q.blk} THEN 1 ELSE 0]
    BY <2>1 DEF handedOut
  <2>3. owners \in [Blocks -> Nat]
    BY DEF Inv, Good
  <2>4. [[owners EXCEPT ![r.blk] = @ + 1] EXCEPT ![q.blk] = @ + 1]
          = [b \in Blocks |-> owners[b] + IF b \in {r.blk, q.blk} THEN 1 ELSE 0]
    <3>1. r.blk \in Blocks /\ q.blk \in Blocks /\ r.blk # q.blk
      BY <1>1, <1>3, <1>5
    <3>2. Up(Up(owners, r.blk), q.blk) = Counted(owners, {r.blk, q.blk})
      BY <2>3, <3>1, HandedTwo
    <3> QED BY <3>2, Zenon DEF Up, Counted
  <2> QED BY <2>2, <2>4, Zenon DEF ow
<1> QED BY <1>1, <1>3, <1>4, <1>5, <1>6 DEF Inv, inodeVars

\* What other files do takes no block away: nothing in the driver frees one.
LEMMA OthersKeepBlocks ==
    ASSUME Inv, Next
    PROVE  /\ Inv'
           /\ \A b \in Blocks : blockUsed(al, b) => blockUsed(al', b)
<1>1. Inv'
  BY NextInv
<1>2. ASSUME NEW p \in Groups, AllocBlock(p)
      PROVE  \A b \in Blocks : blockUsed(al, b) => blockUsed(al', b)
  BY <1>2, BlockStep DEF Inv, AllocBlock
<1>3. ASSUME NEW p \in Groups, NEW isDir \in BOOLEAN, AllocInode(p, isDir)
      PROVE  \A b \in Blocks : blockUsed(al, b) => blockUsed(al', b)
  <2>1. al'.bmap = al.bmap
    BY <1>3, InodeStep DEF Inv, AllocInode
  <2> QED BY <2>1 DEF blockUsed
<1>4. ASSUME NEW ino \in Inodes, FreeInode(ino)
      PROVE  \A b \in Blocks : blockUsed(al, b) => blockUsed(al', b)
  <2>1. al'.bmap = al.bmap
    BY <1>4, FreeStep DEF Inv, FreeInode
  <2> QED BY <2>1 DEF blockUsed
<1>5. ASSUME Full
      PROVE  \A b \in Blocks : blockUsed(al, b) => blockUsed(al', b)
  BY <1>5 DEF Full, vars
<1>6. \A b \in Blocks : blockUsed(al, b) => blockUsed(al', b)
  BY <1>2, <1>3, <1>4, <1>5 DEF Next
<1> QED BY <1>1, <1>6

-----------------------------------------------------------------------------
(***************************************************************************)
(* Lookups.                                                                *)
(***************************************************************************)

\* A non-empty set of numbers up to n has a greatest element.
LEMMA BoundedMax ==
    ASSUME NEW n \in Nat, NEW T, T \subseteq 0..n, T # {}
    PROVE  \E x \in T : \A y \in T : y <= x
<1> DEFINE D == {n - x : x \in T}
<1>1. D \subseteq Nat /\ D # {}
  <2>1. \A x \in T : n - x \in Nat
    OBVIOUS
  <2>2. PICK x \in T : TRUE
    OBVIOUS
  <2>3. n - x \in D
    BY <2>2
  <2> QED BY <2>1, <2>3
<1>2. PICK m \in D : \A y \in D : m <= y
  BY <1>1, NatMin
<1>3. PICK x \in T : m = n - x
  BY <1>2
<1>4. ASSUME NEW y \in T PROVE y <= x
  <2>1. n - x <= n - y
    BY <1>2, <1>3
  <2> QED BY <2>1
<1> QED BY <1>4

\* The linear search of a leaf finds what was written, and nothing else.
LEMMA InLeaf ==
    ASSUME NEW leaf \in Seq(Extents), truthful(leaf), NEW l \in Logs
    PROVE  /\ holds(leaf, l) => inLeaf(leaf, l) = truth[l]
           /\ ~holds(leaf, l) => inLeaf(leaf, l) = Hole
<1>1. matches(leaf, l) = {} <=> ~holds(leaf, l)
  BY DEF matches, holds
<1>2. ASSUME matches(leaf, l) # {} PROVE inLeaf(leaf, l) = truth[l]
  <2> DEFINE k == CHOOSE k \in matches(leaf, l) : \A j \in matches(leaf, l) : k <= j
  <2>1. matches(leaf, l) \subseteq Nat
    BY DEF matches
  <2>2. \E x \in matches(leaf, l) : \A y \in matches(leaf, l) : x <= y
    BY <1>2, <2>1, NatMin
  <2>3. k \in matches(leaf, l)
    BY <2>2
  <2>4. inLeaf(leaf, l) = leaf[k].phys
    BY <1>2 DEF inLeaf
  <2> HIDE DEF k
  <2> QED BY <2>3, <2>4 DEF matches, truthful, agrees
<1> QED BY <1>1, <1>2 DEF inLeaf

\* What the index and its leaves consist of.
LEMMA IndexType ==
    ASSUME FileType
    PROVE  /\ Len(index) \in Nat
           /\ \A i \in Leaves :
                /\ index[i].first \in Nat /\ index[i].at \in Blocks
                /\ index[i].leaf \in Seq(Extents) /\ Len(index[i].leaf) \in Nat
                /\ \A k \in 1..Len(index[i].leaf) :
                     index[i].leaf[k].log \in Logs /\ index[i].leaf[k].log \in Nat
<1>1. index \in Seq(Entries)
  BY DEF FileType
<1>2. Len(index) \in Nat /\ \A i \in Leaves : index[i] \in Entries
  BY <1>1 DEF Leaves
<1>3. ASSUME NEW i \in Leaves
      PROVE  /\ index[i].first \in Nat /\ index[i].at \in Blocks
             /\ index[i].leaf \in Seq(Extents)
  BY <1>2 DEF Entries
<1>4. ASSUME NEW i \in Leaves, NEW k \in 1..Len(index[i].leaf)
      PROVE  index[i].leaf[k].log \in Logs /\ index[i].leaf[k].log \in Nat
  <2>1. index[i].leaf \in Seq(Extents)
    BY <1>3
  <2>2. index[i].leaf[k] \in Extents
    BY <2>1
  <2>3. index[i].leaf[k].log \in Logs
    BY <2>2 DEF Extents
  <2> QED BY <2>3 DEF Logs
<1> QED BY <1>2, <1>3, <1>4

\* The scan of the index stops at the leaf that holds the block.
LEMMA ChildHolds ==
    ASSUME FileType, LeavesInv, depth = 1, NEW l \in Logs
    PROVE  /\ reached(l) # {} /\ child(l) \in Leaves
           /\ l \in written => holds(index[child(l)].leaf, l)
<1>0. Len(index) \in Nat /\ Len(index) >= 1 /\ \A i \in Leaves : index[i].first \in Nat
  BY IndexType DEF FileType
<1>1. 1 \in reached(l)
  BY <1>0 DEF LeavesInv, reached, Logs
<1>2. reached(l) \subseteq Leaves /\ reached(l) \subseteq 0..Len(index)
  BY <1>0 DEF reached, Leaves
<1>3. \E i \in reached(l) : \A j \in reached(l) : j <= i
  BY <1>0, <1>1, <1>2, BoundedMax
<1>4. child(l) \in reached(l) /\ \A j \in reached(l) : j <= child(l)
  BY <1>3 DEF child
<1>5. ASSUME l \in written PROVE holds(index[child(l)].leaf, l)
  <2>1. PICK i \in Leaves : holds(index[i].leaf, l)
    BY <1>5 DEF LeavesInv
  <2>2. PICK k \in 1..Len(index[i].leaf) : index[i].leaf[k].log = l
    BY <2>1 DEF holds
  <2>3. index[i].first <= l /\ \A j \in Leaves : i < j => l < index[j].first
    BY <2>2 DEF LeavesInv
  <2>4. ASSUME NEW j \in Leaves, j < i PROVE index[j].first <= l
    <3>1. /\ 1 \in 1..Len(index[j].leaf)
          /\ index[j].leaf[1].log \in Logs
      <4>1. Len(index[j].leaf) \in 1..LeafMax
        BY DEF LeavesInv
      <4> QED BY <4>1, Sizes, IndexType
    <3>2. index[j].first <= index[j].leaf[1].log /\ index[j].leaf[1].log < index[i].first
      BY <2>4, <3>1 DEF LeavesInv
    <3> QED BY <1>0, <2>3, <3>1, <3>2 DEF Logs
  <2>5. i \in reached(l)
    BY <2>3, <2>4 DEF reached, Leaves
  <2>6. ASSUME NEW j \in reached(l) PROVE j <= i
    <3>1. j \in Leaves /\ index[j].first <= l
      BY <1>2, <2>6 DEF reached
    <3> QED BY <1>0, <2>3, <3>1 DEF Leaves, Logs
  <2>7. child(l) = i
    BY <1>2, <1>4, <2>5, <2>6 DEF Leaves
  <2> QED BY <2>1, <2>7
<1> QED BY <1>1, <1>2, <1>4, <1>5

\* logicalToPhysical answers with the block that was given, or with a hole.
LEMMA Lookup ==
    ASSUME FileType, TreeInv, NEW l \in Logs
    PROVE  logicalToPhysical(l) = truth[l]
<1>1. l \notin written => truth[l] = Hole
  BY DEF written
<1>2. CASE depth = 0
  <2>1. inline \in Seq(Extents) /\ truthful(inline) /\ (l \in written => holds(inline, l))
    BY <1>2 DEF FileType, TreeInv, InlineInv
  <2>2. l \notin written => ~holds(inline, l)
    BY <2>1 DEF truthful, agrees, holds
  <2> QED BY <1>1, <1>2, <2>1, <2>2, InLeaf DEF logicalToPhysical
<1>3. CASE depth = 1
  <2>1. LeavesInv
    BY <1>3 DEF TreeInv
  <2>2. /\ reached(l) # {} /\ child(l) \in Leaves
        /\ l \in written => holds(index[child(l)].leaf, l)
    BY <1>3, <2>1, ChildHolds
  <2>3. index[child(l)].leaf \in Seq(Extents) /\ truthful(index[child(l)].leaf)
    BY <2>1, <2>2, IndexType DEF LeavesInv
  <2>4. l \notin written => ~holds(index[child(l)].leaf, l)
    BY <2>3 DEF truthful, agrees, holds
  <2> QED BY <1>1, <1>3, <2>2, <2>3, <2>4, InLeaf DEF logicalToPhysical
<1> QED BY <1>2, <1>3 DEF FileType

\* Even in a tree that is no longer supported a lookup answers with a block.
LEMMA LookupType ==
    ASSUME FileType, NEW l \in Logs
    PROVE  logicalToPhysical(l) \in Blocks
<1>0. Hole \in Blocks
  <2>1. NumGroups * BlocksPerGroup - 1 >= 0
    BY SMTT(30)
  <2> QED BY <2>1 DEF Hole, Blocks
<1>1. ASSUME NEW leaf \in Seq(Extents) PROVE inLeaf(leaf, l) \in Blocks
  <2>1. CASE matches(leaf, l) = {}
    BY <1>0, <2>1 DEF inLeaf
  <2>2. CASE matches(leaf, l) # {}
    <3> DEFINE k == CHOOSE k \in matches(leaf, l) : \A j \in matches(leaf, l) : k <= j
    <3>1. matches(leaf, l) \subseteq Nat
      BY DEF matches
    <3>2. \E x \in matches(leaf, l) : \A y \in matches(leaf, l) : x <= y
      BY <2>2, <3>1, NatMin
    <3>3. k \in matches(leaf, l)
      BY <3>2
    <3>4. inLeaf(leaf, l) = leaf[k].phys
      BY <2>2 DEF inLeaf
    <3> HIDE DEF k
    <3>5. leaf[k] \in Extents
      BY <3>3 DEF matches
    <3> QED BY <3>4, <3>5 DEF Extents
  <2> QED BY <2>1, <2>2
<1>2. CASE depth = 0
  BY <1>1, <1>2 DEF logicalToPhysical, FileType
<1>3. CASE depth = 1 /\ reached(l) = {}
  BY <1>0, <1>3 DEF logicalToPhysical
<1>4. CASE depth = 1 /\ reached(l) # {}
  <2>1. Len(index) \in Nat
    BY IndexType
  <2>2. reached(l) \subseteq Leaves /\ reached(l) \subseteq 0..Len(index)
    BY <2>1 DEF reached, Leaves
  <2>3. \E i \in reached(l) : \A j \in reached(l) : j <= i
    BY <1>4, <2>1, <2>2, BoundedMax
  <2>4. child(l) \in Leaves
    BY <2>2, <2>3 DEF child
  <2>5. index[child(l)].leaf \in Seq(Extents)
    BY <2>4, IndexType
  <2> QED BY <1>1, <1>4, <2>5 DEF logicalToPhysical
<1> QED BY <1>2, <1>3, <1>4 DEF FileType

-----------------------------------------------------------------------------
(***************************************************************************)
(* What one more block does to the parts of the invariant.                 *)
(***************************************************************************)

\* Only finitely many blocks of a file have been written.
LEMMA WrittenFinite ==
    /\ IsFiniteSet(Logs)
    /\ IsFiniteSet(written) /\ Cardinality(written) \in Nat
<1>1. IsFiniteSet(Logs)
  BY Sizes, FS_Interval DEF Logs
<1>2. written \in SUBSET Logs
  BY DEF written
<1> QED BY <1>1, <1>2, FS_Subset, FS_CardinalityType

\* A tree that has left the supported shape does not come back to it.
LEMMA SupportedBefore ==
    ASSUME FileType, written \subseteq written', ascending' => ascending,
           depth = 0 \/ (depth' = 1 /\ Len(index') \in Nat /\ Len(index) <= Len(index')),
           Supported'
    PROVE  Supported
<1>1. CASE depth = 0
  BY <1>1 DEF Supported
<1>2. CASE depth = 1
  <2>0. Len(index) \in Nat /\ Len(index) >= 1 /\ depth' = 1 /\ Len(index) <= Len(index') /\ Len(index') \in Nat
    BY <1>2, IndexType DEF FileType
  <2>1. Len(index') = 1 \/ (ascending' /\ Cardinality(written') <= MaxInline * LeafMax)
    BY <2>0 DEF Supported
  <2>2. CASE Len(index') = 1
    BY <2>0, <2>2 DEF Supported
  <2>3. CASE ascending' /\ Cardinality(written') <= MaxInline * LeafMax
    <3>1. written' \in SUBSET Logs
      BY DEF written
    <3>2. IsFiniteSet(written') /\ Cardinality(written') \in Nat
      BY <3>1, WrittenFinite, FS_Subset, FS_CardinalityType
    <3>3. Cardinality(written) <= Cardinality(written') /\ Cardinality(written) \in Nat
      BY <3>2, WrittenFinite, FS_Subset
    <3>4. MaxInline * LeafMax \in Nat
      BY Sizes
    <3>5. Cardinality(written) <= MaxInline * LeafMax
      BY <2>3, <3>2, <3>3, <3>4
    <3> QED BY <2>3, <3>5 DEF Supported
  <2> QED BY <2>1, <2>2, <2>3
<1> QED BY <1>1, <1>2 DEF FileType

\* Giving a block to a hole.
LEMMA NewBlock ==
    ASSUME FileType, NEW l \in Logs, l \notin written,
           NEW blk \in Blocks, blk # Hole, truth' = [truth EXCEPT ![l] = blk]
    PROVE  /\ truth' \in [Logs -> Blocks]
           /\ \A k \in Logs : truth'[k] = IF k = l THEN blk ELSE truth[k]
           /\ written' = written \cup {l}
           /\ Cardinality(written') = Cardinality(written) + 1
           /\ dataBlocks' = dataBlocks \cup {blk}
<1>1. truth \in [Logs -> Blocks]
  BY DEF FileType
<1>2. truth' \in [Logs -> Blocks] /\ \A k \in Logs : truth'[k] = IF k = l THEN blk ELSE truth[k]
  BY <1>1
<1>3. written' = written \cup {l}
  BY <1>2 DEF written
<1>4. Cardinality(written') = Cardinality(written) + 1
  BY <1>3, WrittenFinite, FS_AddElement
<1>5. dataBlocks' = dataBlocks \cup {blk}
  <2>1. dataBlocks' = {truth'[k] : k \in written \cup {l}}
    BY <1>3 DEF dataBlocks
  <2>2. truth'[l] = blk /\ \A k \in written : truth'[k] = truth[k]
    BY <1>2 DEF written
  <2> QED BY <2>1, <2>2 DEF dataBlocks
<1> QED BY <1>2, <1>3, <1>4, <1>5

\* Extents that told the truth still do when a hole is given a block.
LEMMA StillTrue ==
    ASSUME FileType, NEW l \in Logs, l \notin written,
           NEW blk \in Blocks, blk # Hole, truth' = [truth EXCEPT ![l] = blk]
    PROVE  \A leaf \in Seq(Extents) : truthful(leaf) => agrees(leaf, written', truth')
<1>1. \A k \in Logs : truth'[k] = IF k = l THEN blk ELSE truth[k]
  BY NewBlock
<1>2. written' = written \cup {l}
  BY NewBlock
<1>3. ASSUME NEW leaf \in Seq(Extents), truthful(leaf), NEW k \in 1..Len(leaf)
      PROVE  leaf[k].log \in written' /\ truth'[leaf[k].log] = leaf[k].phys
  <2>1. leaf[k].log \in written /\ truth[leaf[k].log] = leaf[k].phys
    BY <1>3 DEF truthful, agrees
  <2>2. leaf[k].log \in Logs /\ leaf[k].log # l
    BY <2>1 DEF written
  <2> QED BY <1>1, <1>2, <2>1, <2>2
<1> QED BY <1>3 DEF agrees

\* new is leaf and one extent more.
GrownBy(leaf, e, new) ==
    /\ new \in Seq(Extents) /\ Len(new) = Len(leaf) + 1
    /\ \A k \in 1..Len(new) : (k \in 1..Len(leaf) /\ new[k] = leaf[k]) \/ new[k] = e
    /\ \A x : holds(new, x) <=> holds(leaf, x) \/ x = e.log
    /\ \A w, t : agrees(leaf, w, t) /\ e.log \in w /\ t[e.log] = e.phys => agrees(new, w, t)

\* One extent more at the end of a leaf.
LEMMA LeafGrows ==
    ASSUME NEW leaf \in Seq(Extents), NEW e \in Extents
    PROVE  GrownBy(leaf, e, Append(leaf, e))
<1> DEFINE new == Append(leaf, e)
<1>1. /\ new \in Seq(Extents) /\ Len(new) = Len(leaf) + 1 /\ Len(leaf) \in Nat
      /\ \A k \in 1..Len(leaf) : new[k] = leaf[k]
      /\ new[Len(leaf) + 1] = e
  OBVIOUS
<1> HIDE DEF new
<1>2. \A k \in 1..Len(new) : (k \in 1..Len(leaf) /\ new[k] = leaf[k]) \/ new[k] = e
  BY <1>1
<1>3. \A x : holds(new, x) <=> holds(leaf, x) \/ x = e.log
  <2> TAKE x
  <2>1. ASSUME holds(leaf, x) PROVE holds(new, x)
    BY <1>1, <2>1 DEF holds
  <2>2. holds(new, e.log)
    <3>1. Len(leaf) + 1 \in 1..Len(new)
      BY <1>1
    <3> QED BY <1>1, <3>1 DEF holds
  <2>3. ASSUME holds(new, x), x # e.log PROVE holds(leaf, x)
    BY <1>2, <2>3 DEF holds
  <2> QED BY <2>1, <2>2, <2>3
<1>4. ASSUME NEW w, NEW t, agrees(leaf, w, t), e.log \in w, t[e.log] = e.phys
      PROVE  agrees(new, w, t)
  BY <1>2, <1>4 DEF agrees
<1>5. GrownBy(leaf, e, new)
  BY <1>1, <1>2, <1>3, <1>4 DEF GrownBy
<1> QED BY <1>5 DEF new

\* A new data block, alone or with a new block for a leaf.
LEMMA BlocksGrow ==
    ASSUME FileType, BlocksInv, NEW blk \in Blocks, ~blockUsed(al, blk),
           \A b \in Blocks : blockUsed(al, b) \/ b = blk => blockUsed(al', b),
           dataBlocks' = dataBlocks \cup {blk},
           Cardinality(written') = Cardinality(written) + 1,
           \/ leafBlocks' = leafBlocks /\ Len(index') = Len(index)
           \/ \E lb \in Blocks : /\ ~blockUsed(al, lb) /\ lb # blk /\ blockUsed(al', lb)
                                 /\ leafBlocks' = leafBlocks \cup {lb}
                                 /\ Len(index') = Len(index) + 1
    PROVE  BlocksInv'
<1>0. \A b \in leafBlocks \cup dataBlocks : b \in Blocks /\ blockUsed(al, b) /\ b # blk
  BY DEF BlocksInv
<1>1. IsFiniteSet(Blocks)
  <2>1. NumGroups * BlocksPerGroup - 1 \in Int
    OBVIOUS
  <2> QED BY <2>1, FS_Interval DEF Blocks
<1>2. IsFiniteSet(leafBlocks) /\ IsFiniteSet(dataBlocks)
  <2>1. leafBlocks \in SUBSET Blocks /\ dataBlocks \in SUBSET Blocks
    BY <1>0
  <2> QED BY <1>1, <2>1, FS_Subset
<1>3. Cardinality(dataBlocks') = Cardinality(dataBlocks) + 1
  <2>1. blk \notin dataBlocks
    BY <1>0
  <2> QED BY <1>2, <2>1, FS_AddElement
<1>4. leafBlocks \cap dataBlocks = {} /\ Cardinality(leafBlocks) = Len(index)
      /\ Cardinality(dataBlocks) = Cardinality(written)
  BY DEF BlocksInv
<1>5. Cardinality(dataBlocks') = Cardinality(written')
  BY <1>3, <1>4
<1>6. CASE leafBlocks' = leafBlocks /\ Len(index') = Len(index)
  <2>1. leafBlocks' \cap dataBlocks' = {}
    BY <1>0, <1>4, <1>6
  <2>2. \A b \in leafBlocks' \cup dataBlocks' : b \in Blocks /\ blockUsed(al', b)
    BY <1>0, <1>6
  <2> QED BY <1>4, <1>5, <1>6, <2>1, <2>2 DEF BlocksInv
<1>7. ASSUME NEW lb \in Blocks, ~blockUsed(al, lb), lb # blk, blockUsed(al', lb),
             leafBlocks' = leafBlocks \cup {lb}, Len(index') = Len(index) + 1
      PROVE  BlocksInv'
  <2>1. lb \notin leafBlocks /\ lb \notin dataBlocks
    BY <1>0, <1>7
  <2>2. leafBlocks' \cap dataBlocks' = {}
    BY <1>0, <1>4, <1>7, <2>1
  <2>3. Cardinality(leafBlocks') = Len(index')
    <3>1. Cardinality(leafBlocks \cup {lb}) = Cardinality(leafBlocks) + 1
      BY <1>2, <2>1, FS_AddElement
    <3> QED BY <1>4, <1>7, <3>1
  <2>4. \A b \in leafBlocks' \cup dataBlocks' : b \in Blocks /\ blockUsed(al', b)
    BY <1>0, <1>7
  <2> QED BY <1>5, <2>2, <2>3, <2>4 DEF BlocksInv
<1> QED BY <1>6, <1>7

-----------------------------------------------------------------------------
(***************************************************************************)
(* Every action preserves the invariant.                                   *)
(***************************************************************************)

\* An empty file on a consistent file system.
LEMMA FileInitInv == FileInit => FileInv
<1> SUFFICES ASSUME FileInit PROVE FileInv
  OBVIOUS
<1>1. PICK bmap \in UsedBlocks, imap \in UsedInodes : al = consistent(bmap, imap)
  BY DEF FileInit
<1>2. bmap \in setsOn(BlockBits) /\ imap \in setsOn(InodeBits) /\ 0 \in bmap[0]
  BY ExtentsAssumption
<1>3. Inv
  BY <1>1, <1>2, ConsistentGood DEF FileInit, Inv
<1>4. blockUsed(al, 0)
  <2>1. 0 % BlocksPerGroup = 0 /\ 0 \div BlocksPerGroup = 0
    BY SMTT(30)
  <2>2. al.bmap = bmap
    BY <1>1 DEF consistent
  <2> QED BY <1>2, <2>1, <2>2 DEF blockUsed
<1>5. FileType
  <2>1. Hole \in Blocks
    <3>1. NumGroups * BlocksPerGroup - 1 >= 0
      BY SMTT(30)
    <3> QED BY <3>1 DEF Hole, Blocks
  <2>2. truth \in [Logs -> Blocks]
    BY <2>1 DEF FileInit
  <2>3. inline \in Seq(Extents) /\ index \in Seq(Entries)
    BY DEF FileInit
  <2> QED BY <1>4, <2>2, <2>3 DEF FileInit, FileType
<1>6. written = {} /\ Cardinality(written) = 0
  <2>1. written = {}
    BY DEF FileInit, written
  <2> QED BY <2>1, FS_EmptySet
<1>7. InlineInv
  BY <1>6, Sizes DEF InlineInv, FileInit, truthful, agrees
<1>8. BlocksInv
  <2>1. leafBlocks = {} /\ dataBlocks = {}
    BY <1>6 DEF leafBlocks, dataBlocks, Leaves, FileInit
  <2>2. Cardinality({}) = 0
    BY FS_EmptySet
  <2> QED BY <1>6, <2>1, <2>2 DEF BlocksInv, FileInit
<1> QED BY <1>3, <1>5, <1>7, <1>8 DEF FileInv, TreeInv, FileInit

\* Nothing that the tree's invariant reads has changed but bits that were set.
LEMMA TreeUnchanged ==
    ASSUME FileType, Supported => TreeInv, Inv', UNCHANGED <<depth, inline, index, truth, ascending>>,
           \A b \in Blocks : blockUsed(al, b) => blockUsed(al', b)
    PROVE  FileInv'
<1>1. 0 \in Blocks
  <2>1. NumGroups * BlocksPerGroup - 1 >= 0
    BY SMTT(30)
  <2> QED BY <2>1 DEF Blocks
<1>2. FileType'
  BY <1>1 DEF FileType
<1>3. Supported' => Supported
  BY DEF Supported, written
<1>4. ASSUME TreeInv PROVE TreeInv'
  <2>1. InlineInv => InlineInv'
    BY DEF InlineInv, truthful, written
  <2>2. LeavesInv => LeavesInv'
    BY DEF LeavesInv, Leaves, truthful, written, lastLeaf
  <2>3. BlocksInv'
    BY <1>4 DEF TreeInv, BlocksInv, leafBlocks, dataBlocks, Leaves, written
  <2> QED BY <1>4, <2>1, <2>2, <2>3 DEF TreeInv
<1> QED BY <1>2, <1>3, <1>4 DEF FileInv

\* Writing to a block in place leaves the tree alone, and is to the right block.
LEMMA OverwriteInv ==
    ASSUME FileInv, NEW l \in Logs, Overwrite(l)
    PROVE  FileInv'
<1>1. /\ FileType /\ Inv /\ (Supported => TreeInv)
      /\ UNCHANGED <<al, owners, iowners, freed, twice, depth, inline, index, ascending>>
      /\ truth' = [truth EXCEPT ![l] = logicalToPhysical(l)]
      /\ logicalToPhysical(l) # Hole /\ logicalToPhysical(l) \in Blocks
  BY LookupType DEF FileInv, Overwrite, found, vars, tree
<1>2. Inv'
  BY <1>1 DEF Inv
<1>3. CASE Supported
  <2>1. logicalToPhysical(l) = truth[l]
    BY <1>1, <1>3, Lookup
  <2>2. truth' = truth
    BY <1>1, <2>1 DEF FileType
  <2> QED BY <1>1, <1>2, <2>2, TreeUnchanged
<1>4. CASE ~Supported
  <2>1. truth' \in [Logs -> Blocks] /\ written \subseteq written'
    BY <1>1 DEF FileType, written
  <2>2. FileType'
    BY <1>1, <2>1 DEF FileType
  <2>3. ~Supported'
    <3>1. Len(index) \in Nat
      BY <1>1, IndexType
    <3> QED BY <1>1, <1>4, <2>1, <3>1, SupportedBefore DEF FileType
  <2> QED BY <1>2, <2>2, <2>3 DEF FileInv
<1> QED BY <1>3, <1>4

\* The facts every action shares that gives a block to a hole.
LEMMA GaveBlock ==
    ASSUME FileInv, NEW l \in Logs, missing(l),
           NEW blk \in Blocks, ~blockUsed(al, blk), blk = data(al).blk, gaveBlock(l)
    PROVE  /\ blk # Hole
           /\ truth' = [truth EXCEPT ![l] = blk] /\ truth' \in [Logs -> Blocks]
           /\ extent(l) = [log |-> l, phys |-> blk] /\ extent(l) \in Extents
           /\ ascending' \in BOOLEAN /\ (ascending' => ascending)
           /\ ascending' => \A k \in written : k < l
           /\ written \subseteq written'
           /\ Supported => l \notin written
<1>1. FileType /\ (Supported => TreeInv) /\ logicalToPhysical(l) = Hole
  BY DEF FileInv, missing
<1>2. blk # Hole
  BY <1>1 DEF FileType, Hole
<1>3. truth' = [truth EXCEPT ![l] = blk]
  BY DEF gaveBlock
<1>4. truth' \in [Logs -> Blocks] /\ written \subseteq written'
  BY <1>1, <1>2, <1>3 DEF FileType, written
<1>5. extent(l) = [log |-> l, phys |-> blk] /\ extent(l) \in Extents
  BY DEF extent, Extents
<1>6. /\ ascending' \in BOOLEAN /\ (ascending' => ascending)
      /\ ascending' => \A k \in written : k < l
  BY <1>1 DEF gaveBlock, FileType
<1>7. Supported => l \notin written
  BY <1>1, Lookup DEF written
<1> QED BY <1>2, <1>3, <1>4, <1>5, <1>6, <1>7

\* An extent is added to the inode.
LEMMA AppendInlineInv ==
    ASSUME FileInv, NEW l \in Logs, AppendInline(l)
    PROVE  FileInv'
<1> DEFINE blk == data(al).blk
           e   == extent(l)
<1>1. /\ FileType /\ Inv /\ (Supported => TreeInv) /\ depth = 0 /\ Len(inline) < MaxInline
      /\ missing(l) /\ gaveBlock(l) /\ UNCHANGED inodeVars
      /\ canAllocBlock(al) /\ al' = data(al).a /\ handedOut({blk})
      /\ inline' = Append(inline, e) /\ depth' = depth /\ index' = index
  BY DEF FileInv, AppendInline, gaveData, gaveBlock
<1>2. /\ Inv' /\ blk \in Blocks /\ ~blockUsed(al, blk)
      /\ \A b \in Blocks : blockUsed(al', b) <=> blockUsed(al, b) \/ b = blk
  BY <1>1, OneBlock
<1> HIDE DEF blk, e
<1>3. blk = data(al).blk /\ e = extent(l)
  BY DEF blk, e
<1>4. /\ blk # Hole
      /\ truth' = [truth EXCEPT ![l] = blk] /\ truth' \in [Logs -> Blocks]
      /\ e = [log |-> l, phys |-> blk] /\ e \in Extents
      /\ ascending' \in BOOLEAN
      /\ written \subseteq written'
      /\ Supported => l \notin written
  BY <1>1, <1>2, <1>3, GaveBlock
<1>5. 0 \in Blocks
  <2>1. NumGroups * BlocksPerGroup - 1 >= 0
    BY SMTT(30)
  <2> QED BY <2>1 DEF Blocks
<1>6. inline' \in Seq(Extents) /\ Len(inline) \in Nat
  BY <1>1, <1>4 DEF FileType
<1>7. FileType'
  BY <1>1, <1>2, <1>4, <1>5, <1>6 DEF FileType
<1>8. Supported
  BY <1>1 DEF Supported
<1>9. TreeInv /\ InlineInv /\ BlocksInv /\ l \notin written
  BY <1>1, <1>4, <1>8 DEF TreeInv
<1>10. /\ written' = written \cup {l}
       /\ Cardinality(written') = Cardinality(written) + 1
       /\ dataBlocks' = dataBlocks \cup {blk}
  BY <1>1, <1>2, <1>4, <1>9, NewBlock
<1>11. /\ Len(inline') = Len(inline) + 1
       /\ agrees(inline', written', truth')
       /\ \A x : holds(inline', x) <=> holds(inline, x) \/ x = l
  <2>1. inline \in Seq(Extents) /\ truthful(inline)
    BY <1>1, <1>9 DEF FileType, InlineInv
  <2>2. agrees(inline, written', truth')
    <3>1. \A leaf \in Seq(Extents) : truthful(leaf) => agrees(leaf, written', truth')
      BY <1>1, <1>2, <1>4, <1>9, StillTrue
    <3> QED BY <2>1, <3>1
  <2>3. e.log = l /\ e.phys = blk /\ l \in written' /\ truth'[l] = blk
    BY <1>1, <1>4, <1>10 DEF FileType
  <2>4. e \in Extents /\ inline' = Append(inline, e)
    BY <1>1, <1>4
  <2>5. GrownBy(inline, e, inline')
    BY <2>1, <2>4, LeafGrows
  <2> QED BY <2>2, <2>3, <2>5 DEF GrownBy
<1>12. InlineInv'
  <2>1. Len(inline') <= MaxInline
    BY <1>1, <1>6, <1>11, Sizes
  <2>2. truthful(inline)'
    BY <1>11 DEF truthful
  <2>3. \A x \in written' : holds(inline', x)
    BY <1>9, <1>10, <1>11 DEF InlineInv
  <2>4. Cardinality(written') = Len(inline')
    BY <1>9, <1>10, <1>11 DEF InlineInv
  <2> QED BY <2>1, <2>2, <2>3, <2>4 DEF InlineInv
<1>13. BlocksInv'
  <2>1. leafBlocks' = leafBlocks /\ Len(index') = Len(index)
    BY <1>1 DEF leafBlocks, Leaves
  <2> QED BY <1>1, <1>2, <1>9, <1>10, <2>1, BlocksGrow
<1> QED BY <1>1, <1>2, <1>7, <1>12, <1>13 DEF FileInv, TreeInv

\* Two blocks are handed out, the first to a hole: for a leaf, the other.
LEMMA GaveLeaf ==
    ASSUME FileInv, NEW l \in Logs, missing(l), gaveLeaf(l)
    PROVE  \E blk \in Blocks, lb \in Blocks :
              /\ blk = data(al).blk /\ lb = leafBlock /\ blk # lb
              /\ ~blockUsed(al, blk) /\ ~blockUsed(al, lb)
              /\ Inv' /\ gaveBlock(l)
              /\ \A b \in Blocks : blockUsed(al', b) <=> blockUsed(al, b) \/ b = blk \/ b = lb
<1>1. /\ Inv /\ canAllocBlock(al) /\ canAllocBlock(data(al).a) /\ al' = data(data(al).a).a
      /\ handedOut({data(al).blk, leafBlock}) /\ UNCHANGED inodeVars /\ gaveBlock(l)
  BY DEF FileInv, gaveLeaf, gaveBlock, leafBlock
<1> QED BY <1>1, TwoBlocks

\* The inline extents move to the first leaf.
LEMMA PromoteInv ==
    ASSUME FileInv, NEW l \in Logs, Promote(l)
    PROVE  FileInv'
<1>1. /\ FileType /\ Inv /\ (Supported => TreeInv) /\ depth = 0 /\ Len(inline) = MaxInline
      /\ missing(l) /\ gaveLeaf(l) /\ depth' = 1 /\ inline' = <<>>
      /\ index' = <<[first |-> 0, at |-> leafBlock, leaf |-> Append(inline, extent(l))]>>
  BY DEF FileInv, Promote, needsLeaf
<1>2. PICK blk \in Blocks, lb \in Blocks :
              /\ blk = data(al).blk /\ lb = leafBlock /\ blk # lb
              /\ ~blockUsed(al, blk) /\ ~blockUsed(al, lb)
              /\ Inv' /\ gaveBlock(l)
              /\ \A b \in Blocks : blockUsed(al', b) <=> blockUsed(al, b) \/ b = blk \/ b = lb
  BY <1>1, GaveLeaf
<1>3. PICK e : e = extent(l)
  OBVIOUS
<1>4. /\ blk # Hole
      /\ truth' = [truth EXCEPT ![l] = blk] /\ truth' \in [Logs -> Blocks]
      /\ e = [log |-> l, phys |-> blk] /\ e \in Extents
      /\ ascending' \in BOOLEAN
      /\ Supported => l \notin written
  BY <1>1, <1>2, <1>3, GaveBlock
<1>5. 0 \in Blocks
  <2>1. NumGroups * BlocksPerGroup - 1 >= 0
    BY SMTT(30)
  <2> QED BY <2>1 DEF Blocks
<1>6. PICK leaf : leaf = Append(inline, e)
  OBVIOUS
<1>7. PICK entry : entry = [first |-> 0, at |-> lb, leaf |-> leaf]
  OBVIOUS
<1>8. TreeInv /\ InlineInv /\ BlocksInv /\ l \notin written /\ index = <<>>
  BY <1>1, <1>4 DEF TreeInv, Supported, FileType
<1>9. inline \in Seq(Extents) /\ truthful(inline)
  BY <1>1, <1>8 DEF FileType, InlineInv
<1>10. /\ written' = written \cup {l}
       /\ Cardinality(written') = Cardinality(written) + 1
       /\ dataBlocks' = dataBlocks \cup {blk}
  BY <1>1, <1>2, <1>4, <1>8, NewBlock
<1>11. /\ leaf \in Seq(Extents) /\ Len(leaf) = MaxInline + 1
       /\ agrees(leaf, written', truth')
       /\ \A x : holds(leaf, x) <=> holds(inline, x) \/ x = l
  <2>1. agrees(inline, written', truth')
    <3>1. \A f \in Seq(Extents) : truthful(f) => agrees(f, written', truth')
      BY <1>1, <1>2, <1>4, <1>8, StillTrue
    <3> QED BY <1>9, <3>1
  <2>2. e.log = l /\ e.phys = blk /\ l \in written' /\ truth'[l] = blk
    BY <1>1, <1>4, <1>10 DEF FileType
  <2>3. e \in Extents /\ Len(inline) = MaxInline
    BY <1>1, <1>4
  <2>4. GrownBy(inline, e, leaf)
    BY <1>6, <1>9, <2>3, LeafGrows
  <2> QED BY <2>1, <2>2, <2>3, <2>4 DEF GrownBy
<1>12. /\ entry.first = 0 /\ entry.at = lb /\ entry.leaf = leaf /\ entry \in Entries
       /\ index' = <<entry>>
  BY <1>1, <1>2, <1>3, <1>6, <1>7, <1>11 DEF Entries
<1>13. Len(index') = 1 /\ index'[1] = entry /\ index' \in Seq(Entries)
  BY <1>12
<1>14. FileType'
  <2>1. inline' \in Seq(Extents)
    BY <1>1
  <2> QED BY <1>1, <1>2, <1>4, <1>5, <1>13, <2>1 DEF FileType
<1>15. LeavesInv'
  <2>1. Len(index') <= MaxInline /\ index'[1].first = 0 /\ Leaves' = {1}
    BY <1>12, <1>13, Sizes DEF Leaves
  <2>2. index'[1].leaf = leaf /\ lastLeaf' = leaf
    BY <1>12, <1>13 DEF lastLeaf
  <2>3. Len(leaf) \in 1..LeafMax /\ agrees(leaf, written', truth')
    BY <1>11, Sizes
  <2>4. \A x \in written' : holds(leaf, x)
    BY <1>8, <1>10, <1>11 DEF InlineInv
  <2>5. \A k \in 1..Len(leaf) : 0 <= leaf[k].log
    <3> TAKE k \in 1..Len(leaf)
    <3>1. leaf[k] \in Extents
      BY <1>11
    <3> QED BY <3>1 DEF Extents, Logs
  <2>6. Cardinality(written') = (Len(index') - 1) * LeafMax + Len(leaf)
    <3>1. Cardinality(written') = MaxInline + 1
      BY <1>1, <1>8, <1>10 DEF InlineInv
    <3> QED BY <1>11, <1>13, <3>1, Sizes
  <2>7. /\ \A i \in {1} : Len(index'[i].leaf) \in 1..LeafMax /\ agrees(index'[i].leaf, written', truth')
        /\ \A x \in written' : \E i \in {1} : holds(index'[i].leaf, x)
        /\ \A i \in {1} : \A k \in 1..Len(index'[i].leaf) :
              /\ index'[i].first <= index'[i].leaf[k].log
              /\ \A j \in {1} : i < j => index'[i].leaf[k].log < index'[j].first
    BY <2>1, <2>2, <2>3, <2>4, <2>5
  <2> QED BY <2>1, <2>2, <2>6, <2>7 DEF LeavesInv, truthful
<1>16. BlocksInv'
  <2>1. leafBlocks = {} /\ Len(index) = 0
    BY <1>8 DEF leafBlocks, Leaves
  <2>2. leafBlocks' = {lb}
    BY <1>12, <1>13 DEF leafBlocks, Leaves
  <2>3. leafBlocks' = leafBlocks \cup {lb} /\ Len(index') = Len(index) + 1
    BY <1>13, <2>1, <2>2
  <2> QED BY <1>1, <1>2, <1>8, <1>10, <2>3, BlocksGrow
<1> QED BY <1>1, <1>2, <1>14, <1>15, <1>16 DEF FileInv, TreeInv

\* An extent is added to the last leaf: the other entries stay as they are.
LEMMA LastLeafGrows ==
    ASSUME FileType, depth = 1, NEW e \in Extents,
           index' = [index EXCEPT ![Len(index)].leaf = Append(@, e)]
    PROVE  /\ index' \in Seq(Entries) /\ Len(index') = Len(index)
           /\ Len(index) \in Leaves
           /\ \A i \in Leaves : /\ index'[i].first = index[i].first
                                /\ index'[i].at = index[i].at
                                /\ i # Len(index) => index'[i].leaf = index[i].leaf
           /\ index'[Len(index)].leaf = Append(lastLeaf, e)
<1>1. index \in Seq(Entries) /\ Len(index) \in Nat /\ Len(index) \in Leaves
  BY IndexType DEF FileType, Leaves
<1>2. PICK n : n = Len(index)
  OBVIOUS
<1>3. PICK old : old = index[n]
  OBVIOUS
<1>4. old \in Entries /\ old.leaf \in Seq(Extents) /\ lastLeaf = old.leaf
  <2>1. old \in Entries
    BY <1>1, <1>2, <1>3 DEF Leaves
  <2>2. lastLeaf = old.leaf
    BY <1>2, <1>3 DEF lastLeaf
  <2> QED BY <2>1, <2>2 DEF Entries
<1>5. PICK new : new = [old EXCEPT !.leaf = Append(old.leaf, e)]
  OBVIOUS
<1>6. /\ new \in Entries /\ new.first = old.first /\ new.at = old.at
      /\ new.leaf = Append(old.leaf, e)
  <2>1. Append(old.leaf, e) \in Seq(Extents)
    BY <1>4
  <2> QED BY <1>4, <1>5, <2>1 DEF Entries
<1>7. index' = [index EXCEPT ![n] = new]
  BY <1>2, <1>3, <1>5
<1>8. /\ index' \in Seq(Entries) /\ Len(index') = n
      /\ \A i \in 1..n : index'[i] = IF i = n THEN new ELSE index[i]
  <2>1. n \in 1..Len(index) /\ new \in Entries /\ index \in Seq(Entries)
    BY <1>1, <1>2, <1>6 DEF Leaves
  <2> HIDE DEF Entries
  <2>2. /\ [index EXCEPT ![n] = new] \in Seq(Entries)
        /\ Len([index EXCEPT ![n] = new]) = Len(index)
        /\ \A i \in 1..Len(index) : [index EXCEPT ![n] = new][i] = IF i = n THEN new ELSE index[i]
    BY <2>1, ExceptSeq
  <2> QED BY <1>2, <1>7, <2>2
<1>9. \A i \in Leaves : /\ index'[i].first = index[i].first
                        /\ index'[i].at = index[i].at
                        /\ i # n => index'[i].leaf = index[i].leaf
  <2> TAKE i \in Leaves
  <2>1. CASE i = n
    BY <1>1, <1>2, <1>3, <1>6, <1>8, <2>1 DEF Leaves
  <2>2. CASE i # n
    BY <1>2, <1>8, <2>2 DEF Leaves
  <2> QED BY <2>1, <2>2
<1>10. index'[n].leaf = Append(lastLeaf, e)
  BY <1>1, <1>2, <1>4, <1>6, <1>8 DEF Leaves
<1> QED BY <1>1, <1>2, <1>8, <1>9, <1>10

\* An extent is added to the last leaf, which has room.
LEMMA AppendToLeafInv ==
    ASSUME FileInv, NEW l \in Logs, AppendToLeaf(l)
    PROVE  FileInv'
<1>1. /\ FileType /\ Inv /\ (Supported => TreeInv) /\ depth = 1 /\ ~(Len(lastLeaf) >= LeafMax)
      /\ missing(l) /\ gaveBlock(l) /\ UNCHANGED inodeVars
      /\ canAllocBlock(al) /\ al' = data(al).a /\ handedOut({data(al).blk})
      /\ index' = [index EXCEPT ![Len(index)].leaf = Append(@, extent(l))]
      /\ depth' = depth /\ inline' = inline
  BY DEF FileInv, AppendToLeaf, gaveData, gaveBlock, needsLeaf, full
<1>2. PICK blk \in Blocks :
        /\ Inv' /\ blk = data(al).blk /\ ~blockUsed(al, blk)
        /\ \A b \in Blocks : blockUsed(al', b) <=> blockUsed(al, b) \/ b = blk
  BY <1>1, OneBlock
<1>3. PICK e : e = extent(l)
  OBVIOUS
<1>4. /\ blk # Hole
      /\ truth' = [truth EXCEPT ![l] = blk] /\ truth' \in [Logs -> Blocks]
      /\ e = [log |-> l, phys |-> blk] /\ e \in Extents
      /\ ascending' \in BOOLEAN /\ (ascending' => ascending)
      /\ ascending' => \A k \in written : k < l
      /\ written \subseteq written'
      /\ Supported => l \notin written
  BY <1>1, <1>2, <1>3, GaveBlock
<1>5. 0 \in Blocks
  <2>1. NumGroups * BlocksPerGroup - 1 >= 0
    BY SMTT(30)
  <2> QED BY <2>1 DEF Blocks
<1>6. /\ index' \in Seq(Entries) /\ Len(index') = Len(index)
      /\ Len(index) \in Leaves /\ Leaves' = Leaves
      /\ \A i \in Leaves : /\ index'[i].first = index[i].first
                           /\ index'[i].at = index[i].at
                           /\ i # Len(index) => index'[i].leaf = index[i].leaf
      /\ index'[Len(index)].leaf = Append(lastLeaf, e)
  BY <1>1, <1>3, <1>4, LastLeafGrows DEF Leaves
<1>7. Len(index) \in Nat /\ Len(index) >= 1
  BY <1>1, IndexType DEF FileType
<1>8. FileType'
  BY <1>1, <1>2, <1>4, <1>5, <1>6, <1>7 DEF FileType
<1>9. ASSUME Supported' PROVE TreeInv'
  <2>1. Supported
    BY <1>1, <1>4, <1>6, <1>7, <1>9, SupportedBefore
  <2>2. TreeInv /\ LeavesInv /\ BlocksInv /\ l \notin written
    BY <1>1, <1>4, <2>1 DEF TreeInv
  <2>3. /\ written' = written \cup {l}
        /\ Cardinality(written') = Cardinality(written) + 1
        /\ dataBlocks' = dataBlocks \cup {blk}
    BY <1>1, <1>2, <1>4, <2>2, NewBlock
  <2>4. \A f \in Seq(Extents) : truthful(f) => agrees(f, written', truth')
    BY <1>1, <1>2, <1>4, <2>2, StillTrue
  <2>5. lastLeaf \in Seq(Extents) /\ truthful(lastLeaf) /\ Len(lastLeaf) \in 1..LeafMax
    BY <1>1, <1>6, <2>2, IndexType DEF LeavesInv, lastLeaf
  <2>6. PICK leaf : leaf = Append(lastLeaf, e)
    OBVIOUS
  <2>7. /\ leaf \in Seq(Extents) /\ Len(leaf) = Len(lastLeaf) + 1
        /\ \A k \in 1..Len(leaf) : (k \in 1..Len(lastLeaf) /\ leaf[k] = lastLeaf[k]) \/ leaf[k] = e
        /\ agrees(leaf, written', truth')
        /\ \A x : holds(leaf, x) <=> holds(lastLeaf, x) \/ x = l
    <3>1. agrees(lastLeaf, written', truth')
      BY <2>4, <2>5
    <3>2. e.log = l /\ e.phys = blk /\ l \in written' /\ truth'[l] = blk
      BY <1>1, <1>4, <2>3 DEF FileType
    <3>3. /\ leaf \in Seq(Extents) /\ Len(leaf) = Len(lastLeaf) + 1
          /\ \A k \in 1..Len(leaf) : (k \in 1..Len(lastLeaf) /\ leaf[k] = lastLeaf[k]) \/ leaf[k] = e
          /\ \A x : holds(leaf, x) <=> holds(lastLeaf, x) \/ x = e.log
          /\ \A w, t : agrees(lastLeaf, w, t) /\ e.log \in w /\ t[e.log] = e.phys
                            => agrees(leaf, w, t)
      <4>1. lastLeaf \in Seq(Extents) /\ e \in Extents
        BY <1>4, <2>5
      <4> HIDE DEF lastLeaf
      <4>2. GrownBy(lastLeaf, e, leaf)
        BY <2>6, <4>1, LeafGrows
      <4> QED BY <4>2 DEF GrownBy
    <3> QED BY <3>1, <3>2, <3>3
  <2>8. index'[Len(index)].leaf = leaf /\ lastLeaf' = leaf
    BY <1>6, <2>6 DEF lastLeaf
  <2>9. \A i \in Leaves : Len(index'[i].leaf) \in 1..LeafMax /\ agrees(index'[i].leaf, written', truth')
    <3> TAKE i \in Leaves
    <3>1. CASE i = Len(index)
      <4>1. Len(leaf) \in 1..LeafMax
        BY <1>1, <2>5, <2>7, Sizes
      <4> QED BY <2>7, <2>8, <3>1, <4>1
    <3>2. CASE i # Len(index)
      <4>1. index[i].leaf \in Seq(Extents) /\ truthful(index[i].leaf) /\ Len(index[i].leaf) \in 1..LeafMax
        BY <1>1, <2>2, IndexType DEF LeavesInv
      <4>2. agrees(index[i].leaf, written', truth')
        BY <2>4, <4>1
      <4> QED BY <1>6, <3>2, <4>1, <4>2
    <3> QED BY <3>1, <3>2
  <2>10. \A x \in written' : \E i \in Leaves : holds(index'[i].leaf, x)
    <3> TAKE x \in written'
    <3>1. CASE x = l
      BY <1>6, <2>7, <2>8, <3>1
    <3>2. CASE x # l
      <4>1. PICK i \in Leaves : holds(index[i].leaf, x)
        BY <2>2, <2>3, <3>2 DEF LeavesInv
      <4>2. CASE i = Len(index)
        BY <1>6, <2>7, <2>8, <4>1, <4>2 DEF lastLeaf
      <4>3. CASE i # Len(index)
        BY <1>6, <4>1, <4>3
      <4> QED BY <4>2, <4>3
    <3> QED BY <3>1, <3>2
  <2>11. index[Len(index)].first <= l
    <3>1. CASE Len(index) = 1
      BY <2>2, <3>1 DEF LeavesInv, Logs
    <3>2. CASE Len(index) # 1
      <4>1. ascending'
        BY <1>1, <1>6, <1>9, <3>2 DEF Supported
      <4>2. /\ 1 \in 1..Len(lastLeaf) /\ lastLeaf[1].log \in written
            /\ index[Len(index)].first <= lastLeaf[1].log
        BY <1>6, <2>2, <2>5, Sizes DEF LeavesInv, lastLeaf, truthful, agrees
      <4>3. lastLeaf[1].log < l
        BY <1>4, <4>1, <4>2
      <4>4. lastLeaf[1].log \in Nat
        BY <4>2 DEF written, Logs
      <4>5. index[Len(index)].first \in Nat
        BY <1>1, <1>6, IndexType
      <4> QED BY <4>2, <4>3, <4>4, <4>5 DEF Logs
    <3> QED BY <3>1, <3>2
  <2>12. ASSUME NEW i \in Leaves, NEW k \in 1..Len(index'[i].leaf)
         PROVE  /\ index'[i].first <= index'[i].leaf[k].log
                /\ \A j \in Leaves : i < j => index'[i].leaf[k].log < index'[j].first
    <3>1. CASE i = Len(index)
      <4>1. \A j \in Leaves : ~(i < j)
        BY <1>7, <3>1 DEF Leaves
      <4>2. CASE k \in 1..Len(lastLeaf) /\ leaf[k] = lastLeaf[k]
        <5>1. index[i].first <= lastLeaf[k].log
          BY <2>2, <3>1, <4>2 DEF LeavesInv, lastLeaf
        <5> QED BY <1>6, <2>8, <3>1, <4>1, <4>2, <5>1
      <4>3. CASE leaf[k] = e
        BY <1>4, <1>6, <2>8, <2>11, <3>1, <4>1, <4>3
      <4> QED BY <2>7, <2>8, <3>1, <4>2, <4>3
    <3>2. CASE i # Len(index)
      <4>1. index'[i].leaf = index[i].leaf /\ k \in 1..Len(index[i].leaf)
        BY <1>6, <3>2
      <4>2. /\ index[i].first <= index[i].leaf[k].log
            /\ \A j \in Leaves : i < j => index[i].leaf[k].log < index[j].first
        BY <2>2, <4>1 DEF LeavesInv
      <4> QED BY <1>6, <4>1, <4>2
    <3> QED BY <3>1, <3>2
  <2>13. Cardinality(written') = (Len(index') - 1) * LeafMax + Len(leaf)
    <3>1. PICK m : m = (Len(index) - 1) * LeafMax
      OBVIOUS
    <3>2. m \in Int
      BY <1>7, <3>1, Sizes
    <3>3. Cardinality(written) = m + Len(lastLeaf)
      BY <2>2, <3>1 DEF LeavesInv
    <3>4. Cardinality(written') = m + Len(leaf)
      BY <2>3, <2>5, <2>7, <3>2, <3>3, Sizes
    <3> QED BY <1>6, <3>1, <3>4
  <2>14. LeavesInv'
    <3>1. Len(index') <= MaxInline /\ index'[1].first = 0
      <4>1. Len(index) <= MaxInline /\ index[1].first = 0
        BY <2>2 DEF LeavesInv
      <4> QED BY <1>6, <1>7, <4>1 DEF Leaves
    <3> QED BY <1>6, <2>8, <2>9, <2>10, <2>12, <2>13, <3>1 DEF LeavesInv, truthful
  <2>15. BlocksInv'
    <3>1. leafBlocks' = leafBlocks
      BY <1>6 DEF leafBlocks
    <3> QED BY <1>1, <1>2, <1>6, <2>2, <2>3, <3>1, BlocksGrow
  <2> QED BY <1>1, <2>14, <2>15 DEF TreeInv
<1> QED BY <1>2, <1>8, <1>9 DEF FileInv

\* A new leaf behind the others, or one that nothing leads to: then the file has
\* outgrown what the tree is good for.
LEMMA AppendLeafInv ==
    ASSUME FileInv, NEW l \in Logs, AppendLeaf(l)
    PROVE  FileInv'
<1>1. /\ FileType /\ Inv /\ (Supported => TreeInv) /\ depth = 1 /\ Len(lastLeaf) >= LeafMax
      /\ missing(l) /\ gaveLeaf(l) /\ depth' = depth /\ inline' = inline
      /\ index' = IF Len(index) < MaxInline
                  THEN Append(index, [first |-> l, at |-> leafBlock, leaf |-> <<extent(l)>>])
                  ELSE index
  BY DEF FileInv, AppendLeaf, needsLeaf, full
<1>2. PICK blk \in Blocks, lb \in Blocks :
              /\ blk = data(al).blk /\ lb = leafBlock /\ blk # lb
              /\ ~blockUsed(al, blk) /\ ~blockUsed(al, lb)
              /\ Inv' /\ gaveBlock(l)
              /\ \A b \in Blocks : blockUsed(al', b) <=> blockUsed(al, b) \/ b = blk \/ b = lb
  BY <1>1, GaveLeaf
<1>3. PICK e : e = extent(l)
  OBVIOUS
<1>4. /\ blk # Hole
      /\ truth' = [truth EXCEPT ![l] = blk] /\ truth' \in [Logs -> Blocks]
      /\ e = [log |-> l, phys |-> blk] /\ e \in Extents
      /\ ascending' \in BOOLEAN /\ (ascending' => ascending)
      /\ ascending' => \A k \in written : k < l
      /\ written \subseteq written'
      /\ Supported => l \notin written
  BY <1>1, <1>2, <1>3, GaveBlock
<1>5. 0 \in Blocks
  <2>1. NumGroups * BlocksPerGroup - 1 >= 0
    BY SMTT(30)
  <2> QED BY <2>1 DEF Blocks
<1>6. Len(index) \in Nat /\ Len(index) >= 1 /\ index \in Seq(Entries) /\ Len(index) \in Leaves
  BY <1>1, IndexType DEF FileType, Leaves
<1>7. PICK entry : entry = [first |-> l, at |-> lb, leaf |-> <<e>>]
  OBVIOUS
<1>8. /\ entry.first = l /\ entry.at = lb /\ entry.leaf = <<e>> /\ entry \in Entries
      /\ l \in Nat
  <2>1. <<e>> \in Seq(Extents) /\ l \in Nat
    BY <1>4 DEF Logs
  <2> QED BY <1>7, <2>1 DEF Entries
<1>9. index' = IF Len(index) < MaxInline THEN Append(index, entry) ELSE index
  BY <1>1, <1>2, <1>3, <1>7
<1>10. index' \in Seq(Entries) /\ Len(index') \in Nat /\ Len(index) <= Len(index')
  <2>1. Append(index, entry) \in Seq(Entries) /\ Len(Append(index, entry)) = Len(index) + 1
    BY <1>6, <1>8
  <2> QED BY <1>6, <1>9, <2>1
<1>11. FileType'
  BY <1>1, <1>2, <1>4, <1>5, <1>6, <1>10 DEF FileType
<1>12. ASSUME Supported' PROVE TreeInv'
  <2>1. Supported
    BY <1>1, <1>4, <1>10, <1>12, SupportedBefore
  <2>2. TreeInv /\ LeavesInv /\ BlocksInv /\ l \notin written
    BY <1>1, <1>4, <2>1 DEF TreeInv
  <2>3. /\ written' = written \cup {l}
        /\ Cardinality(written') = Cardinality(written) + 1
        /\ dataBlocks' = dataBlocks \cup {blk}
    BY <1>1, <1>2, <1>4, <2>2, NewBlock
  <2>4. Len(lastLeaf) = LeafMax
    BY <1>1, <1>6, <2>2, Sizes DEF LeavesInv, lastLeaf
  <2>5. Cardinality(written) = Len(index) * LeafMax /\ Cardinality(written) \in Nat
    <3>1. Cardinality(written) = (Len(index) - 1) * LeafMax + LeafMax
      BY <2>2, <2>4 DEF LeavesInv
    <3>2. (Len(index) - 1) * LeafMax + LeafMax = Len(index) * LeafMax
      BY <1>6, Sizes, SMTT(30)
    <3> QED BY <3>1, <3>2, WrittenFinite
  <2>6. CASE Len(index) < MaxInline
    <3>1. /\ Len(index') = Len(index) + 1 /\ Leaves' = Leaves \cup {Len(index) + 1}
          /\ \A i \in Leaves : index'[i] = index[i]
          /\ index'[Len(index) + 1] = entry
      BY <1>6, <1>8, <1>9, <2>6 DEF Leaves
    <3>2. ascending'
      BY <1>1, <1>6, <1>12, <3>1 DEF Supported
    <3>3. /\ Len(entry.leaf) = 1 /\ entry.leaf[1] = e /\ e.log = l /\ e.phys = blk
          /\ l \in written' /\ truth'[l] = blk
      BY <1>1, <1>4, <1>8, <2>3 DEF FileType
    <3>4. \A f \in Seq(Extents) : truthful(f) => agrees(f, written', truth')
      BY <1>1, <1>2, <1>4, <2>2, StillTrue
    <3>5. \A i \in Leaves' : Len(index'[i].leaf) \in 1..LeafMax /\ agrees(index'[i].leaf, written', truth')
      <4>1. ASSUME NEW i \in Leaves
            PROVE  Len(index'[i].leaf) \in 1..LeafMax /\ agrees(index'[i].leaf, written', truth')
        <5>1. index[i].leaf \in Seq(Extents) /\ truthful(index[i].leaf) /\ Len(index[i].leaf) \in 1..LeafMax
          BY <1>1, <2>2, IndexType DEF LeavesInv
        <5>2. agrees(index[i].leaf, written', truth')
          BY <3>4, <5>1
        <5> QED BY <3>1, <5>1, <5>2
      <4>2. Len(entry.leaf) \in 1..LeafMax /\ agrees(entry.leaf, written', truth')
        BY <3>3, Sizes DEF agrees
      <4> QED BY <3>1, <4>1, <4>2
    <3>6. \A x \in written' : \E i \in Leaves' : holds(index'[i].leaf, x)
      <4> TAKE x \in written'
      <4>1. CASE x = l
        <5>1. holds(entry.leaf, l)
          BY <3>3 DEF holds
        <5> QED BY <3>1, <4>1, <5>1
      <4>2. CASE x # l
        <5>1. PICK i \in Leaves : holds(index[i].leaf, x)
          BY <2>2, <2>3, <4>2 DEF LeavesInv
        <5> QED BY <3>1, <5>1
      <4> QED BY <4>1, <4>2
    <3>7. ASSUME NEW i \in Leaves', NEW k \in 1..Len(index'[i].leaf)
          PROVE  /\ index'[i].first <= index'[i].leaf[k].log
                 /\ \A j \in Leaves' : i < j => index'[i].leaf[k].log < index'[j].first
      <4>1. CASE i \in Leaves
        <5>1. index'[i] = index[i] /\ k \in 1..Len(index[i].leaf)
          BY <3>1, <4>1
        <5>2. /\ index[i].first <= index[i].leaf[k].log
              /\ \A j \in Leaves : i < j => index[i].leaf[k].log < index[j].first
              /\ index[i].leaf[k].log \in written
          BY <2>2, <4>1, <5>1 DEF LeavesInv, truthful, agrees
        <5>3. index[i].leaf[k].log < l
          BY <1>4, <3>2, <5>2
        <5> QED BY <1>8, <3>1, <5>1, <5>2, <5>3
      <4>2. CASE i = Len(index) + 1
        <5>0. index'[i] = entry
          BY <3>1, <4>2
        <5>1. index'[i] = entry /\ k = 1
          <6>1. k \in 1..Len(entry.leaf)
            BY <5>0, Zenon
          <6>2. Len(entry.leaf) = 1
            BY <3>3
          <6>3. k \in 1..1
            BY <6>1, <6>2, Zenon
          <6> QED BY <5>0, <6>3
        <5>2. \A j \in Leaves' : ~(i < j)
          BY <1>6, <3>1, <4>2 DEF Leaves
        <5>3. index'[i].first = l /\ index'[i].leaf[k].log = l
          BY <1>8, <3>3, <5>1
        <5> QED BY <1>8, <5>2, <5>3
      <4> QED BY <3>1, <4>1, <4>2
    <3>8. lastLeaf' = entry.leaf /\ Cardinality(written') = (Len(index') - 1) * LeafMax + Len(entry.leaf)
      <4>1. lastLeaf' = entry.leaf
        BY <3>1 DEF lastLeaf
      <4>2. Len(index') - 1 = Len(index)
        BY <1>6, <3>1
      <4> QED BY <2>3, <2>5, <3>3, <4>1, <4>2
    <3>9. LeavesInv'
      <4>1. Len(index') <= MaxInline /\ index'[1].first = 0
        BY <1>6, <2>2, <2>6, <3>1, Sizes DEF LeavesInv, Leaves
      <4> QED BY <3>5, <3>6, <3>7, <3>8, <4>1 DEF LeavesInv, truthful
    <3>10. BlocksInv'
      <4>1. leafBlocks' = leafBlocks \cup {lb}
        <5>1. leafBlocks' = {index'[i].at : i \in Leaves \cup {Len(index) + 1}}
          BY <3>1 DEF leafBlocks
        <5> QED BY <1>8, <3>1, <5>1 DEF leafBlocks
      <4> QED BY <1>1, <1>2, <2>2, <2>3, <3>1, <4>1, BlocksGrow
    <3> QED BY <1>1, <3>9, <3>10 DEF TreeInv
  <2>7. CASE ~(Len(index) < MaxInline)
    <3>1. Len(index) = MaxInline /\ index' = index
      BY <1>6, <1>9, <2>2, <2>7, Sizes DEF LeavesInv
    <3>2. Cardinality(written') = MaxInline * LeafMax + 1 /\ MaxInline * LeafMax \in Nat
      BY <2>3, <2>5, <3>1, Sizes
    <3>3. FALSE
      <4>1. depth' # 0 /\ Len(index') # 1
        <5>1. depth' = 1
          BY <1>1, Zenon
        <5>2. Len(index') = MaxInline
          BY <3>1, Zenon
        <5> QED BY <5>1, <5>2, Sizes
      <4>2. Cardinality(written') <= MaxInline * LeafMax
        BY <1>12, <4>1 DEF Supported
      <4> QED BY <3>2, <4>2
    <3> QED BY <3>3
  <2> QED BY <2>6, <2>7
<1> QED BY <1>2, <1>11, <1>12 DEF FileInv

\* The disk is full for the leaf: the tree stays as it is, and the data block
\* that was allocated before belongs to nobody.
LEMMA NoSpaceForLeafInv ==
    ASSUME FileInv, NEW l \in Logs, NoSpaceForLeaf(l)
    PROVE  FileInv'
<1>1. /\ FileType /\ Inv /\ (Supported => TreeInv)
      /\ canAllocBlock(al) /\ al' = data(al).a /\ handedOut({data(al).blk}) /\ UNCHANGED inodeVars
      /\ UNCHANGED <<depth, inline, index, truth, ascending>>
  BY DEF FileInv, NoSpaceForLeaf, fileVars
<1>2. /\ Inv'
      /\ \A b \in Blocks : blockUsed(al', b) <=> blockUsed(al, b) \/ b = data(al).blk
  BY <1>1, OneBlock
<1> QED BY <1>1, <1>2, TreeUnchanged

\* Other files change nothing of this one.
LEMMA OtherFileInv ==
    ASSUME FileInv, OtherFile
    PROVE  FileInv'
<1>1. /\ FileType /\ Inv /\ (Supported => TreeInv) /\ Next
      /\ UNCHANGED <<depth, inline, index, truth, ascending>>
  BY DEF FileInv, OtherFile, tree
<1>2. Inv' /\ \A b \in Blocks : blockUsed(al, b) => blockUsed(al', b)
  BY <1>1, OthersKeepBlocks
<1> QED BY <1>1, <1>2, TreeUnchanged

\* Nothing happens: a write that found the disk full, or no step at all.
LEMMA FileStutterInv ==
    ASSUME FileInv, UNCHANGED allVars
    PROVE  FileInv'
<1>1. /\ FileType /\ Inv /\ (Supported => TreeInv)
      /\ UNCHANGED <<al, owners, iowners, freed, twice>> /\ UNCHANGED <<depth, inline, index, truth, ascending>>
  BY DEF FileInv, allVars
<1>2. Inv' /\ \A b \in Blocks : blockUsed(al, b) => blockUsed(al', b)
  BY <1>1 DEF Inv
<1> QED BY <1>1, <1>2, TreeUnchanged

-----------------------------------------------------------------------------
(***************************************************************************)
(* The theorems.                                                           *)
(***************************************************************************)

\* The invariant is one: writeFileRange, in whatever order the blocks come,
\* among other files' allocations, keeps it.
THEOREM FileInvariant == FileSpec => []FileInv
<1>1. FileInit => FileInv
  BY FileInitInv
<1>2. FileInv /\ [FileNext]_allVars => FileInv'
  <2> SUFFICES ASSUME FileInv, [FileNext]_allVars PROVE FileInv'
    OBVIOUS
  <2>1. ASSUME NEW l \in Logs, Overwrite(l) PROVE FileInv'
    BY <2>1, OverwriteInv
  <2>2. ASSUME NEW l \in Logs, AppendInline(l) PROVE FileInv'
    BY <2>2, AppendInlineInv
  <2>3. ASSUME NEW l \in Logs, Promote(l) PROVE FileInv'
    BY <2>3, PromoteInv
  <2>4. ASSUME NEW l \in Logs, AppendToLeaf(l) PROVE FileInv'
    BY <2>4, AppendToLeafInv
  <2>5. ASSUME NEW l \in Logs, AppendLeaf(l) PROVE FileInv'
    BY <2>5, AppendLeafInv
  <2>6. ASSUME NEW l \in Logs, NoSpace(l) PROVE FileInv'
    BY <2>6, FileStutterInv DEF NoSpace
  <2>7. ASSUME NEW l \in Logs, NoSpaceForLeaf(l) PROVE FileInv'
    BY <2>7, NoSpaceForLeafInv
  <2>8. CASE OtherFile
    BY <2>8, OtherFileInv
  <2>9. CASE UNCHANGED allVars
    BY <2>9, FileStutterInv
  <2> QED BY <2>1, <2>2, <2>3, <2>4, <2>5, <2>6, <2>7, <2>8, <2>9 DEF FileNext
<1> QED BY <1>1, <1>2, PTL DEF FileSpec

\* searchExtentNode finds every block where writeFileRange put it, through
\* promotion and across any number of leaves, and no block of the file is used
\* twice: as long as the file stays within what the tree supports.
THEOREM ReadsBackCorrect == FileSpec => []ReadsBack
<1>1. FileInv => ReadsBack
  <2> SUFFICES ASSUME FileInv PROVE ReadsBack
    OBVIOUS
  <2>1. CASE ~Supported
    BY <2>1 DEF ReadsBack
  <2>2. CASE Supported
    <3>1. FileType /\ TreeInv /\ BlocksInv
      BY <2>2 DEF FileInv, TreeInv
    <3>2. \A l \in written : logicalToPhysical(l) = truth[l]
      BY <3>1, Lookup DEF written
    <3>3. DOMAIN index = Leaves
      BY <3>1 DEF FileType, Leaves
    <3>4. {index[i].at : i \in DOMAIN index} = leafBlocks
      BY <3>3 DEF leafBlocks
    <3>5. {truth[l] : l \in written} = dataBlocks
      BY DEF dataBlocks
    <3>6. /\ leafBlocks \cap dataBlocks = {}
          /\ Cardinality(leafBlocks) = Len(index) /\ Cardinality(dataBlocks) = Cardinality(written)
          /\ \A b \in leafBlocks \cup dataBlocks : blockUsed(al, b)
      BY <3>1 DEF BlocksInv
    <3> HIDE DEF leafBlocks, dataBlocks
    <3> QED BY <3>2, <3>4, <3>5, <3>6 DEF ReadsBack
  <2> QED BY <2>1, <2>2
<1> QED BY <1>1, FileInvariant, PTL

\* The allocators keep their promises under the file's writes as well: exact
\* counts, one owner for each block, and no free block overlooked.
THEOREM AllocatorsUnderFile ==
    FileSpec => [](TypeOK /\ GroupCountsExact /\ SuperblockCountsExact
                          /\ ExclusiveOwners /\ FullIsFull)
<1>1. FileInv => TypeOK /\ GroupCountsExact /\ SuperblockCountsExact /\ ExclusiveOwners /\ FullIsFull
  BY InvImplies DEF FileInv
<1> QED BY <1>1, FileInvariant, PTL
=============================================================================
