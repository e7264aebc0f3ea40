-------------------------- MODULE Ext4VolumeProofs --------------------------
(***************************************************************************)
(* No block of an ext4 volume ever belongs to two files, for a disk and a  *)
(* directory block of any size, any set of names, any number of handles    *)
(* and any length of the callers' programs.                                *)
(*                                                                         *)
(* The driver never frees a block.  So there is a ghost map from each      *)
(* block that was handed out to the inode and the place in the file it was *)
(* handed out for, which only ever grows; every copy of an inode, on the   *)
(* volume, in a handle or in the middle of a call, agrees with the map,    *)
(* however old the copy is and whoever else has the inode's number now.    *)
(***************************************************************************)
EXTENDS Ext4Volume, SequenceTheorems, WellFoundedInduction, TLAPS

USE GroupsAssumption, VolumeAssumption

(***************************************************************************)
(* Induction and least elements.                                           *)
(***************************************************************************)

\* A non-empty set of naturals has a least element.
LEMMA NatMin ==
    ASSUME NEW T, T \subseteq Nat, T # {}
    PROVE  \E x \in T : \A y \in T : x <= y
<1> DEFINE R == OpToRel(<, Nat)
<1>1. IsWellFoundedOn(R, Nat)
  BY NatLessThanWellFounded
<1>2. \E x \in T : \A y \in T : ~(<<y, x>> \in R)
  <2> HIDE DEF R
  <2> QED BY <1>1, WFMin
<1>3. \A x, y \in T : ~(<<y, x>> \in R) => x <= y
  BY DEF OpToRel
<1> QED
  BY <1>2, <1>3

\* What holds at 0 and is kept by each of n steps (of a loop over the parts of a
\* path, the blocks of a write, the links followed) holds after all of them.
LEMMA Upward ==
    ASSUME NEW n \in Nat, NEW S, 0 \in S,
           \A k \in 1..n : k - 1 \in S => k \in S
    PROVE  \A k \in 0..n : k \in S
<1> DEFINE bad == {k \in 0..n : k \notin S}
<1>1. SUFFICES ASSUME bad # {} PROVE FALSE
  OBVIOUS
<1>2. bad \subseteq Nat
  OBVIOUS
<1>3. PICK k \in bad : \A j \in bad : k <= j
  BY <1>1, <1>2, NatMin
<1>4. k \in 1..n /\ k - 1 \in 0..n
  BY <1>3
<1>5. k - 1 \in S
  BY <1>3, <1>4
<1> QED
  BY <1>3, <1>4, <1>5

\* n steps, each a function on S, and what they lead to from s.
Steps(n, S) == [1..n -> [S -> S]]
IsRun(g, n, s, f) == g[0] = s /\ \A k \in 1..n : g[k] = f[k][g[k - 1]]

\* A recursive definition by n steps, each a function on S, has a solution, and
\* all of it is in S.
LEMMA Iteration ==
    ASSUME NEW n \in Nat, NEW S, NEW s \in S, NEW f \in Steps(n, S)
    PROVE  \E g \in [0..n -> S] : IsRun(g, n, s, f)
<1> USE DEF Steps, IsRun
<1> DEFINE Sol(m, g) == g[0] = s /\ \A k \in 1..m : g[k] = f[k][g[k - 1]]
           T == {m \in 0..n : \E g \in [0..m -> S] : Sol(m, g)}
<1>1. 0 \in T
  <2> DEFINE g == [k \in 0..0 |-> s]
  <2>1. g \in [0..0 -> S] /\ Sol(0, g)
    OBVIOUS
  <2> HIDE DEF g, Sol
  <2> QED BY <2>1
<1>2. ASSUME NEW m \in 1..n, m - 1 \in T PROVE m \in T
  <2>1. PICK g \in [0..(m - 1) -> S] : Sol(m - 1, g)
    BY <1>2
  <2> DEFINE h == [k \in 0..m |-> IF k = m THEN f[m][g[m - 1]] ELSE g[k]]
  <2>2. f[m][g[m - 1]] \in S
    OBVIOUS
  <2>3. h \in [0..m -> S]
    BY <2>2
  <2>4. ASSUME NEW k \in 1..m PROVE h[k] = f[k][h[k - 1]]
    <3>1. CASE k = m
      BY <3>1
    <3>2. CASE k # m
      <4>1. k \in 1..(m - 1) /\ h[k] = g[k] /\ h[k - 1] = g[k - 1]
        BY <3>2
      <4> QED BY <2>1, <4>1
    <3> QED BY <3>1, <3>2
  <2>5. Sol(m, h)
    BY <2>1, <2>4
  <2> HIDE DEF h, Sol
  <2> QED BY <2>3, <2>5
<1>3. n \in T
  <2> HIDE DEF T
  <2>1. \A k \in 0..n : k \in T
    BY <1>1, <1>2, Upward
  <2> QED BY <2>1
<1> QED BY <1>3

-----------------------------------------------------------------------------
(***************************************************************************)
(* The allocators.  Nothing is assumed of the free counts: freeInode may   *)
(* count an inode twice.                                                   *)
(***************************************************************************)

\* findFreeBit returns a clear bit when there is one.
LEMMA FindFreeBit ==
    ASSUME NEW bits, bits \subseteq Nat, NEW used, bits \ used # {}
    PROVE  findFreeBit(used, bits) \in bits \ used
<1>1. PICK bit \in bits \ used : \A b \in bits \ used : bit <= b
  BY NatMin
<1>2. isFirstFree(bit, used, bits)
  BY <1>1 DEF isFirstFree
<1> QED
  BY <1>1, <1>2 DEF findFreeBit, isFirstFree

\* The scan that starts at any group and wraps around reaches every group.
LEMMA NthReaches ==
    ASSUME NEW start \in Groups, NEW g \in Groups
    PROVE  \E i \in Groups : nth(start, i) = g
<1>1. CASE g >= start
  <2>1. g % NumGroups = g
    BY DEF Groups
  <2>2. g - start \in Groups /\ start + (g - start) = g
    BY <1>1 DEF Groups
  <2> QED
    BY <2>1, <2>2 DEF nth
<1>2. CASE g < start
  <2>1. (g + NumGroups) % NumGroups = g
    BY DEF Groups
  <2>2. g - start + NumGroups \in Groups /\ start + (g - start + NumGroups) = g + NumGroups
    BY <1>2 DEF Groups
  <2> QED
    BY <2>1, <2>2 DEF nth
<1> QED
  BY <1>1, <1>2 DEF Groups

\* The round through the groups, from the preferred one, ends at a group that fits.
LEMMA FirstFit ==
    ASSUME NEW start \in Groups, NEW fits, fits \subseteq Groups, fits # {}
    PROVE  firstFit(start, fits) \in fits
<1> DEFINE good == {i \in Groups : nth(start, i) \in fits}
<1>1. good \subseteq Nat /\ good # {}
  <2>1. PICK g \in fits : g \in Groups
    OBVIOUS
  <2>2. PICK i \in Groups : nth(start, i) = g
    BY <2>1, NthReaches
  <2> QED
    BY <2>1, <2>2 DEF Groups
<1>2. PICK i \in good : \A j \in good : i <= j
  BY <1>1, NatMin
<1>3. /\ i \in Groups /\ nth(start, i) \in fits
      /\ \A j \in Groups : j < i => nth(start, j) \notin fits
  BY <1>2 DEF Groups
<1> QED
  BY <1>3 DEF firstFit

\* Group and bit determine a number and are recovered from it.
LEMMA Address ==
    ASSUME NEW n \in Nat \ {0}, NEW g \in Groups, NEW b \in 0..(n - 1)
    PROVE  /\ g * n + b \in 0..(NumGroups * n - 1)
           /\ (g * n + b) \div n = g
           /\ (g * n + b) % n = b
<1>0. g \in Nat /\ g \in 0..(NumGroups - 1)
  BY DEF Groups
<1>1. g * n + b \in 0..(NumGroups * n - 1)
  BY <1>0, SMTT(30)
<1>2. (g * n + b) \div n = g
  BY <1>0, SMTT(30)
<1>3. (g * n + b) % n = b
  BY <1>0, SMTT(30)
<1> QED
  BY <1>1, <1>2, <1>3

\* A number below NumGroups * n has a group and an offset inside it.
LEMMA Decompose ==
    ASSUME NEW n \in Nat \ {0}, NEW x \in 0..(NumGroups * n - 1)
    PROVE  x \div n \in Groups /\ x % n \in 0..(n - 1)
<1>0. x \in Nat
  OBVIOUS
<1>1. x \div n \in Nat /\ x % n \in 0..(n - 1)
  BY <1>0, SMTT(30)
<1>2. n * (x \div n) <= x
  <2>1. x = n * (x \div n) + (x % n)
    BY <1>0, Z3T(30)
  <2> QED
    BY <2>1, <1>1, SMTT(30)
<1>3. ASSUME NEW q \in Nat, q >= NumGroups, n * q <= x
      PROVE  FALSE
  <2>1. n * q >= NumGroups * n
    BY <1>3, SMTT(30)
  <2> QED
    BY <2>1, <1>3, SMTT(30)
<1> QED
  BY <1>1, <1>2, <1>3 DEF Groups

\* Group and offset together determine the number.
LEMMA SameAddress ==
    ASSUME NEW n \in Nat \ {0}, NEW x \in Nat, NEW y \in Nat,
           x \div n = y \div n, x % n = y % n
    PROVE  x = y
  BY SMTT(30)

\* Inode numbers start at 1; apart from that they are addresses like blocks.
LEMMA InodeAddress ==
    ASSUME NEW g \in Groups, NEW bit \in InodeBits
    PROVE  /\ g * InodesPerGroup + bit + 1 \in Inodes
           /\ inodeBlockGroup(g * InodesPerGroup + bit + 1) = g
           /\ inodeLocalIndex(g * InodesPerGroup + bit + 1) = bit
<1> DEFINE x == g * InodesPerGroup + bit
<1>1. /\ x \in 0..(NumGroups * InodesPerGroup - 1)
      /\ x \div InodesPerGroup = g /\ x % InodesPerGroup = bit
  BY Address DEF InodeBits
<1>2. x + 1 - 1 = x
  BY <1>1
<1> HIDE DEF x
<1>3. /\ x + 1 \in Inodes /\ inodeBlockGroup(x + 1) = g /\ inodeLocalIndex(x + 1) = bit
  BY <1>1, <1>2 DEF Inodes, inodeBlockGroup, inodeLocalIndex
<1> QED
  BY <1>3 DEF x

\* Every inode number has a group and a bit of its bitmap.
LEMMA InodeDecompose ==
    ASSUME NEW n \in Inodes
    PROVE  inodeBlockGroup(n) \in Groups /\ inodeLocalIndex(n) \in InodeBits
<1>1. n - 1 \in 0..(NumGroups * InodesPerGroup - 1)
  BY DEF Inodes
<1> QED
  BY <1>1, Decompose DEF inodeBlockGroup, inodeLocalIndex, InodeBits

Alloc == [bmap : [Groups -> SUBSET BlockBits], gfree : [Groups -> Int],
          imap : [Groups -> SUBSET InodeBits], gifree : [Groups -> Int],
          dirs : [Groups -> Int], sfree : Int, sifree : Int]

\* Every block number has a group and a bit of its bitmap.
LEMMA BlockDecompose ==
    ASSUME NEW b \in Blocks
    PROVE  b \div BlocksPerGroup \in Groups /\ b % BlocksPerGroup \in BlockBits
BY Decompose DEF Blocks, BlockBits

\* Of finitely many counts one is the largest: the first of the largest.
LEMMA Largest ==
    ASSUME NEW n \in Nat, NEW f \in [0..n -> Int]
    PROVE  \E g \in 0..n : /\ \A h \in 0..n : f[h] <= f[g]
                           /\ \A h \in 0..n : h < g => f[h] < f[g]
<1> DEFINE S == {m \in 0..n : \E g \in 0..m : \A h \in 0..m : f[h] <= f[g]}
<1>1. 0 \in S
  <2>1. \A h \in 0..0 : h = 0
    OBVIOUS
  <2>2. f[0] \in Int
    OBVIOUS
  <2> QED BY <2>1, <2>2
<1>2. ASSUME NEW m \in 1..n, m - 1 \in S PROVE m \in S
  <2>1. PICK g \in 0..(m - 1) : \A h \in 0..(m - 1) : f[h] <= f[g]
    BY <1>2
  <2>2. f[g] \in Int /\ f[m] \in Int
    OBVIOUS
  <2>3. \A h \in 0..m : h = m \/ h \in 0..(m - 1)
    OBVIOUS
  <2>4. CASE f[m] <= f[g]
    <3>1. \A h \in 0..m : f[h] <= f[g]
      BY <2>1, <2>3, <2>4
    <3> QED BY <3>1
  <2>5. CASE f[g] < f[m]
    <3>1. \A h \in 0..m : f[h] <= f[m]
      <4> TAKE h \in 0..m
      <4>1. f[h] \in Int
        OBVIOUS
      <4> QED BY <2>1, <2>2, <2>3, <2>5, <4>1
    <3> QED BY <3>1
  <2> QED BY <2>2, <2>4, <2>5
<1>3. n \in S
  <2> HIDE DEF S
  <2>1. \A k \in 0..n : k \in S
    BY <1>1, <1>2, Upward
  <2> QED BY <2>1
<1>4. PICK g0 \in 0..n : \A h \in 0..n : f[h] <= f[g0]
  BY <1>3
<1> DEFINE best == {g \in 0..n : f[g] = f[g0]}
<1>5. best \subseteq Nat /\ best # {}
  OBVIOUS
<1>6. PICK g \in best : \A h \in best : g <= h
  BY <1>5, NatMin
<1>7. \A h \in 0..n : f[h] <= f[g]
  BY <1>4, <1>6
<1>8. ASSUME NEW h \in 0..n, h < g PROVE f[h] < f[g]
  <2>1. f[h] \in Int /\ f[g] \in Int /\ f[g] = f[g0] /\ g \in 0..n
    BY <1>6
  <2>2. h \notin best
    BY <1>6, <1>8
  <2> QED BY <2>1, <2>2, <1>7
<1> QED BY <1>6, <1>7, <1>8

\* allocInode's search for the emptiest group, for a directory, gives a group.
LEMMA MostFree ==
    ASSUME NEW a \in Alloc, NEW p \in Groups
    PROVE  mostFree(a, p) \in Groups
<1>1. NumGroups - 1 \in Nat /\ Groups = 0..(NumGroups - 1) /\ a.gifree \in [0..(NumGroups - 1) -> Int]
  BY DEF Alloc, Groups
<1>2. PICK g \in Groups : /\ \A h \in Groups : a.gifree[h] <= a.gifree[g]
                          /\ \A h \in Groups : h < g => a.gifree[h] < a.gifree[g]
  BY <1>1, Largest
<1> QED
  BY <1>2 DEF mostFree

\* allocBlock takes one clear bit of one group.
LEMMA AllocBlock ==
    ASSUME NEW a \in Alloc, NEW p \in Groups, canAllocBlock(a)
    PROVE  LET r == allocBlock(a, p) IN
           /\ r.a \in Alloc /\ r.blk \in Blocks
           /\ ~blockUsed(a, r.blk) /\ blockUsed(r.a, r.blk)
           /\ \A b \in Blocks : blockUsed(a, b) => blockUsed(r.a, b)
<1> DEFINE g   == firstFit(p, roomForBlock(a))
           bit == findFreeBit(a.bmap[g], BlockBits)
<1>1. roomForBlock(a) \subseteq Groups /\ roomForBlock(a) # {}
  BY DEF roomForBlock, canAllocBlock
<1>2. g \in roomForBlock(a) /\ g \in Groups
  BY <1>1, FirstFit
<1>3. BlockBits \ a.bmap[g] # {}
  BY <1>2 DEF roomForBlock
<1>4. bit \in BlockBits \ a.bmap[g]
  BY <1>3, FindFreeBit DEF BlockBits
<1> DEFINE a2 == takeBlock(a, g, bit)
           b2 == g * BlocksPerGroup + bit
<1>5. allocBlock(a, p) = [a |-> a2, blk |-> b2]
  BY DEF allocBlock
<1> HIDE DEF g, bit
<1>6. b2 \in Blocks /\ b2 \div BlocksPerGroup = g /\ b2 % BlocksPerGroup = bit
  BY <1>2, <1>4, Address DEF Blocks, BlockBits
<1>7. a2 \in Alloc
  <2>1. a2.bmap = [a.bmap EXCEPT ![g] = @ \cup {bit}] /\ a2.gfree = [a.gfree EXCEPT ![g] = @ - 1]
        /\ a2.sfree = a.sfree - 1
    BY DEF takeBlock, Alloc
  <2>2. a2.bmap \in [Groups -> SUBSET BlockBits] /\ a2.gfree \in [Groups -> Int] /\ a2.sfree \in Int
    BY <2>1, <1>2, <1>4 DEF Alloc
  <2> QED BY <2>2 DEF takeBlock, Alloc
<1>8. \A h \in Groups : a2.bmap[h] = IF h = g THEN a.bmap[g] \cup {bit} ELSE a.bmap[h]
  BY <1>2 DEF takeBlock, Alloc
<1>9. ~blockUsed(a, b2) /\ blockUsed(a2, b2)
  BY <1>2, <1>4, <1>6, <1>8 DEF blockUsed
<1>10. \A b \in Blocks : blockUsed(a, b) => blockUsed(a2, b)
  BY <1>8, BlockDecompose DEF blockUsed
<1> HIDE DEF a2, b2
<1> QED BY <1>5, <1>6, <1>7, <1>9, <1>10

\* allocInode returns an inode number and leaves the block bitmaps alone.
LEMMA AllocInode ==
    ASSUME NEW a \in Alloc, NEW p \in Groups, NEW d \in BOOLEAN, canAllocInode(a)
    PROVE  LET r == allocInode(a, p, d) IN
           r.a \in Alloc /\ r.ino \in Inodes /\ r.a.bmap = a.bmap
<1> DEFINE start == IF d THEN mostFree(a, p) ELSE p
           g     == firstFit(start, roomForInode(a))
           bit   == findFreeBit(a.imap[g], InodeBits)
           a2    == takeInode(a, g, bit, d)
           n2    == g * InodesPerGroup + bit + 1
<1>0. start \in Groups
  BY MostFree
<1>1. roomForInode(a) \subseteq Groups /\ roomForInode(a) # {}
  BY DEF roomForInode, canAllocInode
<1>2. g \in roomForInode(a) /\ g \in Groups
  BY <1>0, <1>1, FirstFit
<1>3. InodeBits \ a.imap[g] # {}
  BY <1>2 DEF roomForInode
<1>4. bit \in InodeBits \ a.imap[g]
  BY <1>3, FindFreeBit DEF InodeBits
<1>5. allocInode(a, p, d) = [a |-> a2, ino |-> n2]
  BY DEF allocInode
<1> HIDE DEF g, bit
<1>6. n2 \in Inodes
  BY <1>2, <1>4, InodeAddress
<1>7. a2 \in Alloc /\ a2.bmap = a.bmap
  <2> DEFINE one == IF d THEN 1 ELSE 0
  <2>1. /\ a2.imap = [a.imap EXCEPT ![g] = @ \cup {bit}] /\ a2.gifree = [a.gifree EXCEPT ![g] = @ - 1]
        /\ a2.dirs = [a.dirs EXCEPT ![g] = (@ + one) % UsedDirsMod]
        /\ a2.sifree = a.sifree - 1 /\ a2.bmap = a.bmap
    BY DEF takeInode, Alloc
  <2>2. a2.imap \in [Groups -> SUBSET InodeBits] /\ a2.gifree \in [Groups -> Int] /\ a2.sifree \in Int
    BY <2>1, <1>2, <1>4 DEF Alloc
  <2>3. (a.dirs[g] + one) % UsedDirsMod \in Int
    <3>1. PICK x \in Int : x = a.dirs[g] + one
      BY <1>2 DEF Alloc
    <3>2. x % UsedDirsMod \in Int
      OBVIOUS
    <3> QED BY <3>1, <3>2
  <2>4. a2.dirs \in [Groups -> Int]
    BY <2>1, <2>3, <1>2 DEF Alloc
  <2> QED BY <2>1, <2>2, <2>4 DEF takeInode, Alloc
<1> HIDE DEF a2, n2
<1> QED BY <1>5, <1>6, <1>7

\* freeInode leaves the block bitmaps alone.
LEMMA FreeInode ==
    ASSUME NEW a \in Alloc, NEW n \in Inodes
    PROVE  freeInode(a, n) \in Alloc /\ freeInode(a, n).bmap = a.bmap
<1> DEFINE g == inodeBlockGroup(n)
           bit == inodeLocalIndex(n)
           a2 == freeInode(a, n)
<1>1. g \in Groups
  BY InodeDecompose
<1> HIDE DEF g, bit
<1>2. /\ a2.imap = [a.imap EXCEPT ![g] = @ \ {bit}] /\ a2.gifree = [a.gifree EXCEPT ![g] = @ + 1]
      /\ a2.sifree = a.sifree + 1 /\ a2.bmap = a.bmap
  BY DEF freeInode, Alloc, g, bit
<1>3. a2.imap \in [Groups -> SUBSET InodeBits] /\ a2.gifree \in [Groups -> Int] /\ a2.sifree \in Int
  BY <1>2, <1>1 DEF Alloc
<1> QED BY <1>2, <1>3 DEF freeInode, Alloc

-----------------------------------------------------------------------------
(***************************************************************************)
(* The invariant, of a volume and of the ghost map of owners.              *)
(***************************************************************************)
Logs  == 0..(MaxBlk - 1)
Inos  == Inodes \cup {0}              \* with 0 for "not found"
Modes == {"none", "dir", "reg", "lnk"}

Node  == [mode : Modes, perm : {0, 1}, links : Int, size : 0..MaxBlk,
          ext : [Logs -> Blocks], tgt : Dirs]
Entry == [name : Names \cup {"", ".", ".."}, ino : Inos]

Volume == [node : [Inodes -> Node], blk : [Blocks -> [1..DirCap -> Entry]], al : Alloc,
           behind : SUBSET Inodes, over : BOOLEAN]

\* Who a block was handed out for: an inode number and a place in the file.
NoOne  == <<0, 0>>
Owners == [Blocks -> Inos \X Logs]

\* A copy of the inode maps blocks only where they were handed out for.
Fits(own, num, in) == \A l \in Logs : in.ext[l] # Hole => own[in.ext[l]] = <<num, l>>

\* A block that was handed out stays marked.
Marked(own, a) == \A b \in Blocks : own[b] # NoOne => blockUsed(a, b)

Good(own, V) ==
    /\ V \in Volume
    /\ Marked(own, V.al)
    /\ \A n \in Inodes : Fits(own, n, V.node[n])

\* Owners are never forgotten.
Extends(own, own2) == \A b \in Blocks : own[b] # NoOne => own2[b] = own[b]

\* A volume that a call may have left behind.
After(own, V) == \E own2 \in Owners : Extends(own, own2) /\ Good(own2, V)

\* An old copy of an inode agrees with the owners of later.
LEMMA StillFits ==
    ASSUME NEW own, NEW own2, Extends(own, own2), NEW n \in Inodes, NEW in \in Node, Fits(own, n, in)
    PROVE  Fits(own2, n, in)
<1> SUFFICES ASSUME NEW l \in Logs, in.ext[l] # Hole PROVE own2[in.ext[l]] = <<n, l>>
  BY DEF Fits
<1>1. own[in.ext[l]] = <<n, l>> /\ in.ext[l] \in Blocks
  BY DEF Fits, Node
<1>2. <<n, l>> # NoOne
  BY DEF NoOne, Inodes
<1> QED BY <1>1, <1>2 DEF Extends

\* One part of a call after another.
LEMMA ExtendsTrans ==
    ASSUME NEW o1, NEW o2, NEW o3, Extends(o1, o2), Extends(o2, o3)
    PROVE  Extends(o1, o3)
BY DEF Extends

\* Nothing was handed out.
LEMMA ExtendsRefl ==
    ASSUME NEW o1
    PROVE  Extends(o1, o1)
BY DEF Extends

\* A volume that agrees with the owners is one a call may leave behind.
LEMMA AfterNow ==
    ASSUME NEW own \in Owners, NEW V, Good(own, V)
    PROVE  After(own, V)
BY ExtendsRefl DEF After

\* A call made after another one.
LEMMA AfterThen ==
    ASSUME NEW own, NEW own2, NEW V, Extends(own, own2), After(own2, V)
    PROVE  After(own, V)
BY ExtendsTrans DEF After

-----------------------------------------------------------------------------
(***************************************************************************)
(* Paths and lookups.                                                      *)
(***************************************************************************)

\* What paths are made of.
LEMMA PathParts ==
    ASSUME NEW p \in Paths
    PROVE  /\ p \in Seq(Names) /\ Len(p) \in {1, 2}
           /\ Seqs!Front(p) \in Dirs
           /\ Seqs!Last(p) \in Names
<1>1. CASE \E n \in Names : p = <<n>>
  <2>1. PICK n \in Names : p = <<n>>
    BY <1>1
  <2>2. Seqs!Front(p) = <<>>
    BY <2>1 DEF Seqs!Front
  <2> QED BY <2>1, <2>2 DEF Dirs, Seqs!Last
<1>2. CASE \E d, n \in Names : p = <<d, n>>
  <2>1. PICK d \in Names, n \in Names : p = <<d, n>>
    BY <1>2
  <2>2. Seqs!Front(p) = <<d>>
    <3>1. p \in Seq(Names) /\ Len(p) = 2 /\ p[1] = d
      BY <2>1
    <3>2. SubSeq(p, 1, 1) = [i \in 1..1 |-> p[i]]
      BY <3>1
    <3>3. [i \in 1..1 |-> p[i]] = <<d>>
      BY <3>1
    <3>4. Seqs!Front(p) = SubSeq(p, 1, Len(p) - 1)
      BY DEF Seqs!Front
    <3>5. Len(p) - 1 = 1
      BY <3>1
    <3> QED BY <3>2, <3>3, <3>4, <3>5, Zenon
  <2> QED BY <2>1, <2>2 DEF Dirs, Seqs!Last
<1> QED BY <1>1, <1>2 DEF Paths

\* The directory of a path, and of the empty path.
LEMMA FrontOf ==
    ASSUME NEW q \in Dirs \cup Paths
    PROVE  Seqs!Front(q) \in Dirs
<1>1. CASE q = <<>>
  <2>1. Seqs!Front(q) = <<>>
    BY <1>1 DEF Seqs!Front
  <2> QED BY <2>1 DEF Dirs
<1>2. CASE q \in {<<n>> : n \in Names}
  <2>1. q \in Paths
    BY <1>2 DEF Paths
  <2> QED BY <2>1, PathParts
<1>3. CASE q \in Paths
  BY <1>3, PathParts
<1> QED BY <1>1, <1>2, <1>3 DEF Dirs

\* Every path is a sequence of names.
LEMMA PathSeq ==
    ASSUME NEW q \in Dirs \cup Paths
    PROVE  q \in Seq(Names) /\ Len(q) \in 0..2
<1>1. CASE q = <<>>
  BY <1>1
<1>2. CASE q \in {<<n>> : n \in Names}
  <2>1. PICK n \in Names : q = <<n>>
    BY <1>2
  <2>2. q \in Seq(Names) /\ Len(q) = 1
    BY <2>1
  <2> QED BY <2>2
<1>3. CASE q \in Paths
  BY <1>3, PathParts
<1> QED BY <1>1, <1>2, <1>3 DEF Dirs

\* The search of a directory's blocks in order ends at one of the hits.
LEMMA FirstPlace ==
    ASSUME NEW S, S # {}, S \subseteq Nat \X Nat
    PROVE  firstPlace(S) \in S
<1> DEFINE A == {x[1] : x \in S}
<1>1. A \subseteq Nat /\ A # {}
  OBVIOUS
<1>2. PICK a \in A : \A y \in A : a <= y
  BY <1>1, NatMin
<1> DEFINE B == {x[2] : x \in {y \in S : y[1] = a}}
<1>3. B \subseteq Nat /\ B # {}
  BY <1>2
<1>4. PICK b \in B : \A y \in B : b <= y
  BY <1>3, NatMin
<1>5. PICK x \in S : x[1] = a /\ x[2] = b
  BY <1>4
<1>6. ASSUME NEW y \in S PROVE x[1] < y[1] \/ (x[1] = y[1] /\ x[2] <= y[2])
  <2>1. y[1] \in A /\ y[1] \in Nat /\ a \in Nat /\ a <= y[1]
    BY <1>2
  <2>2. CASE y[1] = a
    BY <2>2, <1>4, <1>5
  <2>3. CASE y[1] # a
    BY <2>1, <2>3, <1>5
  <2> QED BY <2>2, <2>3
<1> QED BY <1>5, <1>6 DEF firstPlace

\* The places that a directory has: a block of it, and a slot in the block.
Spots(in) == (0..(in.size - 1)) \X (1..DirCap)

\* A place of a directory is an entry of one of its blocks.
LEMMA PlaceOf ==
    ASSUME NEW V \in Volume, NEW in \in Node, NEW x \in Spots(in)
    PROVE  /\ x[1] \in Logs /\ x[2] \in 1..DirCap /\ x \in Nat \X Nat
           /\ in.ext[x[1]] \in Blocks
           /\ entryAt(V, in, x) \in Entry
<1>1. /\ x[1] \in 0..(in.size - 1) /\ in.size \in 0..MaxBlk /\ x[2] \in 1..DirCap
      /\ x = <<x[1], x[2]>>
  BY DEF Node, Spots
<1>2. x[1] \in Logs /\ x[1] \in Nat /\ x[2] \in Nat
  BY <1>1 DEF Logs
<1>3. in.ext[x[1]] \in Blocks
  BY <1>2 DEF Node
<1>4. V.blk[in.ext[x[1]]] \in [1..DirCap -> Entry]
  BY <1>3 DEF Volume
<1> QED BY <1>1, <1>2, <1>3, <1>4 DEF entryAt

\* Entries with a name are in places that the directory has.
LEMMA NamedSpots ==
    ASSUME NEW V, NEW in, NEW name
    PROVE  placesNamed(V, in, name) \subseteq Spots(in)
BY Zenon DEF placesNamed, places, Spots

\* Looking for a name in a directory gives an inode number, or 0.
LEMMA Find ==
    ASSUME NEW V \in Volume, NEW d \in Inodes, NEW name
    PROVE  find(V, d, name) \in Inos
<1> DEFINE in == V.node[d]
           hits == placesNamed(V, in, name)
<1>1. in \in Node
  BY DEF Volume
<1>2. hits \subseteq Spots(in)
  BY NamedSpots
<1>5. find(V, d, name) = IF hits = {} THEN 0 ELSE entryAt(V, in, firstPlace(hits)).ino
  BY DEF find
<1> HIDE DEF hits, in
<1>3. CASE hits = {}
  BY <1>3, <1>5 DEF Inos
<1>4. CASE hits # {}
  <2>1. hits \subseteq Nat \X Nat
    BY <1>1, <1>2, PlaceOf
  <2>2. firstPlace(hits) \in hits
    BY <1>4, <2>1, FirstPlace
  <2>3. entryAt(V, in, firstPlace(hits)) \in Entry
    BY <1>1, <1>2, <2>2, PlaceOf
  <2> QED BY <1>4, <1>5, <2>3 DEF Entry
<1> QED BY <1>3, <1>4

\* The root directory has a number and a block.
LEMMA RootThere == Root \in Inodes /\ RootBlock \in Blocks /\ 0 \in Blocks
<1>1. \A m \in Nat : m >= 2 => NumGroups * m >= 2
  <2> TAKE m \in Nat
  <2> QED BY Z3
<1> QED BY <1>1 DEF Root, RootBlock, Inodes, Blocks

\* lookupPath returns an inode number, or 0.
LEMMA LookupPath ==
    ASSUME NEW V \in Volume, NEW p \in Dirs \cup Paths
    PROVE  lookupPath(V, p) \in Inos
<1> DEFINE n == Len(p)
           step(k, d) == IF isDir(V, d) THEN find(V, d, p[k]) ELSE 0
           f == [k \in 1..n |-> [d \in Inos |-> step(k, d)]]
           Sol(g) == g = [k \in 0..n |-> IF k = 0 THEN Root ELSE step(k, g[k - 1])]
<1>1. n \in Nat
  BY PathSeq
<1>2. Root \in Inos
  BY RootThere DEF Inos
<1>3. \A k \in 1..n, d \in Inos : step(k, d) \in Inos
  BY Find DEF isDir, Inos
<1>4. lookupPath(V, p) = (CHOOSE g : Sol(g))[n]
  BY DEF lookupPath
<1> HIDE DEF step, n
<1>5. f \in Steps(n, Inos)
  BY <1>3 DEF Steps
<1>6. \E g : Sol(g)
  <2>1. PICK g \in [0..n -> Inos] : IsRun(g, n, Root, f)
    <3> HIDE DEF f
    <3> QED BY <1>1, <1>2, <1>5, Iteration
  <2>2. ASSUME NEW k \in 1..n PROVE g[k] = step(k, g[k - 1])
    <3>1. g[k - 1] \in Inos
      BY <1>1
    <3> QED BY <2>1, <3>1 DEF IsRun
  <2>3. Sol(g)
    BY <2>1, <2>2 DEF IsRun
  <2> QED BY <2>3
<1> DEFINE at == CHOOSE g : Sol(g)
<1>7. Sol(at)
  BY <1>6
<1> HIDE DEF at
<1>8. at[0] = Root /\ \A k \in 1..n : at[k] = step(k, at[k - 1])
  BY <1>1, <1>7
<1> DEFINE T == {k \in 0..n : at[k] \in Inos}
<1>9. 0 \in T
  BY <1>1, <1>2, <1>8
<1>10. \A k \in 1..n : k - 1 \in T => k \in T
  BY <1>1, <1>3, <1>8
<1>11. n \in T
  <2> HIDE DEF T
  <2>1. \A k \in 0..n : k \in T
    BY <1>1, <1>9, <1>10, Upward
  <2> QED BY <1>1, <2>1
<1> QED BY <1>4, <1>11 DEF at

\* Following symbolic links, at most MaxFollow of them, leads to an inode
\* number, or to 0.
LEMMA LookupPathFollow ==
    ASSUME NEW V \in Volume, NEW p \in Dirs \cup Paths
    PROVE  lookupPathFollow(V, p) \in Inos
<1> DEFINE Q == Dirs \cup Paths
           isLnk(q) == lookupPath(V, q) # 0 /\ V.node[lookupPath(V, q)].mode = "lnk"
           next(q) == linkTarget(V.node[lookupPath(V, q)], q)
           row(r) == [q \in Q |-> IF isLnk(q) THEN r[next(q)] ELSE lookupPath(V, q)]
           last == [q \in Q |-> IF isLnk(q) THEN 0 ELSE lookupPath(V, q)]
           R == [Q -> Inos]
           f == [k \in 1..MaxFollow |-> [r \in R |-> row(r)]]
           Sol(g) == g = [k \in 0..MaxFollow |-> [q \in Q |->
                            IF lookupPath(V, q) = 0 \/ V.node[lookupPath(V, q)].mode # "lnk"
                            THEN lookupPath(V, q)
                            ELSE IF k = 0 THEN 0 ELSE g[k - 1][next(q)]]]
<1>1. \A q \in Q : lookupPath(V, q) \in Inos
  BY LookupPath
<1>2. ASSUME NEW q \in Q, isLnk(q) PROVE next(q) \in Q
  <2>1. V.node[lookupPath(V, q)] \in Node
    BY <1>1, <1>2 DEF Volume, Inos
  <2> QED BY <2>1, FrontOf DEF linkTarget, Node
<1>3. lookupPathFollow(V, p) = (CHOOSE g : Sol(g))[MaxFollow][p]
  BY DEF lookupPathFollow
<1> HIDE DEF isLnk, next
<1>4. last \in R /\ f \in Steps(MaxFollow, R)
  <2>1. last \in R
    BY <1>1 DEF Inos
  <2>2. ASSUME NEW r \in R PROVE row(r) \in R
    BY <1>1, <1>2, <2>2
  <2> HIDE DEF row, R
  <2> QED BY <2>1, <2>2 DEF Steps
<1>5. PICK rows \in [0..MaxFollow -> R] :
          IsRun(rows, MaxFollow, last, f)
  <2> HIDE DEF last, f, R
  <2> QED BY <1>4, Iteration
<1>6. \A k \in 0..MaxFollow : rows[k] = IF k = 0 THEN last ELSE row(rows[k - 1])
  <2> TAKE k \in 0..MaxFollow
  <2>1. CASE k = 0
    BY <1>5, <2>1 DEF IsRun
  <2>2. CASE k # 0
    <3>1. k \in 1..MaxFollow /\ k - 1 \in 0..MaxFollow
      BY <2>2
    <3>2. rows[k - 1] \in R
      <4> HIDE DEF R
      <4> QED BY <1>5, <3>1
    <3>3. f[k][rows[k - 1]] = row(rows[k - 1])
      <4> HIDE DEF row, R
      <4> QED BY <3>1, <3>2
    <3> QED BY <1>5, <2>2, <3>1, <3>3 DEF IsRun
  <2> QED BY <2>1, <2>2
<1>7. Sol(rows)
  <2> DEFINE rhs(k) == [q \in Q |-> IF ~isLnk(q) THEN lookupPath(V, q)
                                    ELSE IF k = 0 THEN 0 ELSE rows[k - 1][next(q)]]
  <2>1. \A k \in 0..MaxFollow : rows[k] = rhs(k)
    BY <1>6
  <2>2. rows = [k \in 0..MaxFollow |-> rhs(k)]
    <3> HIDE DEF rhs, R
    <3> QED BY <1>5, <2>1
  <2> QED BY <2>2 DEF isLnk
<1> DEFINE at == CHOOSE g : Sol(g)
<1>8. Sol(at)
  <2> HIDE DEF Sol
  <2> QED BY <1>7
<1> HIDE DEF at
<1>9. \A k \in 0..MaxFollow, q \in Q :
         at[k][q] = IF ~isLnk(q) THEN lookupPath(V, q)
                    ELSE IF k = 0 THEN 0 ELSE at[k - 1][next(q)]
  <2> TAKE k \in 0..MaxFollow, q \in Q
  <2>1. at[k] = [x \in Q |-> IF lookupPath(V, x) = 0 \/ V.node[lookupPath(V, x)].mode # "lnk"
                             THEN lookupPath(V, x)
                             ELSE IF k = 0 THEN 0 ELSE at[k - 1][next(x)]]
    <3> HIDE DEF Q
    <3> QED BY <1>8
  <2> QED BY <2>1 DEF isLnk
<1> DEFINE T == {k \in 0..MaxFollow : \A q \in Q : at[k][q] \in Inos}
<1>10. 0 \in T
  BY <1>1, <1>9 DEF Inos
<1>11. ASSUME NEW k \in 1..MaxFollow, k - 1 \in T PROVE k \in T
  <2> SUFFICES ASSUME NEW q \in Q PROVE at[k][q] \in Inos
    OBVIOUS
  <2>1. k \in 0..MaxFollow /\ k # 0
    OBVIOUS
  <2>2. isLnk(q) => at[k - 1][next(q)] \in Inos
    BY <1>2, <1>11
  <2> QED BY <1>1, <1>9, <2>1, <2>2
<1>12. MaxFollow \in T
  <2> HIDE DEF T
  <2>1. \A k \in 0..MaxFollow : k \in T
    BY <1>10, <1>11, Upward
  <2> QED BY <2>1
<1>13. at[MaxFollow][p] \in Inos
  BY <1>12
<1> QED BY <1>3, <1>13 DEF at

\* The directory a path is in, with links followed.
LEMMA Parent ==
    ASSUME NEW V \in Volume, NEW p \in Paths
    PROVE  parent(V, p) \in Inos
BY LookupPathFollow, PathParts DEF parent

-----------------------------------------------------------------------------
(***************************************************************************)
(* The parts of the calls that write.                                      *)
(***************************************************************************)

\* An inode written back: any copy that agrees with the owners, with the
\* allocators as they are or with an inode taken or given back.
LEMMA PutInode ==
    ASSUME NEW own, NEW V, Good(own, V), NEW a \in Alloc, a.bmap = V.al.bmap,
           NEW n \in Inodes, NEW in \in Node, Fits(own, n, in)
    PROVE  Good(own, [V EXCEPT !.al = a, !.node[n] = in])
<1> DEFINE W == [V EXCEPT !.al = a, !.node[n] = in]
<1>1. V \in Volume /\ V.node \in [Inodes -> Node]
  BY DEF Good, Volume
<1>2. W.node = [V.node EXCEPT ![n] = in] /\ W.al = a
  BY <1>1 DEF Volume
<1>3. W \in Volume
  BY <1>1, <1>2 DEF Volume
<1>4. Marked(own, W.al)
  BY <1>2 DEF Good, Marked, blockUsed
<1>5. \A m \in Inodes : Fits(own, m, W.node[m])
  BY <1>1, <1>2 DEF Good
<1> HIDE DEF W
<1>6. Good(own, W)
  BY <1>3, <1>4, <1>5 DEF Good
<1> QED BY <1>6 DEF W

\* writeInode, of any copy that agrees with the owners.
LEMMA WriteInode ==
    ASSUME NEW own, NEW V, Good(own, V), NEW n \in Inodes, NEW in \in Node, Fits(own, n, in)
    PROVE  Good(own, writeInode(V, n, in))
<1>1. V.al \in Alloc /\ V \in Volume
  BY DEF Good, Volume
<1>2. [V EXCEPT !.al = V.al, !.node[n] = in] = writeInode(V, n, in)
  BY <1>1 DEF writeInode, Volume
<1>3. Good(own, [V EXCEPT !.al = V.al, !.node[n] = in])
  BY <1>1, PutInode
<1> QED BY <1>2, <1>3

\* The contents of directory blocks, and the model's own marks, have no part in
\* who owns what.
LEMMA OtherFields ==
    ASSUME NEW own, NEW V, Good(own, V), NEW W \in Volume, W.al = V.al, W.node = V.node
    PROVE  Good(own, W)
BY DEF Good

\* A directory entry written into a place of a block.
LEMMA PutEntry ==
    ASSUME NEW own, NEW V, Good(own, V), NEW b \in Blocks, NEW k \in 1..DirCap, NEW e \in Entry
    PROVE  Good(own, [V EXCEPT !.blk[b][k] = e])
<1> DEFINE W == [V EXCEPT !.blk[b][k] = e]
<1>1. V \in Volume
  BY DEF Good
<1>2. W.blk = [V.blk EXCEPT ![b] = [V.blk[b] EXCEPT ![k] = e]]
  BY <1>1 DEF Volume
<1>3. W.blk \in [Blocks -> [1..DirCap -> Entry]]
  <2> DEFINE D == [1..DirCap -> Entry]
  <2>1. V.blk \in [Blocks -> D]
    BY <1>1 DEF Volume
  <2>2. [V.blk[b] EXCEPT ![k] = e] \in D
    BY <2>1
  <2> HIDE DEF D, W
  <2>3. [V.blk EXCEPT ![b] = [V.blk[b] EXCEPT ![k] = e]] \in [Blocks -> D]
    BY <2>1, <2>2
  <2> QED BY <1>2, <2>3 DEF D
<1>4. W \in Volume /\ W.al = V.al /\ W.node = V.node
  BY <1>1, <1>3 DEF Volume
<1> QED BY <1>4, OtherFields

\* A block handed out for place l of the inode, and what the owners are then.
LEMMA HandOut ==
    ASSUME NEW own \in Owners, NEW V, Good(own, V), canAllocBlock(V.al),
           NEW g \in Groups, NEW n \in Inodes, NEW l \in Logs
    PROVE  LET r == allocBlock(V.al, g) IN
           \E own2 \in Owners :
              /\ Extends(own, own2)
              /\ r.a \in Alloc /\ r.blk \in Blocks /\ Marked(own2, r.a)
              /\ \A in \in Node : Fits(own, n, in) =>
                    appendExtent(in, l, r.blk) \in Node /\ Fits(own2, n, appendExtent(in, l, r.blk))
<1> DEFINE r == allocBlock(V.al, g)
           own2 == [own EXCEPT ![r.blk] = <<n, l>>]
<1>1. V \in Volume /\ V.al \in Alloc /\ Marked(own, V.al)
  BY DEF Good, Volume
<1>2. /\ r.a \in Alloc /\ r.blk \in Blocks
      /\ ~blockUsed(V.al, r.blk) /\ blockUsed(r.a, r.blk)
      /\ \A b \in Blocks : blockUsed(V.al, b) => blockUsed(r.a, b)
  BY <1>1, AllocBlock
<1> HIDE DEF r
<1>3. own2 \in Owners
  BY <1>2 DEF Owners, Inos
<1>4. own[r.blk] = NoOne
  BY <1>1, <1>2 DEF Marked
<1>5. \A b \in Blocks : own2[b] = IF b = r.blk THEN <<n, l>> ELSE own[b]
  BY DEF Owners
<1>6. Extends(own, own2)
  BY <1>4, <1>5 DEF Extends
<1>7. Marked(own2, r.a)
  BY <1>1, <1>2, <1>5 DEF Marked
<1>8. ASSUME NEW in \in Node, Fits(own, n, in)
      PROVE  appendExtent(in, l, r.blk) \in Node /\ Fits(own2, n, appendExtent(in, l, r.blk))
  <2> DEFINE in2 == appendExtent(in, l, r.blk)
  <2>1. in2.ext = [in.ext EXCEPT ![l] = r.blk] /\ in.ext \in [Logs -> Blocks]
    BY DEF appendExtent, Node
  <2>2. in2 \in Node
    BY <1>2, <2>1 DEF appendExtent, Node
  <2>3. ASSUME NEW m \in Logs, in2.ext[m] # Hole PROVE own2[in2.ext[m]] = <<n, m>>
    <3>1. CASE m = l
      BY <1>2, <1>5, <2>1, <3>1
    <3>2. CASE m # l
      <4>1. in2.ext[m] = in.ext[m] /\ in.ext[m] \in Blocks
        BY <2>1, <3>2
      <4>2. Fits(own2, n, in)
        BY <1>6, <1>8, StillFits
      <4> QED BY <2>3, <4>1, <4>2 DEF Fits
    <3> QED BY <3>1, <3>2
  <2> QED BY <2>2, <2>3 DEF Fits
<1> HIDE DEF own2
<1> QED BY <1>2, <1>3, <1>6, <1>7, <1>8 DEF r

\* The inode written back with a block that was just handed out for it.
LEMMA PutBlock ==
    ASSUME NEW own, NEW V, Good(own, V), NEW own2, Extends(own, own2),
           NEW a \in Alloc, Marked(own2, a), NEW n \in Inodes, NEW in \in Node, Fits(own2, n, in)
    PROVE  Good(own2, [V EXCEPT !.al = a, !.node[n] = in])
<1> DEFINE W == [V EXCEPT !.al = a, !.node[n] = in]
<1>1. V \in Volume /\ V.node \in [Inodes -> Node]
  BY DEF Good, Volume
<1>2. W.node = [V.node EXCEPT ![n] = in] /\ W.al = a
  BY <1>1 DEF Volume
<1>3. W \in Volume
  BY <1>1, <1>2 DEF Volume
<1>4. \A m \in Inodes : Fits(own2, m, V.node[m])
  BY <1>1, StillFits DEF Good
<1>5. \A m \in Inodes : Fits(own2, m, W.node[m])
  BY <1>1, <1>2, <1>4
<1> HIDE DEF W
<1>6. Good(own2, W)
  BY <1>2, <1>3, <1>5 DEF Good
<1> QED BY <1>6 DEF W

\* addDirEntry, into a free place, into a new block, or not at all.
LEMMA AddDirEntry ==
    ASSUME NEW own \in Owners, NEW V, Good(own, V), NEW d \in Inodes,
           NEW name \in Names \cup {".", ".."}, NEW n \in Inos
    PROVE  After(own, addDirEntry(V, d, name, n).v)
<1> DEFINE in == V.node[d]
           free == places(V, in, LAMBDA e : e.ino = 0)
           x == firstPlace(free)
           new == entry(name, n)
           r == allocBlock(V.al, inodeBlockGroup(d))
<1>1. V \in Volume /\ in \in Node /\ Fits(own, d, in)
  BY DEF Good, Volume
<1>2. new \in Entry
  BY DEF entry, Entry
<1>3. free \subseteq Spots(in)
  BY Zenon DEF places, Spots
<1> HIDE DEF new
<1>4. CASE free # {}
  <2>3. in.ext[x[1]] \in Blocks /\ x[2] \in 1..DirCap
    <3> HIDE DEF free, in
    <3>1. free \subseteq Nat \X Nat
      BY <1>1, <1>3, PlaceOf
    <3>2. x \in Spots(in)
      BY <1>3, <1>4, <3>1, FirstPlace
    <3> HIDE DEF x
    <3> QED BY <1>1, <3>2, PlaceOf
  <2>4. addDirEntry(V, d, name, n).v = [V EXCEPT !.blk[in.ext[x[1]]][x[2]] = new]
    BY <1>4 DEF addDirEntry, did, new
  <2> HIDE DEF x, in, free
  <2>5. Good(own, [V EXCEPT !.blk[in.ext[x[1]]][x[2]] = new])
    BY <1>2, <2>3, PutEntry
  <2> QED BY <2>4, <2>5, AfterNow
<1>5. CASE free = {} /\ ~canAllocBlock(V.al)
  <2>1. addDirEntry(V, d, name, n).v = V
    BY <1>5, Zenon DEF addDirEntry, failed
  <2> QED BY <2>1, AfterNow
<1>6. CASE free = {} /\ canAllocBlock(V.al)
  <2>1. addDirEntry(V, d, name, n).v = dirBlock(V, d, r, new)
    BY <1>6, Zenon DEF addDirEntry, did, new
  <2> HIDE DEF free
  <2>2. CASE in.size >= MaxBlk
    <3>1. dirBlock(V, d, r, new) = [V EXCEPT !.over = TRUE]
      BY <2>2 DEF dirBlock
    <3>2. [V EXCEPT !.over = TRUE] \in Volume
      BY <1>1 DEF Volume
    <3>3. Good(own, [V EXCEPT !.over = TRUE])
      BY <1>1, <3>2, OtherFields DEF Volume
    <3> QED BY <2>1, <3>1, <3>3, AfterNow
  <2>3. CASE ~(in.size >= MaxBlk)
    <3> DEFINE in2 == appendExtent(in, in.size, r.blk)
               in3 == [in2 EXCEPT !.size = @ + 1]
               W == [V EXCEPT !.al = r.a, !.node[d] = in3]
    <3>1. in.size \in Logs /\ in.size \in Nat /\ in.size + 1 \in 0..MaxBlk
      BY <1>1, <2>3 DEF Node, Logs
    <3>2. inodeBlockGroup(d) \in Groups
      BY InodeDecompose
    <3>3. PICK own2 \in Owners :
              /\ Extends(own, own2)
              /\ r.a \in Alloc /\ r.blk \in Blocks /\ Marked(own2, r.a)
              /\ in2 \in Node /\ Fits(own2, d, in2)
      <4> HIDE DEF in
      <4> QED BY <1>1, <1>6, <3>1, <3>2, HandOut
    <3>4. in2.size = in.size
      BY <1>1 DEF appendExtent, Node
    <3> HIDE DEF in2, r, in
    <3>5. in3 \in Node /\ Fits(own2, d, in3)
      BY <3>1, <3>3, <3>4 DEF Node, Fits
    <3>6. Good(own2, W)
      <4> HIDE DEF in3
      <4> QED BY <3>3, <3>5, PutBlock
    <3>7. dirBlock(V, d, r, new) = [W EXCEPT !.blk[r.blk] = [EmptyBlock EXCEPT ![1] = new]]
      <4>1. dirBlock(V, d, r, new) = [V EXCEPT !.al = r.a, !.blk[r.blk] = [EmptyBlock EXCEPT ![1] = new],
                                               !.node[d] = in3]
        BY <2>3 DEF dirBlock, in, in2
      <4> HIDE DEF in3
      <4> QED BY <1>1, <4>1 DEF Volume
    <3>8. [EmptyBlock EXCEPT ![1] = new] \in [1..DirCap -> Entry]
      BY <1>2 DEF EmptyBlock, Free, Entry, Inos
    <3>9. [W EXCEPT !.blk[r.blk] = [EmptyBlock EXCEPT ![1] = new]] \in Volume
      <4> HIDE DEF W
      <4> QED BY <3>3, <3>6, <3>8 DEF Good, Volume
    <3>10. Good(own2, dirBlock(V, d, r, new))
      <4>1. W \in Volume
        BY <3>6 DEF Good
      <4> HIDE DEF W
      <4> DEFINE B == [EmptyBlock EXCEPT ![1] = new]
                 Z == [W EXCEPT !.blk[r.blk] = B]
      <4>2. Z.node = W.node /\ Z.al = W.al
        BY <4>1 DEF Volume
      <4>3. Z \in Volume
        BY <3>9
      <4> HIDE DEF Z
      <4>4. Good(own2, Z)
        BY <3>6, <4>2, <4>3, OtherFields
      <4> QED BY <3>7, <4>4 DEF Z
    <3> QED BY <2>1, <3>3, <3>10 DEF After
  <2> QED BY <2>2, <2>3
<1> QED BY <1>4, <1>5, <1>6

\* removeDirEntry writes no inode and takes no block.
LEMMA RemoveDirEntry ==
    ASSUME NEW own, NEW V, Good(own, V), NEW d \in Inodes, NEW name
    PROVE  Good(own, removeDirEntry(V, d, name).v)
<1> DEFINE in == V.node[d]
           hits == placesNamed(V, in, name)
           x == firstPlace(hits)
           old == entryAt(V, in, x)
           new == [old EXCEPT !.ino = 0]
<1>1. V \in Volume /\ in \in Node
  BY DEF Good, Volume
<1>2. hits \subseteq Spots(in)
  BY NamedSpots
<1>3. CASE hits # {}
  <2>3. in.ext[x[1]] \in Blocks /\ x[2] \in 1..DirCap /\ entryAt(V, in, x) \in Entry
    <3> HIDE DEF hits, in
    <3>1. hits \subseteq Nat \X Nat
      BY <1>1, <1>2, PlaceOf
    <3>2. x \in Spots(in)
      BY <1>2, <1>3, <3>1, FirstPlace
    <3> HIDE DEF x
    <3> QED BY <1>1, <3>2, PlaceOf
  <2>4. new \in Entry
    <3> HIDE DEF old
    <3>1. old \in Entry
      BY <2>3 DEF old
    <3> QED BY <3>1 DEF Entry, Inos
  <2>5. removeDirEntry(V, d, name).v = [V EXCEPT !.blk[in.ext[x[1]]][x[2]].ino = 0]
    BY <1>3, Zenon DEF removeDirEntry, did
  <2> HIDE DEF x, in, hits
  <2>6. [V EXCEPT !.blk[in.ext[x[1]]][x[2]].ino = 0] = [V EXCEPT !.blk[in.ext[x[1]]][x[2]] = new]
    BY DEF entryAt
  <2> HIDE DEF new
  <2>7. Good(own, [V EXCEPT !.blk[in.ext[x[1]]][x[2]] = new])
    BY <2>3, <2>4, PutEntry
  <2> QED BY <2>5, <2>6, <2>7
<1>4. CASE hits = {}
  BY <1>4 DEF removeDirEntry, failed
<1> QED BY <1>3, <1>4

\* The state of writeFileRange between two blocks: the volume and the copy of the
\* inode agree with some owners.
Writing(own, num) ==
    {s \in [ok : BOOLEAN, v : Volume, in : Node, done : Nat] :
        \E own2 \in Owners : Extends(own, own2) /\ Good(own2, s.v) /\ Fits(own2, num, s.in)}

\* One block of a write: it is there, or it is handed out, or the disk is full.
LEMMA WriteBlock ==
    ASSUME NEW own \in Owners, NEW n \in Inodes, NEW s \in Writing(own, n), NEW l \in Logs
    PROVE  writeBlock(s, n, l) \in Writing(own, n)
<1> DEFINE r == allocBlock(s.v.al, inodeBlockGroup(n))
           in == appendExtent(s.in, l, r.blk)
<1>0. s \in [ok : BOOLEAN, v : Volume, in : Node, done : Nat]
  BY DEF Writing
<1>1. PICK own1 \in Owners : Extends(own, own1) /\ Good(own1, s.v) /\ Fits(own1, n, s.in)
  BY DEF Writing
<1>2. CASE s.in.mode = "lnk" \/ (s.in.ext[l] = Hole /\ ~canAllocBlock(s.v.al))
  <2>1. writeBlock(s, n, l) = [s EXCEPT !.ok = FALSE]
    BY <1>2 DEF writeBlock
  <2> QED BY <1>0, <1>1, <2>1 DEF Writing
<1>3. CASE s.in.mode # "lnk" /\ s.in.ext[l] # Hole
  <2>1. writeBlock(s, n, l) = [s EXCEPT !.done = @ + 1]
    BY <1>3 DEF writeBlock
  <2> QED BY <1>0, <1>1, <2>1 DEF Writing
<1>4. CASE s.in.mode # "lnk" /\ s.in.ext[l] = Hole /\ canAllocBlock(s.v.al)
  <2>1. writeBlock(s, n, l) = [ok |-> TRUE, v |-> mapBlock(s.v, n, in, r), in |-> in, done |-> s.done + 1]
    BY <1>4 DEF writeBlock
  <2>2. inodeBlockGroup(n) \in Groups
    BY InodeDecompose
  <2>3. PICK own2 \in Owners :
            /\ Extends(own1, own2)
            /\ r.a \in Alloc /\ r.blk \in Blocks /\ Marked(own2, r.a)
            /\ in \in Node /\ Fits(own2, n, in)
    BY <1>0, <1>1, <1>4, <2>2, HandOut
  <2> HIDE DEF r, in
  <2>4. Good(own2, mapBlock(s.v, n, in, r))
    BY <1>1, <2>3, PutBlock DEF mapBlock
  <2>5. Extends(own, own2)
    BY <1>1, <2>3, ExtendsTrans
  <2>6. mapBlock(s.v, n, in, r) \in Volume
    BY <2>4 DEF Good
  <2> QED BY <1>0, <2>1, <2>3, <2>4, <2>5, <2>6 DEF Writing
<1> QED BY <1>2, <1>3, <1>4

\* writeFileRange, however far it gets.
LEMMA WriteFileRange ==
    ASSUME NEW own \in Owners, NEW V, Good(own, V), NEW n \in Inodes, NEW in \in Node, Fits(own, n, in),
           NEW off \in Nat, NEW len \in Nat, off + len <= MaxBlk
    PROVE  writeFileRange(V, n, in, off, len) \in Writing(own, n)
<1> DEFINE S == Writing(own, n)
           s0 == [ok |-> TRUE, v |-> V, in |-> in, done |-> 0]
           step(k, s) == IF s.ok THEN writeBlock(s, n, off + k - 1) ELSE s
           f == [k \in 1..len |-> [s \in S |-> step(k, s)]]
           Sol(g) == g = [k \in 0..len |-> IF k = 0 THEN s0 ELSE step(k, g[k - 1])]
           at == CHOOSE g : Sol(g)
           end == at[len]
           in3 == [end.in EXCEPT !.size = off + len]
<1>1. s0 \in S
  BY ExtendsRefl DEF Writing, Good
<1>2. ASSUME NEW k \in 1..len, NEW s \in S PROVE step(k, s) \in S
  <2>1. off + k - 1 \in Logs
    BY DEF Logs
  <2> QED BY <2>1, WriteBlock
<1>3. writeFileRange(V, n, in, off, len)
        = IF end.ok /\ len > 0 /\ off + len > end.in.size
          THEN [end EXCEPT !.v = writeInode(@, n, in3), !.in = in3]
          ELSE end
  BY DEF writeFileRange
<1> HIDE DEF S, s0, step
<1>4. \E g : Sol(g)
  <2>1. f \in Steps(len, S)
    BY <1>2 DEF Steps
  <2>2. PICK g \in [0..len -> S] : IsRun(g, len, s0, f)
    <3> HIDE DEF f
    <3> QED BY <1>1, <2>1, Iteration
  <2>3. ASSUME NEW k \in 1..len PROVE g[k] = step(k, g[k - 1])
    <3>1. g[k - 1] \in S
      OBVIOUS
    <3> QED BY <2>2, <3>1 DEF IsRun
  <2>4. Sol(g)
    BY <2>2, <2>3 DEF IsRun
  <2> QED BY <2>4
<1>5. Sol(at)
  BY <1>4
<1> HIDE DEF at
<1>6. at[0] = s0 /\ \A k \in 1..len : at[k] = step(k, at[k - 1])
  BY <1>5
<1> DEFINE T == {k \in 0..len : at[k] \in S}
<1>7. 0 \in T
  BY <1>1, <1>6
<1>8. \A k \in 1..len : k - 1 \in T => k \in T
  BY <1>2, <1>6
<1>9. end \in S
  <2> HIDE DEF T
  <2>1. \A k \in 0..len : k \in T
    BY <1>7, <1>8, Upward
  <2> QED BY <2>1 DEF T
<1> HIDE DEF end
<1>10. CASE ~(end.ok /\ len > 0 /\ off + len > end.in.size)
  BY <1>3, <1>9, <1>10 DEF S
<1>11. CASE end.ok /\ len > 0 /\ off + len > end.in.size
  <2>1. end \in [ok : BOOLEAN, v : Volume, in : Node, done : Nat]
    BY <1>9 DEF S, Writing
  <2>2. PICK own2 \in Owners : Extends(own, own2) /\ Good(own2, end.v) /\ Fits(own2, n, end.in)
    BY <1>9 DEF S, Writing
  <2>3. in3 \in Node /\ Fits(own2, n, in3)
    <3>1. PICK z \in 0..MaxBlk : z = off + len
      OBVIOUS
    <3>2. PICK e \in Node : e = end.in
      BY <2>1
    <3>3. in3 = [e EXCEPT !.size = z]
      BY <3>1, <3>2
    <3>4. in3.ext = e.ext /\ in3 \in Node
      <4> HIDE DEF in3
      <4> QED BY <3>2, <3>3 DEF Node
    <3> QED BY <2>2, <3>2, <3>4 DEF Fits
  <2> HIDE DEF in3
  <2>4. Good(own2, writeInode(end.v, n, in3))
    BY <2>2, <2>3, WriteInode
  <2>5. writeInode(end.v, n, in3) \in Volume
    BY <2>4 DEF Good
  <2>6. [end EXCEPT !.v = writeInode(@, n, in3), !.in = in3] \in S
    BY <2>1, <2>2, <2>3, <2>4, <2>5 DEF S, Writing
  <2> QED BY <1>3, <1>11, <2>6 DEF S
<1> QED BY <1>10, <1>11

-----------------------------------------------------------------------------
(***************************************************************************)
(* The calls by path.                                                      *)
(***************************************************************************)

\* An inode without blocks agrees with any owners.
LEMMA NewFits ==
    ASSUME NEW mode \in Modes, NEW links \in Int
    PROVE  /\ newInode(mode, links) \in Node
           /\ newInode(mode, links).mode = mode
           /\ \A own, n : Fits(own, n, newInode(mode, links))
<1>1. 0 \in Blocks /\ <<>> \in Dirs /\ 0 \in 0..MaxBlk
  BY RootThere DEF Dirs
<1>2. NoExtents \in [Logs -> Blocks] /\ \A l \in Logs : NoExtents[l] = Hole
  BY <1>1 DEF NoExtents, Logs, Hole
<1>3. NoInode \in Node /\ NoInode.ext = NoExtents
  BY <1>1, <1>2 DEF NoInode, Node, Modes
<1>4. PICK in \in Node : in = NoInode
  BY <1>3
<1>5. newInode(mode, links) = [in EXCEPT !.mode = mode, !.links = links]
  BY <1>4 DEF newInode
<1>6. /\ newInode(mode, links) \in Node /\ newInode(mode, links).mode = mode
      /\ newInode(mode, links).ext = in.ext
  BY <1>5 DEF Node
<1> QED BY <1>2, <1>3, <1>4, <1>6 DEF Fits

\* allocInode and the new inode, written over whatever had its number before.
LEMMA NewInode ==
    ASSUME NEW own, NEW V, Good(own, V), NEW d \in Inodes, NEW in \in Node,
           \A n : Fits(own, n, in), canAllocInode(V.al)
    PROVE  LET r == allocInode(V.al, inodeBlockGroup(d), in.mode = "dir") IN
           r.ino \in Inodes /\ Good(own, [V EXCEPT !.al = r.a, !.node[r.ino] = in])
<1> DEFINE r == allocInode(V.al, inodeBlockGroup(d), in.mode = "dir")
<1>1. V.al \in Alloc /\ inodeBlockGroup(d) \in Groups
  BY InodeDecompose DEF Good, Volume
<1>2. r.a \in Alloc /\ r.ino \in Inodes /\ r.a.bmap = V.al.bmap
  BY <1>1, AllocInode
<1> HIDE DEF r
<1>3. Good(own, [V EXCEPT !.al = r.a, !.node[r.ino] = in])
  BY <1>2, PutInode
<1> QED BY <1>2, <1>3 DEF r

\* createFile, to its end or to one of its early returns.
LEMMA CreateFile ==
    ASSUME NEW own \in Owners, NEW V, Good(own, V), NEW p \in Paths, NEW len \in 0..1
    PROVE  After(own, createFile(V, p, len).v)
<1> DEFINE d == parent(V, p)
           in == newInode("reg", 1)
           r == allocInode(V.al, inodeBlockGroup(d), in.mode = "dir")
           W == [V EXCEPT !.al = r.a, !.node[r.ino] = in]
           w == writeFileRange(W, r.ino, in, 0, len)
           y == addDirEntry(w.v, d, Seqs!Last(p), r.ino)
<1>1. V \in Volume /\ d \in Inos
  BY Parent DEF Good
<1>2. CASE d = 0 \/ ~canAllocInode(V.al)
  <2>1. createFile(V, p, len).v = V
    BY <1>2 DEF createFile, newNode, failed
  <2> QED BY <2>1, AfterNow
<1>3. CASE ~(d = 0 \/ ~canAllocInode(V.al))
  <2>1. createFile(V, p, len).v =
           IF w.ok THEN IF y.ok THEN writeInode(y.v, d, V.node[d]) ELSE y.v ELSE w.v
    BY <1>3 DEF createFile, newNode, then, did, failed
  <2>2. d \in Inodes
    BY <1>1, <1>3 DEF Inos
  <2>3. in \in Node /\ \A n : Fits(own, n, in)
    BY NewFits DEF Modes
  <2>4. r.ino \in Inodes /\ Good(own, W)
    <3> HIDE DEF in, d
    <3> QED BY <1>3, <2>2, <2>3, NewInode
  <2> HIDE DEF d, in, r, W
  <2>5. len \in Nat /\ 0 + len <= MaxBlk
    OBVIOUS
  <2>6. w \in Writing(own, r.ino)
    BY <2>3, <2>4, <2>5, WriteFileRange
  <2> HIDE DEF w
  <2>7. PICK own1 \in Owners : Extends(own, own1) /\ Good(own1, w.v)
    BY <2>6 DEF Writing
  <2>8. Seqs!Last(p) \in Names \cup {".", ".."} /\ r.ino \in Inos
    BY <2>4, PathParts DEF Inos
  <2>9. PICK own2 \in Owners : Extends(own1, own2) /\ Good(own2, y.v)
    <3>1. After(own1, y.v)
      BY <2>2, <2>7, <2>8, AddDirEntry
    <3> QED BY <3>1 DEF After
  <2> HIDE DEF y
  <2>10. Extends(own, own2)
    BY <2>7, <2>9, ExtendsTrans
  <2>11. V.node[d] \in Node /\ Fits(own2, d, V.node[d])
    BY <1>1, <2>2, <2>10, StillFits DEF Good, Volume
  <2>12. Good(own2, writeInode(y.v, d, V.node[d]))
    BY <2>2, <2>9, <2>11, WriteInode
  <2>13. After(own, w.v) /\ After(own, y.v) /\ After(own, writeInode(y.v, d, V.node[d]))
    BY <2>7, <2>9, <2>10, <2>12 DEF After
  <2> QED BY <2>1, <2>13
<1> QED BY <1>2, <1>3

\* writeFile: the copy cut to size 0 keeps its blocks.
LEMMA WriteFileCall ==
    ASSUME NEW own \in Owners, NEW V, Good(own, V), NEW p \in Paths, NEW len \in 0..1
    PROVE  After(own, writeFile(V, p, len).v)
<1> DEFINE n == lookupPath(V, p)
           in == [V.node[n] EXCEPT !.size = 0]
           W == writeInode(V, n, in)
           w == writeFileRange(W, n, in, 0, len)
<1>1. V \in Volume /\ n \in Inos
  BY LookupPath DEF Good
<1>2. CASE n = 0
  <2>1. writeFile(V, p, len) = createFile(V, p, len)
    BY <1>2 DEF writeFile
  <2> QED BY <2>1, CreateFile
<1>3. CASE n # 0
  <2>1. writeFile(V, p, len).v = w.v
    BY <1>3 DEF writeFile, then, did, failed
  <2>2. n \in Inodes
    BY <1>1, <1>3 DEF Inos
  <2> HIDE DEF n
  <2>3. in \in Node /\ Fits(own, n, in)
    <3>1. PICK e \in Node : e = V.node[n] /\ Fits(own, n, e)
      BY <1>1, <2>2 DEF Good, Volume
    <3>2. in \in Node /\ in.ext = e.ext
      BY <3>1 DEF Node
    <3> QED BY <3>1, <3>2 DEF Fits
  <2> HIDE DEF in
  <2>4. Good(own, W)
    BY <2>2, <2>3, WriteInode
  <2> HIDE DEF W
  <2>5. len \in Nat /\ 0 + len <= MaxBlk
    OBVIOUS
  <2>6. w \in Writing(own, n)
    BY <2>2, <2>3, <2>4, <2>5, WriteFileRange
  <2> HIDE DEF w
  <2>7. After(own, w.v)
    BY <2>6 DEF Writing, After
  <2> QED BY <2>1, <2>7
<1> QED BY <1>2, <1>3

\* What a part of a call may return.
Outcomes(own) == {r \in [ok : BOOLEAN, v : Volume] : After(own, r.v)}

\* Both kinds of return, of a volume that agrees with some owners.
LEMMA Returns ==
    ASSUME NEW own, NEW V, After(own, V)
    PROVE  did(V) \in Outcomes(own) /\ failed(V) \in Outcomes(own)
<1>1. V \in Volume
  BY DEF After, Good
<1> QED BY <1>1 DEF did, failed, Outcomes

\* mkdir, to its end or to one of its early returns.
LEMMA MkdirCall ==
    ASSUME NEW own \in Owners, NEW V, Good(own, V), NEW p \in Paths
    PROVE  mkdir(V, p) \in Outcomes(own)
<1> DEFINE d == parent(V, p)
           in == newInode("dir", 2)
           r == allocInode(V.al, inodeBlockGroup(d), in.mode = "dir")
           W == [V EXCEPT !.al = r.a, !.node[r.ino] = in]
           x == addDirEntry(W, r.ino, ".", r.ino)
           y == addDirEntry(x.v, r.ino, "..", d)
           z == addDirEntry(y.v, d, Seqs!Last(p), r.ino)
           Z == [z.v EXCEPT !.node[d].links = @ + 1]
<1>1. V \in Volume /\ d \in Inos
  BY Parent DEF Good
<1>2. CASE d = 0 \/ ~canAllocInode(V.al)
  <2>1. mkdir(V, p) = failed(V)
    BY <1>2 DEF mkdir, newNode
  <2> QED BY <2>1, AfterNow, Returns
<1>3. CASE ~(d = 0 \/ ~canAllocInode(V.al))
  <2>1. mkdir(V, p) = IF x.ok
                      THEN IF y.ok THEN IF z.ok THEN did(Z) ELSE failed(z.v) ELSE failed(y.v)
                      ELSE failed(x.v)
    <3> DEFINE all == IF x.ok
                      THEN IF y.ok THEN IF z.ok THEN did(Z) ELSE failed(z.v) ELSE failed(y.v)
                      ELSE failed(x.v)
    <3>1. mkdir(V, p) = IF d = 0 \/ ~canAllocInode(V.al) THEN failed(V) ELSE all
      BY Zenon DEF mkdir, newNode, then
    <3> QED BY <1>3, <3>1
  <2>2. d \in Inodes
    BY <1>1, <1>3 DEF Inos
  <2>3. in \in Node /\ \A n : Fits(own, n, in)
    BY NewFits DEF Modes
  <2>4. r.ino \in Inodes /\ Good(own, W)
    <3> HIDE DEF in, d
    <3> QED BY <1>3, <2>2, <2>3, NewInode
  <2>5. r.ino \in Inos /\ d \in Inos /\ Seqs!Last(p) \in Names \cup {".", ".."}
    BY <2>2, <2>4, PathParts DEF Inos
  <2> HIDE DEF d, in, r, W
  <2>6. PICK own1 \in Owners : Extends(own, own1) /\ Good(own1, x.v)
    <3>1. After(own, x.v)
      BY <2>4, <2>5, AddDirEntry
    <3> QED BY <3>1 DEF After
  <2> HIDE DEF x
  <2>7. PICK own2 \in Owners : Extends(own1, own2) /\ Good(own2, y.v)
    <3>1. After(own1, y.v)
      BY <2>4, <2>5, <2>6, AddDirEntry
    <3> QED BY <3>1 DEF After
  <2> HIDE DEF y
  <2>8. PICK own3 \in Owners : Extends(own2, own3) /\ Good(own3, z.v)
    <3>1. After(own2, z.v)
      BY <2>2, <2>5, <2>7, AddDirEntry
    <3> QED BY <3>1 DEF After
  <2> HIDE DEF z
  <2>9. Extends(own, own2) /\ Extends(own, own3)
    BY <2>6, <2>7, <2>8, ExtendsTrans
  <2>10. Good(own3, Z)
    <3>1. PICK e \in Node : e = z.v.node[d] /\ Fits(own3, d, e)
      BY <2>2, <2>8 DEF Good, Volume
    <3> DEFINE e2 == [e EXCEPT !.links = @ + 1]
    <3>2. e2 \in Node /\ e2.ext = e.ext
      BY DEF Node
    <3>3. Fits(own3, d, e2)
      <4> HIDE DEF e2
      <4> QED BY <3>1, <3>2 DEF Fits
    <3>4. Z = writeInode(z.v, d, e2)
      BY <3>1 DEF writeInode
    <3> HIDE DEF e2, Z
    <3> QED BY <2>2, <2>8, <3>2, <3>3, <3>4, WriteInode
  <2> HIDE DEF Z
  <2>11. After(own, x.v) /\ After(own, y.v) /\ After(own, z.v) /\ After(own, Z)
    BY <2>6, <2>7, <2>8, <2>9, <2>10 DEF After
  <2>12. /\ failed(x.v) \in Outcomes(own) /\ failed(y.v) \in Outcomes(own)
         /\ failed(z.v) \in Outcomes(own) /\ did(Z) \in Outcomes(own)
    BY <2>11, Returns
  <2> QED BY <2>1, <2>12, Zenon
<1> QED BY <1>2, <1>3

\* remove: the inode loses a link and may be given back; its blocks are not.
LEMMA RemoveCall ==
    ASSUME NEW own \in Owners, NEW V, Good(own, V), NEW p \in Paths, NEW allowDir
    PROVE  After(own, remove(V, p, allowDir).v)
<1> DEFINE d == parent(V, p)
           n == lookupPath(V, p)
           w == removeDirEntry(V, d, Seqs!Last(p))
           U == unlinked(w.v, n)
<1>1. V \in Volume /\ d \in Inos /\ n \in Inos
  BY Parent, LookupPath DEF Good
<1>2. CASE d = 0 \/ n = 0 \/ (isDir(V, n) /\ ~allowDir)
  <2>1. remove(V, p, allowDir).v = V
    BY <1>2 DEF remove, failed
  <2> QED BY <2>1, AfterNow
<1>3. CASE ~(d = 0 \/ n = 0 \/ (isDir(V, n) /\ ~allowDir))
  <2>1. remove(V, p, allowDir).v = IF w.ok THEN U ELSE w.v
    BY <1>3 DEF remove, then, did, failed
  <2>2. d \in Inodes /\ n \in Inodes
    BY <1>1, <1>3 DEF Inos
  <2> HIDE DEF d, n
  <2>3. Good(own, w.v)
    BY <2>2, RemoveDirEntry
  <2> HIDE DEF w
  <2>4. Good(own, U)
    <3>1. PICK e \in Node : e = w.v.node[n] /\ Fits(own, n, e)
      BY <2>2, <2>3 DEF Good, Volume
    <3> DEFINE e2 == decremented(e)
               a2 == IF e2.links = 0 THEN freeInode(w.v.al, n) ELSE w.v.al
    <3>2. e2 \in Node /\ e2.ext = e.ext
      <4>1. PICK m \in Nat : m = 65536
        OBVIOUS
      <4>2. m > 0
        BY <4>1
      <4>3. PICK k \in Int : k = e.links - 1
        BY <3>1 DEF Node
      <4>4. k % m \in Int
        BY <4>2
      <4>5. (e.links - 1) % 65536 \in Int
        BY <4>1, <4>3, <4>4
      <4> QED BY <3>1, <4>5 DEF decremented, Node
    <3>3. Fits(own, n, e2)
      BY <3>1, <3>2 DEF Fits
    <3>4. a2 \in Alloc /\ a2.bmap = w.v.al.bmap
      <4>1. w.v.al \in Alloc
        BY <2>3 DEF Good, Volume
      <4>2. freeInode(w.v.al, n) \in Alloc /\ freeInode(w.v.al, n).bmap = w.v.al.bmap
        BY <2>2, <4>1, FreeInode
      <4> QED BY <4>1, <4>2
    <3>5. U = [w.v EXCEPT !.al = a2, !.node[n] = e2]
      <4>1. U = [w.v EXCEPT !.node[n] = e2, !.al = a2]
        BY <3>1 DEF unlinked
      <4> HIDE DEF e2, a2, U
      <4> QED BY <2>3, <4>1 DEF Good, Volume
    <3> HIDE DEF e2, a2, U
    <3> QED BY <2>2, <2>3, <3>2, <3>3, <3>4, <3>5, PutInode
  <2> HIDE DEF U
  <2> QED BY <2>1, <2>3, <2>4, AfterNow
<1> QED BY <1>2, <1>3

\* symlink: a new inode without blocks, and an entry.
LEMMA SymlinkCall ==
    ASSUME NEW own \in Owners, NEW V, Good(own, V), NEW t \in Dirs, NEW p \in Paths
    PROVE  After(own, symlink(V, t, p).v)
<1> DEFINE d == parent(V, p)
           in == [newInode("lnk", 1) EXCEPT !.size = 1, !.tgt = t]
           r == allocInode(V.al, inodeBlockGroup(d), in.mode = "dir")
           W == [V EXCEPT !.al = r.a, !.node[r.ino] = in]
           x == addDirEntry(W, d, Seqs!Last(p), r.ino)
<1>1. V \in Volume /\ d \in Inos
  BY Parent DEF Good
<1>2. CASE d = 0 \/ ~canAllocInode(V.al)
  <2>1. symlink(V, t, p).v = V
    BY <1>2 DEF symlink, newNode, failed
  <2> QED BY <2>1, AfterNow
<1>3. CASE ~(d = 0 \/ ~canAllocInode(V.al))
  <2>1. symlink(V, t, p).v = x.v
    BY <1>3 DEF symlink, newNode
  <2>2. d \in Inodes
    BY <1>1, <1>3 DEF Inos
  <2>3. in \in Node /\ \A n : Fits(own, n, in)
    <3>1. PICK e \in Node : e = newInode("lnk", 1) /\ \A n : Fits(own, n, e)
      BY NewFits DEF Modes
    <3>2. in = [e EXCEPT !.size = 1, !.tgt = t] /\ 1 \in 0..MaxBlk
      BY <3>1
    <3> HIDE DEF in
    <3>3. in \in Node /\ in.ext = e.ext
      BY <3>1, <3>2 DEF Node
    <3> QED BY <3>1, <3>3 DEF Fits
  <2>4. r.ino \in Inodes /\ Good(own, W)
    <3> HIDE DEF in, d
    <3> QED BY <1>3, <2>2, <2>3, NewInode
  <2>5. r.ino \in Inos /\ Seqs!Last(p) \in Names \cup {".", ".."}
    BY <2>4, PathParts DEF Inos
  <2> HIDE DEF d, in, r, W
  <2> QED BY <2>1, <2>2, <2>4, <2>5, AddDirEntry
<1> QED BY <1>2, <1>3

\* link: an entry, and the inode as it was read before, with one more link.
LEMMA LinkCall ==
    ASSUME NEW own \in Owners, NEW V, Good(own, V), NEW o \in Paths, NEW p \in Paths
    PROVE  After(own, link(V, o, p).v)
<1> DEFINE n == lookupPath(V, o)
           d == parent(V, p)
           x == addDirEntry(V, d, Seqs!Last(p), n)
           X == oneMoreLink(x.v, n, V.node[n])
<1>1. V \in Volume /\ d \in Inos /\ n \in Inos
  BY Parent, LookupPath DEF Good
<1>2. CASE n = 0 \/ isDir(V, n) \/ d = 0
  <2>1. link(V, o, p).v = V
    BY <1>2 DEF link, failed
  <2> QED BY <2>1, AfterNow
<1>3. CASE ~(n = 0 \/ isDir(V, n) \/ d = 0)
  <2>1. link(V, o, p).v = IF x.ok THEN X ELSE x.v
    BY <1>3 DEF link, then, did, failed
  <2>2. d \in Inodes /\ n \in Inodes
    BY <1>1, <1>3 DEF Inos
  <2>3. Seqs!Last(p) \in Names \cup {".", ".."}
    BY PathParts
  <2> HIDE DEF d, n
  <2>4. PICK own1 \in Owners : Extends(own, own1) /\ Good(own1, x.v)
    <3>1. After(own, x.v)
      BY <1>1, <2>2, <2>3, AddDirEntry
    <3> QED BY <3>1 DEF After
  <2> HIDE DEF x
  <2>5. Good(own1, X)
    <3>1. PICK e \in Node : e = V.node[n] /\ Fits(own, n, e)
      BY <1>1, <2>2 DEF Good, Volume
    <3> DEFINE e2 == [e EXCEPT !.links = @ + 1]
    <3>2. e2 \in Node /\ e2.ext = e.ext
      BY <3>1 DEF Node
    <3>3. Fits(own1, n, e2)
      <4>1. Fits(own1, n, e)
        BY <2>2, <2>4, <3>1, StillFits
      <4> QED BY <3>2, <4>1 DEF Fits
    <3>4. X = writeInode(x.v, n, e2)
      BY <3>1 DEF oneMoreLink
    <3> HIDE DEF e2, X
    <3> QED BY <2>2, <2>4, <3>2, <3>3, <3>4, WriteInode
  <2> HIDE DEF X
  <2> QED BY <2>1, <2>4, <2>5 DEF After
<1> QED BY <1>2, <1>3

\* A directory that moves gets a new "..".
LEMMA Reparented ==
    ASSUME NEW own \in Owners, NEW V, Good(own, V), NEW n \in Inodes, NEW d \in Inodes
    PROVE  After(own, reparented(V, n, d))
<1> DEFINE W == removeDirEntry(V, n, "..").v
<1>1. Good(own, W)
  BY RemoveDirEntry
<1> HIDE DEF W
<1>2. d \in Inos
  BY DEF Inos
<1>3. After(own, addDirEntry(W, n, "..", d).v)
  BY <1>1, <1>2, AddDirEntry
<1>4. reparented(V, n, d) = V \/ reparented(V, n, d) = addDirEntry(W, n, "..", d).v
  BY DEF reparented, W
<1> QED BY <1>3, <1>4, AfterNow

\* rename: entries change, and the moved inode is written back as it was read.
LEMMA RenameCall ==
    ASSUME NEW own \in Owners, NEW V, Good(own, V), NEW o \in Paths, NEW p \in Paths
    PROVE  After(own, rename(V, o, p).v)
<1> DEFINE od == parent(V, o)
           nd == parent(V, p)
           n == lookupPath(V, o)
           dest == lookupPath(V, p)
           A == IF dest # 0 THEN removeDirEntry(V, nd, Seqs!Last(p)).v ELSE V
           x == addDirEntry(A, nd, Seqs!Last(p), n)
           y == removeDirEntry(x.v, od, Seqs!Last(o))
           M == IF od # nd /\ V.node[n].mode = "dir" THEN reparented(y.v, n, nd) ELSE y.v
           bad == \/ od = 0 \/ nd = 0 \/ n = 0
                  \/ (dest # 0 /\ isDir(V, dest) /\ Len(readDir(V, V.node[dest])) > 2)
<1>1. V \in Volume /\ od \in Inos /\ nd \in Inos /\ n \in Inos /\ dest \in Inos
  BY Parent, LookupPath DEF Good
<1>2. rename(V, o, p) = IF bad THEN failed(V)
                        ELSE IF x.ok THEN IF y.ok THEN did(writeInode(M, n, V.node[n])) ELSE failed(y.v)
                        ELSE failed(x.v)
  <2>1. rename(V, o, p) =
           IF od = 0 \/ nd = 0 \/ n = 0 THEN failed(V)
           ELSE IF dest # 0 /\ isDir(V, dest) /\ Len(readDir(V, V.node[dest])) > 2 THEN failed(V)
           ELSE IF did(A).ok
                THEN IF addDirEntry(did(A).v, nd, Seqs!Last(p), n).ok
                     THEN IF removeDirEntry(addDirEntry(did(A).v, nd, Seqs!Last(p), n).v, od, Seqs!Last(o)).ok
                          THEN did(writeInode(
                                 IF od # nd /\ V.node[n].mode = "dir"
                                 THEN reparented(removeDirEntry(addDirEntry(did(A).v, nd, Seqs!Last(p), n).v, od, Seqs!Last(o)).v, n, nd)
                                 ELSE removeDirEntry(addDirEntry(did(A).v, nd, Seqs!Last(p), n).v, od, Seqs!Last(o)).v,
                                 n, V.node[n]))
                          ELSE failed(removeDirEntry(addDirEntry(did(A).v, nd, Seqs!Last(p), n).v, od, Seqs!Last(o)).v)
                     ELSE failed(addDirEntry(did(A).v, nd, Seqs!Last(p), n).v)
                ELSE failed(did(A).v)
    BY DEF rename, then
  <2> HIDE DEF od, nd, n, dest, A
  <2>2. did(A).ok = TRUE /\ did(A).v = A
    BY DEF did
  <2> QED BY <2>1, <2>2
<1>3. CASE bad
  <2>1. rename(V, o, p).v = V
    BY <1>2, <1>3 DEF failed
  <2> QED BY <2>1, AfterNow
<1>4. CASE ~bad
  <2>1. rename(V, o, p).v = IF x.ok THEN IF y.ok THEN writeInode(M, n, V.node[n]) ELSE y.v ELSE x.v
    <3> HIDE DEF x, y, M, n, bad
    <3> QED BY <1>2, <1>4 DEF did, failed
  <2>2. od \in Inodes /\ nd \in Inodes /\ n \in Inodes
    BY <1>1, <1>4 DEF Inos
  <2>3. Seqs!Last(p) \in Names \cup {".", ".."}
    BY PathParts
  <2> HIDE DEF od, nd, n, dest, bad
  <2>4. Good(own, A)
    BY <2>2, RemoveDirEntry
  <2> HIDE DEF A
  <2>5. PICK own1 \in Owners : Extends(own, own1) /\ Good(own1, x.v)
    <3>1. After(own, x.v)
      BY <1>1, <2>2, <2>3, <2>4, AddDirEntry
    <3> QED BY <3>1 DEF After
  <2> HIDE DEF x
  <2>6. Good(own1, y.v)
    BY <2>2, <2>5, RemoveDirEntry
  <2> HIDE DEF y
  <2>7. PICK own2 \in Owners : Extends(own1, own2) /\ Good(own2, M)
    <3>1. After(own1, reparented(y.v, n, nd)) /\ After(own1, y.v)
      BY <2>2, <2>6, Reparented, AfterNow
    <3>2. After(own1, M)
      BY <3>1
    <3> QED BY <3>2 DEF After
  <2> HIDE DEF M
  <2>8. Extends(own, own2)
    BY <2>5, <2>7, ExtendsTrans
  <2>9. V.node[n] \in Node /\ Fits(own2, n, V.node[n])
    BY <1>1, <2>2, <2>8, StillFits DEF Good, Volume
  <2>10. Good(own2, writeInode(M, n, V.node[n]))
    BY <2>2, <2>7, <2>9, WriteInode
  <2>11. After(own, x.v) /\ After(own, y.v) /\ After(own, writeInode(M, n, V.node[n]))
    BY <2>5, <2>6, <2>8, <2>10 DEF After
  <2> QED BY <2>1, <2>11
<1> QED BY <1>3, <1>4

\* The paths that mkdirAll makes one after another.
LEMMA Prefix ==
    ASSUME NEW p \in Paths, NEW k \in 1..Len(p)
    PROVE  SubSeq(p, 1, k) \in Paths
<1>1. p \in Seq(Names) /\ Len(p) \in {1, 2}
  BY PathParts
<1>2. PICK m \in Nat : m = Len(p) /\ (m = 1 \/ m = 2)
  BY <1>1
<1>3. k \in 1..m
  BY <1>2
<1>4. (k = 1) \/ (k = 2 /\ m = 2)
  BY <1>2, <1>3
<1>5. CASE k = 1
  <2>1. p[1] \in Names /\ SubSeq(p, 1, 1) = [i \in 1..1 |-> p[i]]
    BY <1>1
  <2>2. [i \in 1..1 |-> p[i]] = <<p[1]>>
    OBVIOUS
  <2>3. SubSeq(p, 1, k) = <<p[1]>>
    BY <1>5, <2>1, <2>2, Zenon
  <2> QED BY <2>1, <2>3 DEF Paths
<1>6. CASE k = 2 /\ m = 2
  <2>1. Len(p) = 2 /\ k = 2
    BY <1>2, <1>6
  <2>2. SubSeq(p, 1, Len(p)) = p
    BY <1>1
  <2> QED BY <2>1, <2>2, Zenon
<1> QED BY <1>4, <1>5, <1>6

\* mkdirAll: one directory after another, as far as it gets.
LEMMA MkdirAllCall ==
    ASSUME NEW own \in Owners, NEW V, Good(own, V), NEW p \in Paths
    PROVE  After(own, mkdirAll(V, p).v)
<1> DEFINE len == Len(p)
           S == Outcomes(own)
           made(W, q) == IF lookupPath(W, q) # 0 THEN did(W) ELSE mkdir(W, q)
           step(k, r) == IF r.ok THEN made(r.v, SubSeq(p, 1, k)) ELSE failed(r.v)
           f == [k \in 1..len |-> [r \in S |-> step(k, r)]]
           Sol(g) == g = [k \in 0..len |-> IF k = 0 THEN did(V) ELSE step(k, g[k - 1])]
           at == CHOOSE g : Sol(g)
<1>0. len \in Nat
  BY PathParts
<1>1. did(V) \in S
  BY AfterNow, Returns
<1>2. ASSUME NEW k \in 1..len, NEW r \in S PROVE step(k, r) \in S
  <2>1. PICK own1 \in Owners : Extends(own, own1) /\ Good(own1, r.v)
    BY DEF Outcomes, After
  <2>2. SubSeq(p, 1, k) \in Paths
    BY Prefix
  <2>3. mkdir(r.v, SubSeq(p, 1, k)) \in Outcomes(own1)
    BY <2>1, <2>2, MkdirCall
  <2>4. mkdir(r.v, SubSeq(p, 1, k)) \in S
    BY <2>1, <2>3, AfterThen DEF Outcomes
  <2>5. did(r.v) \in S /\ failed(r.v) \in S
    BY Returns DEF Outcomes
  <2> QED BY <2>4, <2>5
<1>3. mkdirAll(V, p) = at[len]
  BY DEF mkdirAll, then
<1> HIDE DEF S, step, len
<1>4. \E g : Sol(g)
  <2>1. f \in Steps(len, S)
    BY <1>2 DEF Steps
  <2>2. PICK g \in [0..len -> S] : IsRun(g, len, did(V), f)
    <3> HIDE DEF f
    <3> QED BY <1>0, <1>1, <2>1, Iteration
  <2>3. ASSUME NEW k \in 1..len PROVE g[k] = step(k, g[k - 1])
    <3>1. g[k - 1] \in S
      BY <1>0
    <3> QED BY <2>2, <3>1 DEF IsRun
  <2>4. Sol(g)
    BY <1>0, <2>2, <2>3 DEF IsRun
  <2> QED BY <2>4
<1>5. Sol(at)
  BY <1>4
<1> HIDE DEF at
<1>6. at[0] = did(V) /\ \A k \in 1..len : at[k] = step(k, at[k - 1])
  BY <1>0, <1>5
<1> DEFINE T == {k \in 0..len : at[k] \in S}
<1>7. 0 \in T
  BY <1>0, <1>1, <1>6
<1>8. \A k \in 1..len : k - 1 \in T => k \in T
  BY <1>0, <1>2, <1>6
<1>9. at[len] \in S
  <2> HIDE DEF T
  <2>1. \A k \in 0..len : k \in T
    BY <1>0, <1>7, <1>8, Upward
  <2> QED BY <1>0, <2>1 DEF T
<1> QED BY <1>3, <1>9 DEF S, Outcomes

-----------------------------------------------------------------------------
(***************************************************************************)
(* The invariant of the specification.                                     *)
(***************************************************************************)
Handle == [num : Inodes, in : Node, off : Nat]

\* The copies in open handles, however old, agree with the owners.
HandlesFit(own, hs) ==
    /\ hs \in Seq(Handle)
    /\ \A h \in 1..Len(hs) : Fits(own, hs[h].num, hs[h].in)

Owned == \E own \in Owners : Good(own, v) /\ HandlesFit(own, handles)

\* The invariant says of every inode on the volume what NoSharedBlock asks.
LEMMA OwnedImplies == Owned => NoSharedBlock
<1> SUFFICES ASSUME NEW own \in Owners, Good(own, v) PROVE NoSharedBlock
  BY DEF Owned
<1>1. v \in Volume /\ Marked(own, v.al)
  BY DEF Good
<1>2. ASSUME NEW x \in mapped
      PROVE  LET b == v.node[x[1]].ext[x[2]] IN b \in Blocks /\ b # 0 /\ own[b] = x
  <2>1. x = <<x[1], x[2]>> /\ x[1] \in Inodes /\ x[2] \in Logs /\ v.node[x[1]].ext[x[2]] # Hole
    BY DEF mapped, Logs
  <2>2. v.node[x[1]].ext[x[2]] \in Blocks
    BY <1>1, <2>1 DEF Volume, Node
  <2>3. own[v.node[x[1]].ext[x[2]]] = <<x[1], x[2]>>
    BY <2>1 DEF Good, Fits
  <2> QED BY <2>1, <2>2, <2>3 DEF Hole
<1>3. ASSUME NEW x \in mapped PROVE x # NoOne
  BY DEF mapped, NoOne, Inodes
<1> QED BY <1>1, <1>2, <1>3 DEF NoSharedBlock, Marked

\* The empty file system satisfies it: the root's block is the only one owned.
LEMMA InitOwned == Init => Owned
<1> SUFFICES ASSUME Init PROVE Owned
  OBVIOUS
<1> DEFINE own == [b \in Blocks |-> IF b = RootBlock THEN <<Root, 0>> ELSE NoOne]
           root == [newInode("dir", 2) EXCEPT !.size = 1, !.ext[0] = RootBlock]
<1>0. Root \in Inodes /\ RootBlock \in Blocks /\ 0 \in Blocks /\ 0 \in Logs /\ 0 \in Groups
      /\ RootBlock # 0
  BY RootThere DEF Logs, Groups, RootBlock
<1>1. own \in Owners
  BY <1>0 DEF Owners, Inos, NoOne
<1>2. root \in Node /\ Fits(own, Root, root)
  <2>1. PICK e \in Node : e = newInode("dir", 2) /\ Fits([b \in Blocks |-> NoOne], Root, e)
    BY NewFits DEF Modes
  <2>2. \A l \in Logs : e.ext[l] = Hole
    <3>1. e.ext \in [Logs -> Blocks] /\ Root # 0
      BY DEF Node, Root
    <3>2. \A l \in Logs : <<Root, l>> # NoOne
      BY <3>1 DEF NoOne
    <3> QED BY <2>1, <3>1, <3>2 DEF Fits
  <2>3. root = [e EXCEPT !.size = 1, !.ext[0] = RootBlock] /\ 1 \in 0..MaxBlk
    BY <2>1
  <2> HIDE DEF root
  <2>4. root.ext = [e.ext EXCEPT ![0] = RootBlock] /\ root \in Node
    BY <1>0, <2>3 DEF Node
  <2>5. \A l \in Logs : root.ext[l] = IF l = 0 THEN RootBlock ELSE Hole
    BY <1>0, <2>2, <2>4 DEF Node
  <2> QED BY <1>0, <2>4, <2>5 DEF Fits
<1> HIDE DEF root
<1>3. NoInode \in Node /\ \A n : Fits(own, n, NoInode)
  <2>1. NoExtents \in [Logs -> Blocks] /\ \A l \in Logs : NoExtents[l] = Hole
    BY <1>0 DEF NoExtents, Logs, Hole
  <2>2. <<>> \in Dirs /\ 0 \in 0..MaxBlk
    BY DEF Dirs
  <2> QED BY <2>1, <2>2 DEF NoInode, Node, Modes, Fits
<1> HIDE DEF own
<1>4. v.node \in [Inodes -> Node] /\ \A n \in Inodes : Fits(own, n, v.node[n])
  <2>1. v.node = [n \in Inodes |-> IF n = Root THEN root ELSE NoInode]
    BY DEF Init, root
  <2> QED BY <1>2, <1>3, <2>1
<1>5. v.blk \in [Blocks -> [1..DirCap -> Entry]]
  <2>1. EmptyBlock \in [1..DirCap -> Entry]
    BY DEF EmptyBlock, Free, Entry, Inos
  <2>2. entry(".", Root) \in Entry /\ entry("..", Root) \in Entry
    BY <1>0 DEF entry, Entry, Inos
  <2>3. [EmptyBlock EXCEPT ![1] = entry(".", Root), ![2] = entry("..", Root)] \in [1..DirCap -> Entry]
    BY <2>1, <2>2
  <2>4. v.blk = [b \in Blocks |->
                   IF b = RootBlock
                   THEN [EmptyBlock EXCEPT ![1] = entry(".", Root), ![2] = entry("..", Root)]
                   ELSE EmptyBlock]
    BY DEF Init
  <2> QED BY <2>1, <2>3, <2>4
<1>6. v.al \in Alloc
  <2>1. {0, RootBlock} \subseteq BlockBits /\ {0, 1} \subseteq InodeBits
    BY DEF BlockBits, InodeBits, RootBlock
  <2>2. NumGroups * BlocksPerGroup \in Int /\ NumGroups * InodesPerGroup \in Int
    OBVIOUS
  <2>3. /\ v.al.bmap \in [Groups -> SUBSET BlockBits] /\ v.al.gfree \in [Groups -> Int]
        /\ v.al.imap \in [Groups -> SUBSET InodeBits] /\ v.al.gifree \in [Groups -> Int]
        /\ v.al.dirs \in [Groups -> Int] /\ v.al.sfree \in Int /\ v.al.sifree \in Int
    <3>1. v.al.bmap = [g \in Groups |-> IF g = 0 THEN {0, RootBlock} ELSE {}]
      BY DEF Init
    <3>2. v.al.imap = [g \in Groups |-> IF g = 0 THEN {0, 1} ELSE {}]
      BY DEF Init
    <3>3. v.al.gfree = [g \in Groups |-> BlocksPerGroup - (IF g = 0 THEN 2 ELSE 0)]
      BY DEF Init
    <3>4. v.al.gifree = [g \in Groups |-> InodesPerGroup - (IF g = 0 THEN 2 ELSE 0)]
      BY DEF Init
    <3>5. v.al.dirs = [g \in Groups |-> IF g = 0 THEN 1 ELSE 0]
      BY DEF Init
    <3>6. v.al.sfree \in Int /\ v.al.sifree \in Int
      BY <2>2 DEF Init
    <3>7. v.al.bmap \in [Groups -> SUBSET BlockBits] /\ v.al.imap \in [Groups -> SUBSET InodeBits]
      BY <2>1, <3>1, <3>2
    <3>8. v.al.gfree \in [Groups -> Int] /\ v.al.gifree \in [Groups -> Int] /\ v.al.dirs \in [Groups -> Int]
      BY <3>3, <3>4, <3>5
    <3> QED BY <3>6, <3>7, <3>8
  <2> QED BY <2>3 DEF Init, Alloc
<1>7. v \in Volume
  BY <1>4, <1>5, <1>6 DEF Init, Volume
<1>8. Marked(own, v.al)
  <2>1. blockUsed(v.al, RootBlock)
    <3>1. RootBlock \div BlocksPerGroup = 0 /\ RootBlock % BlocksPerGroup = RootBlock
      BY DEF RootBlock
    <3>2. v.al.bmap[0] = {0, RootBlock}
      BY <1>0 DEF Init
    <3> QED BY <3>1, <3>2 DEF blockUsed
  <2> QED BY <2>1 DEF Marked, own
<1>9. Good(own, v)
  BY <1>4, <1>7, <1>8 DEF Good
<1>10. HandlesFit(own, handles)
  BY DEF Init, HandlesFit
<1> QED BY <1>1, <1>9, <1>10 DEF Owned

\* Handles keep agreeing while owners are added.
LEMMA HandlesStillFit ==
    ASSUME NEW own, NEW own2, Extends(own, own2), NEW hs, HandlesFit(own, hs)
    PROVE  HandlesFit(own2, hs)
<1>1. \A h \in 1..Len(hs) : hs[h] \in Handle
  BY DEF HandlesFit
<1> QED BY <1>1, StillFits DEF HandlesFit, Handle

\* A call by path that leaves the handles alone.
LEMMA CallKeeps ==
    ASSUME NEW own \in Owners, Good(own, v), HandlesFit(own, handles),
           After(own, v'), handles' = handles
    PROVE  Owned'
<1>1. PICK own2 \in Owners : Extends(own, own2) /\ Good(own2, v')
  BY DEF After
<1>2. HandlesFit(own2, handles')
  BY <1>1, HandlesStillFit
<1> QED BY <1>1, <1>2 DEF Owned

\* A handle is opened on a copy of the inode, cut or not.
LEMMA OpensKeeps ==
    ASSUME NEW own \in Owners, NEW V, Good(own, V), HandlesFit(own, handles),
           NEW n \in Inos, NEW call, NEW p, NEW cut, NEW atEnd, opens(call, p, V, n, cut, atEnd)
    PROVE  Owned'
<1> DEFINE in == IF cut THEN [V.node[n] EXCEPT !.size = 0] ELSE V.node[n]
           new == [num |-> n, in |-> in, off |-> IF atEnd THEN in.size ELSE 0]
<1>1. CASE n = 0
  <2>1. v' = V /\ handles' = handles
    BY <1>1 DEF opens
  <2> QED BY <2>1 DEF Owned
<1>2. CASE n # 0
  <2>1. handles' = Append(handles, new) /\ v' = writeInode(V, n, in)
    BY <1>2 DEF opens, returns, returned, did
  <2>2. n \in Inodes
    BY <1>2 DEF Inos
  <2>3. in \in Node /\ Fits(own, n, in) /\ in.size \in Nat
    <3>1. PICK e \in Node : e = V.node[n] /\ Fits(own, n, e)
      BY <2>2 DEF Good, Volume
    <3>2. in \in Node /\ in.ext = e.ext
      BY <3>1 DEF Node
    <3> HIDE DEF in
    <3> QED BY <3>1, <3>2 DEF Fits, Node
  <2> HIDE DEF in
  <2>4. Good(own, v')
    BY <2>1, <2>2, <2>3, WriteInode
  <2>5. new \in Handle /\ new.num = n /\ new.in = in
    BY <2>2, <2>3 DEF Handle
  <2> HIDE DEF new
  <2>6. handles \in Seq(Handle) /\ \A h \in 1..Len(handles) : Fits(own, handles[h].num, handles[h].in)
    BY DEF HandlesFit
  <2>7. handles' \in Seq(Handle) /\ Len(handles') = Len(handles) + 1
    BY <2>1, <2>5, <2>6
  <2>8. \A h \in 1..Len(handles') : handles'[h] = IF h = Len(handles) + 1 THEN new ELSE handles[h]
    BY <2>1, <2>5, <2>6
  <2>9. \A h \in 1..Len(handles') : Fits(own, handles'[h].num, handles'[h].in)
    BY <2>3, <2>5, <2>6, <2>7, <2>8
  <2> QED BY <2>4, <2>7, <2>9 DEF Owned, HandlesFit
<1> QED BY <1>1, <1>2

\* ext4File.Write: blocks are handed out for the handle's copy, and the volume
\* gets that copy, whatever it held for the inode.
LEMMA WriteKeeps ==
    ASSUME Owned, NEW h \in 1..Len(handles), NEW n \in 1..2, Write(h, n)
    PROVE  Owned'
<1> DEFINE f == handles[h]
           w == writeFileRange(v, f.num, f.in, f.off, n)
           marks == w.v.behind \cup IF w.v.node[f.num].links # v.node[f.num].links THEN {f.num} ELSE {}
           new == [num |-> f.num, in |-> w.v.node[f.num], off |-> f.off + w.done]
<1>1. PICK own \in Owners : Good(own, v) /\ HandlesFit(own, handles)
  BY DEF Owned
<1>2. handles \in Seq(Handle) /\ f \in Handle /\ Fits(own, f.num, f.in)
  BY <1>1 DEF HandlesFit
<1>3. f.num \in Inodes /\ f.in \in Node /\ f.off \in Nat
  BY <1>2 DEF Handle
<1>4. f.off + n <= MaxBlk /\ v' = [w.v EXCEPT !.behind = marks] /\ handles' = [handles EXCEPT ![h] = new]
  BY DEF Write
<1> HIDE DEF f
<1>5. w \in Writing(own, f.num)
  BY <1>1, <1>2, <1>3, <1>4, WriteFileRange
<1> HIDE DEF w
<1>6. w.v \in Volume /\ w.done \in Nat
  BY <1>5 DEF Writing
<1>7. PICK own2 \in Owners : Extends(own, own2) /\ Good(own2, w.v)
  BY <1>5 DEF Writing
<1>8. Good(own2, v')
  <2>1. marks \in SUBSET Inodes
    BY <1>3, <1>6 DEF Volume
  <2> HIDE DEF marks
  <2>2. v' \in Volume /\ v'.al = w.v.al /\ v'.node = w.v.node
    BY <1>4, <1>6, <2>1 DEF Volume
  <2> QED BY <1>7, <2>2, OtherFields
<1>9. new \in Handle /\ Fits(own2, new.num, new.in)
  <2>1. w.v.node[f.num] \in Node /\ Fits(own2, f.num, w.v.node[f.num])
    BY <1>3, <1>6, <1>7 DEF Good, Volume
  <2> QED BY <1>3, <1>6, <2>1 DEF Handle
<1>10. HandlesFit(own2, handles)
  BY <1>1, <1>7, HandlesStillFit
<1> HIDE DEF new
<1>11. HandlesFit(own2, handles')
  <2>1. handles' \in Seq(Handle) /\ Len(handles') = Len(handles)
    BY <1>2, <1>4, <1>9
  <2>2. \A k \in 1..Len(handles) : handles'[k] = IF k = h THEN new ELSE handles[k]
    BY <1>2, <1>4
  <2> QED BY <1>9, <1>10, <2>1, <2>2 DEF HandlesFit
<1> QED BY <1>8, <1>11 DEF Owned

\* Create opens the file it made, or cuts the one that is there.
LEMMA CreateKeeps ==
    ASSUME Owned, NEW p \in Paths, Create(p)
    PROVE  Owned'
<1> DEFINE c == createFile(v, p, 0)
           n == lookupPath(c.v, p)
<1>1. PICK own \in Owners : Good(own, v) /\ HandlesFit(own, handles)
  BY DEF Owned
<1>2. After(own, c.v)
  BY <1>1, CreateFile
<1>3. \/ n = 0 /\ v' = c.v /\ handles' = handles
      \/ n # 0 /\ opens("Create", p, c.v, n, ~c.ok, FALSE)
  BY DEF Create, returns, returned, quiet, failed
<1>4. n \in Inos
  BY <1>2, LookupPath DEF After, Good
<1> HIDE DEF c, n
<1>5. CASE n = 0 /\ v' = c.v /\ handles' = handles
  BY <1>1, <1>2, <1>5, CallKeeps
<1>6. CASE n # 0 /\ opens("Create", p, c.v, n, ~c.ok, FALSE)
  <2>1. PICK own2 \in Owners : Extends(own, own2) /\ Good(own2, c.v)
    BY <1>2 DEF After
  <2>2. HandlesFit(own2, handles)
    BY <1>1, <2>1, HandlesStillFit
  <2> QED BY <1>4, <1>6, <2>1, <2>2, OpensKeeps
<1> QED BY <1>3, <1>5, <1>6

\* OpenFile opens what is there, or what it made.
LEMMA OpenFileKeeps ==
    ASSUME Owned, NEW p \in Paths, NEW create, NEW trunc, NEW excl, NEW append,
           OpenFile(p, create, trunc, excl, append)
    PROVE  Owned'
<1> DEFINE n == lookupPath(v, p)
           c == createFile(v, p, 0)
           m == lookupPath(c.v, p)
<1>1. PICK own \in Owners : Good(own, v) /\ HandlesFit(own, handles)
  BY DEF Owned
<1>2. After(own, c.v)
  BY <1>1, CreateFile
<1>3. n \in Inos /\ m \in Inos
  BY <1>1, <1>2, LookupPath DEF After, Good
<1>4. \/ opens("OpenFile", p, v, n, trunc, append)
      \/ opens("OpenFile", p, c.v, m, trunc, append)
      \/ (v' = c.v \/ v' = v) /\ handles' = handles
  <2>1. \/ n # 0 /\ ~excl /\ opens("OpenFile", p, v, n, trunc, append)
        \/ n = 0 /\ create /\ c.ok /\ opens("OpenFile", p, c.v, m, trunc, append)
        \/ /\ IF n = 0 THEN ~create \/ ~c.ok ELSE excl
           /\ returns("OpenFile", p, failed(IF n = 0 /\ create THEN c.v ELSE v), {target(v, p)})
           /\ quiet
    BY DEF OpenFile
  <2> HIDE DEF n, c, m
  <2> QED BY <2>1 DEF returns, returned, quiet, failed
<1> HIDE DEF n, c, m
<1>5. CASE opens("OpenFile", p, v, n, trunc, append)
  BY <1>1, <1>3, <1>5, OpensKeeps
<1>6. CASE opens("OpenFile", p, c.v, m, trunc, append)
  <2>1. PICK own2 \in Owners : Extends(own, own2) /\ Good(own2, c.v)
    BY <1>2 DEF After
  <2>2. HandlesFit(own2, handles)
    BY <1>1, <2>1, HandlesStillFit
  <2> QED BY <1>3, <1>6, <2>1, <2>2, OpensKeeps
<1>7. CASE (v' = c.v \/ v' = v) /\ handles' = handles
  BY <1>1, <1>2, <1>7, AfterNow, CallKeeps
<1> QED BY <1>4, <1>5, <1>6, <1>7

\* Every call by path keeps the invariant.
LEMMA PathCallsKeep ==
    ASSUME Owned, NEW p \in Paths,
           \/ \E n \in 0..1 : WriteFile(p, n)
           \/ Mkdir(p) \/ MkdirAll(p) \/ Remove(p) \/ RemoveAll(p)
           \/ \E t \in Dirs : Symlink(t, p)
           \/ \E q \in Paths : Rename(q, p) \/ Link(q, p)
           \/ Chmod(p, 1)
    PROVE  Owned'
<1>0. PICK own \in Owners : Good(own, v) /\ HandlesFit(own, handles)
  BY DEF Owned
<1> USE <1>0 DEF returns, returned, quiet
<1>1. SUFFICES After(own, v') /\ handles' = handles
  BY CallKeeps
<1>2. ASSUME NEW n \in 0..1, WriteFile(p, n) PROVE After(own, v') /\ handles' = handles
  BY <1>2, WriteFileCall DEF WriteFile
<1>3. ASSUME Mkdir(p) PROVE After(own, v') /\ handles' = handles
  BY <1>3, MkdirCall DEF Mkdir, Outcomes
<1>4. ASSUME MkdirAll(p) PROVE After(own, v') /\ handles' = handles
  BY <1>4, MkdirAllCall DEF MkdirAll
<1>5. ASSUME Remove(p) PROVE After(own, v') /\ handles' = handles
  BY <1>5, RemoveCall DEF Remove
<1>6. ASSUME RemoveAll(p) PROVE After(own, v') /\ handles' = handles
  <2>1. handles' = handles /\ (v' = v \/ v' = did(v).v \/ v' = remove(v, p, TRUE).v)
    BY <1>6 DEF RemoveAll
  <2>2. did(v).v = v
    BY DEF did
  <2> QED BY <2>1, <2>2, RemoveCall, AfterNow
<1>7. ASSUME NEW t \in Dirs, Symlink(t, p) PROVE After(own, v') /\ handles' = handles
  BY <1>7, SymlinkCall DEF Symlink
<1>8. ASSUME NEW q \in Paths, Rename(q, p) PROVE After(own, v') /\ handles' = handles
  BY <1>8, RenameCall DEF Rename
<1>9. ASSUME NEW q \in Paths, Link(q, p) PROVE After(own, v') /\ handles' = handles
  BY <1>9, LinkCall DEF Link
<1>10. ASSUME Chmod(p, 1) PROVE After(own, v') /\ handles' = handles
  <2> DEFINE n == lookupPathFollow(v, p)
  <2>1. v \in Volume /\ n \in Inos
    BY LookupPathFollow DEF Good
  <2>2. handles' = handles /\ v' = IF n = 0 THEN v ELSE [v EXCEPT !.node[n].perm = 1]
    BY <1>10 DEF Chmod, did, failed
  <2> HIDE DEF n
  <2>3. CASE n = 0
    BY <2>2, <2>3, AfterNow
  <2>4. CASE n # 0
    <3>1. n \in Inodes
      BY <2>1, <2>4 DEF Inos
    <3>2. PICK e \in Node : e = v.node[n] /\ Fits(own, n, e)
      BY <2>1, <3>1 DEF Good, Volume
    <3> DEFINE e2 == [e EXCEPT !.perm = 1]
    <3>3. e2 \in Node /\ e2.ext = e.ext
      BY <3>2 DEF Node
    <3>4. Fits(own, n, e2)
      BY <3>2, <3>3 DEF Fits
    <3>5. v' = writeInode(v, n, e2)
      BY <2>2, <2>4, <3>2 DEF writeInode
    <3> HIDE DEF e2
    <3> QED BY <2>2, <3>1, <3>3, <3>4, <3>5, WriteInode, AfterNow
  <2> QED BY <2>3, <2>4
<1> QED BY <1>2, <1>3, <1>4, <1>5, <1>6, <1>7, <1>8, <1>9, <1>10

\* Every step keeps the invariant.
LEMMA NextOwned == Owned /\ [Next]_vars => Owned'
<1> SUFFICES ASSUME Owned, [Next]_vars PROVE Owned'
  OBVIOUS
<1>1. ASSUME UNCHANGED vars PROVE Owned'
  BY <1>1 DEF vars, Owned
<1>2. ASSUME NEW p \in Paths,
             \/ \E n \in 0..1 : WriteFile(p, n)
             \/ Mkdir(p) \/ MkdirAll(p) \/ Remove(p) \/ RemoveAll(p) \/ Create(p)
             \/ \E t \in Dirs : Symlink(t, p)
             \/ \E q \in Paths : Rename(q, p) \/ Link(q, p)
             \/ Chmod(p, 1)
             \/ \E create, trunc, excl, append \in BOOLEAN : OpenFile(p, create, trunc, excl, append)
      PROVE  Owned'
  BY <1>2, PathCallsKeep, CreateKeeps, OpenFileKeeps
<1>3. ASSUME NEW h \in 1..Len(handles), NEW n \in 1..2, Write(h, n) PROVE Owned'
  BY <1>3, WriteKeeps
<1>4. ASSUME NEW h \in 1..Len(handles), NEW off \in 0..(MaxBlk - 1), Seek(h, off) PROVE Owned'
  <2>1. PICK own \in Owners : Good(own, v) /\ HandlesFit(own, handles)
    BY DEF Owned
  <2>2. v' = v /\ handles' = [handles EXCEPT ![h].off = off] /\ off \in Nat
    BY <1>4 DEF Seek
  <2>3. handles \in Seq(Handle) /\ handles[h] \in Handle
    BY <2>1 DEF HandlesFit
  <2> DEFINE new == [handles[h] EXCEPT !.off = off]
  <2>4. new \in Handle /\ new.num = handles[h].num /\ new.in = handles[h].in
    BY <2>2, <2>3 DEF Handle
  <2>5. handles' = [handles EXCEPT ![h] = new]
    BY <2>2
  <2> HIDE DEF new
  <2>6. handles' \in Seq(Handle) /\ Len(handles') = Len(handles)
        /\ \A k \in 1..Len(handles) : handles'[k] = IF k = h THEN new ELSE handles[k]
    BY <2>3, <2>4, <2>5
  <2>7. HandlesFit(own, handles')
    BY <2>1, <2>4, <2>6 DEF HandlesFit
  <2> QED BY <2>1, <2>2, <2>7 DEF Owned
<1>5. ASSUME Finished PROVE Owned'
  BY <1>1, <1>5 DEF Finished
<1> QED BY <1>1, <1>2, <1>3, <1>4, <1>5 DEF Next

\* No block belongs to two files, or twice to one, and every mapped block is marked
\* in the bitmap: through WriteFile, Mkdir, MkdirAll, Remove, RemoveAll, Rename,
\* Symlink, Link, Chmod, Create, OpenFile and the Write of any number of handles
\* with old copies of their inodes, with every call stopped half way where the
\* disk is full, for a disk and directories of any size (ext4/write.go).
THEOREM NoSharedBlockCorrect == Spec => []NoSharedBlock
<1>1. Spec => []Owned
  BY InitOwned, NextOwned, PTL DEF Spec
<1> QED BY <1>1, OwnedImplies, PTL
=============================================================================
