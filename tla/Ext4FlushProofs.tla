-------------------------- MODULE Ext4FlushProofs --------------------------
(***************************************************************************)
(* The ext4 write-back cache implements WriteBack, for any layout of       *)
(* blocks, any number of inodes and any number of updates: the three       *)
(* places an update can be in (dirtyInodes, dirty, the file) always add up *)
(* to everything the user wrote, and Unmount reports success only when all *)
(* of it is in the file.                                                   *)
(*                                                                         *)
(* The theorem assumes that a volume whose Unmount failed is not written   *)
(* to before Unmount is called again.  Without that it is false of the     *)
(* code: flushInode has by then moved inodes to v.dirty, where             *)
(* readRawInode does not look.                                             *)
(***************************************************************************)
EXTENDS Ext4Flush, WellFoundedInduction, TLAPS

USE FlushAssumption

-----------------------------------------------------------------------------
(***************************************************************************)
(* The inductive invariant.                                                *)
(***************************************************************************)

Contents == SUBSET Updates

blockOK(b) == dirty[b] = NoBlock(b) \/ dirty[b] \in [cellsOf(b) -> Contents]

TypeInv ==
    /\ disk \in [Cells -> Contents]
    /\ dirty = [b \in Blocks |-> dirty[b]]
    /\ \A b \in Blocks : blockOK(b)
    /\ dirtyInodes \in [InodeCells -> Contents \cup {Clean}]
    /\ todo \subseteq Blocks
    /\ pc \in {"idle", "stage", "write"}
    /\ count \in 0..MaxUpdates
    /\ result \in {"none", "ok", "error"}

\* While flush writes, its list is exactly the dirty blocks, and every inode
\* is in its table block.
ListComplete ==
    pc = "write" => /\ todo = {b \in Blocks : isDirty(b)}
                    /\ \A n \in InodeCells : dirtyInodes[n] = Clean

\* Only a failed Unmount leaves the table block in v.dirty, past which
\* readRawInode reads.
TableClean == (pc = "idle" /\ result # "error") => ~isDirty(TableBlock)

FlushInv == TypeInv /\ ListComplete /\ TableClean

-----------------------------------------------------------------------------
(***************************************************************************)
(* Facts about the layout.                                                 *)
(***************************************************************************)

\* The cells of different blocks are different; an inode is not a block.
LEMMA CellFacts ==
    /\ TableBlock \in Blocks /\ TableBlock \notin BlockCells
    /\ cellsOf(TableBlock) = InodeCells
    /\ \A b \in BlockCells : b \in Blocks /\ cellsOf(b) = {b} /\ b \notin InodeCells
    /\ \A b \in Blocks : b = TableBlock \/ b \in BlockCells
    /\ \A b \in Blocks : cellsOf(b) \subseteq Cells
BY DEF Blocks, BlockCells, Cells, cellsOf

\* The mark of an absent entry is not the contents of one: a map of the Go
\* program tells an absent key from an empty value.
LEMMA CleanIsNoContents == Clean \notin Contents
BY DEF Clean, Contents, Updates

\* A block that holds contents in one of its cells is in v.dirty.
LEMMA HoldsContents ==
    ASSUME NEW b \in Blocks, NEW c \in cellsOf(b), NEW f \in [cellsOf(b) -> Contents]
    PROVE  f # NoBlock(b)
BY CleanIsNoContents DEF NoBlock

\* A non-empty list has a least key: the loop over the sorted keys always
\* has a next block, which is one of the list.
LEMMA NextKey ==
    ASSUME todo \subseteq Blocks, todo # {}
    PROVE  nextKey \in todo
<1> DEFINE R == OpToRel(<, Nat)
<1>1. todo \subseteq Nat
  OBVIOUS
<1>2. \E x \in todo : \A y \in todo : ~(<<y, x>> \in R)
  <2>1. IsWellFoundedOn(R, Nat)
    BY NatLessThanWellFounded
  <2> HIDE DEF R
  <2> QED BY <1>1, <2>1, WFMin
<1>3. \A x, y \in todo : ~(<<y, x>> \in R) => x <= y
  BY <1>1 DEF OpToRel
<1>4. \E x \in todo : \A y \in todo : x <= y
  BY <1>2, <1>3
<1> QED
  BY <1>4 DEF nextKey

\* What readBlock returns is contents, never the mark.
LEMMA ReadBlockType ==
    ASSUME TypeInv, NEW b \in Blocks
    PROVE  readBlock(b) \in [cellsOf(b) -> Contents]
BY CellFacts DEF TypeInv, blockOK, readBlock, isDirty

\* So is the newest version of a cell.
LEMMA LatestType ==
    ASSUME TypeInv
    PROVE  /\ \A n \in InodeCells : dirtyInodes[n] # Clean => dirtyInodes[n] \in Contents
           /\ \A c \in Cells : latest(c) \in Contents
<1>1. \A n \in InodeCells : dirtyInodes[n] # Clean => dirtyInodes[n] \in Contents
  BY DEF TypeInv
<1>2. ASSUME NEW c \in Cells PROVE latest(c) \in Contents
  <2>1. CASE c \in InodeCells
    <3>1. readBlock(TableBlock)[c] \in Contents
      BY <2>1, ReadBlockType, CellFacts
    <3> QED BY <1>1, <2>1, <3>1 DEF latest
  <2>2. CASE c \notin InodeCells
    <3>1. c \in BlockCells
      BY <2>2 DEF Cells
    <3>2. readBlock(c)[c] \in Contents
      BY <3>1, ReadBlockType, CellFacts
    <3> QED BY <2>2, <3>2 DEF latest
  <2> QED BY <2>1, <2>2
<1> QED BY <1>1, <1>2

-----------------------------------------------------------------------------
(***************************************************************************)
(* Every action preserves the invariant.                                   *)
(***************************************************************************)

\* A volume that has just been mounted.
LEMMA InitInv == Init => FlushInv
BY CellFacts DEF Init, FlushInv, TypeInv, blockOK, Contents, ListComplete, TableClean, isDirty

\* writeBlock marks one block and leaves the others alone.
LEMMA UpdateBlockInv ==
    ASSUME FlushInv, NEW b \in BlockCells, UpdateBlock(b)
    PROVE  FlushInv'
<1> DEFINE new == [c \in cellsOf(b) |-> readBlock(b)[c] \cup {count + 1}]
<1>1. b \in Blocks /\ b # TableBlock
  BY CellFacts
<1>2. count + 1 \in Updates /\ count + 1 \in 0..MaxUpdates
  BY DEF FlushInv, TypeInv, UpdateBlock, usable, Updates
<1>3. readBlock(b) \in [cellsOf(b) -> Contents]
  BY <1>1, ReadBlockType DEF FlushInv
<1>4. new \in [cellsOf(b) -> Contents]
  BY <1>2, <1>3 DEF Contents
<1>5. dirty' = [dirty EXCEPT ![b] = new]
  BY DEF UpdateBlock
<1> HIDE DEF new
<1>6. \A d \in Blocks : dirty'[d] = IF d = b THEN new ELSE dirty[d]
  BY <1>5 DEF FlushInv, TypeInv
<1>7. TypeInv'
  <2>1. dirty' = [d \in Blocks |-> dirty'[d]]
    BY <1>5 DEF FlushInv, TypeInv
  <2>2. (\A d \in Blocks : blockOK(d))'
    BY <1>4, <1>6 DEF FlushInv, TypeInv, blockOK
  <2> QED BY <1>2, <2>1, <2>2 DEF FlushInv, TypeInv, UpdateBlock
<1>8. ListComplete'
  BY DEF UpdateBlock, usable, ListComplete
<1>9. TableClean'
  BY <1>1, <1>6, CellFacts DEF UpdateBlock, usable, TableClean, isDirty, FlushInv
<1> QED BY <1>7, <1>8, <1>9 DEF FlushInv

\* writeRawInode marks one inode.
LEMMA UpdateInodeInv ==
    ASSUME FlushInv, NEW n \in InodeCells, UpdateInode(n)
    PROVE  FlushInv'
<1>1. count + 1 \in Updates /\ count + 1 \in 0..MaxUpdates
  BY DEF FlushInv, TypeInv, UpdateInode, usable, Updates
<1>2. readRawInode(n) \in Contents
  BY LatestType DEF FlushInv, TypeInv, readRawInode, Cells
<1>3. readRawInode(n) \cup {count + 1} \in Contents
  BY <1>1, <1>2 DEF Contents
<1>4. TypeInv'
  BY <1>1, <1>3 DEF FlushInv, TypeInv, UpdateInode, blockOK
<1>5. ListComplete'
  BY DEF UpdateInode, usable, ListComplete
<1>6. TableClean'
  BY DEF UpdateInode, usable, TableClean, isDirty, FlushInv
<1> QED BY <1>4, <1>5, <1>6 DEF FlushInv

\* flushInode's loop: the table block now holds contents in every cell.
LEMMA StagedTableType ==
    ASSUME TypeInv
    PROVE  stagedTable \in [InodeCells -> Contents]
<1>1. \A n \in InodeCells : readBlock(TableBlock)[n] \in Contents
  BY ReadBlockType, CellFacts
<1> QED BY <1>1, LatestType DEF stagedTable

\* After the loop over dirtyInodes, the list of keys is the set of dirty
\* blocks and no inode is outside its block.
LEMMA StageInodesInv ==
    ASSUME FlushInv, StageInodes
    PROVE  FlushInv'
<1>1. stagedTable \in [cellsOf(TableBlock) -> Contents]
  BY StagedTableType, CellFacts DEF FlushInv
<1>2. \A d \in Blocks : dirty'[d] = IF d = TableBlock /\ anyDirtyInode THEN stagedTable ELSE dirty[d]
  BY DEF FlushInv, TypeInv, StageInodes
<1>3. dirty' = [d \in Blocks |-> dirty'[d]]
  BY DEF FlushInv, TypeInv, StageInodes
<1>4. (\A d \in Blocks : blockOK(d))'
  BY <1>1, <1>2 DEF FlushInv, TypeInv, blockOK
<1>5. TypeInv'
  BY <1>3, <1>4 DEF FlushInv, TypeInv, StageInodes
<1>6. ListComplete'
  BY DEF StageInodes, ListComplete, isDirty
<1>7. TableClean'
  BY DEF StageInodes, TableClean
<1> QED BY <1>5, <1>6, <1>7 DEF FlushInv

\* A block leaves the list and v.dirty together.
LEMMA WriteNextInv ==
    ASSUME FlushInv, WriteNext
    PROVE  FlushInv'
<1>1. nextKey \in todo /\ nextKey \in Blocks
  BY NextKey DEF FlushInv, TypeInv, WriteNext
<1>2. isDirty(nextKey)
  BY <1>1 DEF FlushInv, ListComplete, WriteNext
<1>3. dirty[nextKey] \in [cellsOf(nextKey) -> Contents]
  BY <1>1, <1>2 DEF FlushInv, TypeInv, blockOK, isDirty
<1>4. disk' \in [Cells -> Contents]
  BY <1>3 DEF FlushInv, TypeInv, WriteNext
<1>5. \A d \in Blocks : dirty'[d] = IF d = nextKey THEN NoBlock(d) ELSE dirty[d]
  BY DEF FlushInv, TypeInv, WriteNext
<1>6. dirty' = [d \in Blocks |-> dirty'[d]]
  BY DEF FlushInv, TypeInv, WriteNext
<1>7. (\A d \in Blocks : blockOK(d))'
  BY <1>5 DEF FlushInv, TypeInv, blockOK
<1>8. TypeInv'
  BY <1>4, <1>6, <1>7 DEF FlushInv, TypeInv, WriteNext
<1>9. ListComplete'
  <2>1. todo' = {d \in Blocks : dirty'[d] # NoBlock(d)}
    BY <1>1, <1>5 DEF FlushInv, ListComplete, isDirty, WriteNext
  <2> QED BY <2>1 DEF FlushInv, ListComplete, isDirty, WriteNext
<1>10. TableClean'
  BY DEF WriteNext, TableClean
<1> QED BY <1>8, <1>9, <1>10 DEF FlushInv

\* A failed write changes nothing but the file.
LEMMA WriteFailsInv ==
    ASSUME FlushInv, WriteFails
    PROVE  FlushInv'
<1>1. nextKey \in todo /\ nextKey \in Blocks
  BY NextKey DEF FlushInv, TypeInv, WriteFails
<1>2. isDirty(nextKey)
  BY <1>1 DEF FlushInv, ListComplete, WriteFails
<1>3. dirty[nextKey] \in [cellsOf(nextKey) -> Contents]
  BY <1>1, <1>2 DEF FlushInv, TypeInv, blockOK, isDirty
<1>4. disk' \in [Cells -> Contents]
  BY <1>3 DEF FlushInv, TypeInv, WriteFails
<1>5. TypeInv'
  BY <1>4 DEF FlushInv, TypeInv, blockOK, WriteFails
<1> QED BY <1>5 DEF FlushInv, WriteFails, ListComplete, TableClean

\* Flush's end: an empty list means that no block is dirty.
LEMMA FlushedInv ==
    ASSUME FlushInv, Flushed
    PROVE  FlushInv'
<1>1. TypeInv'
  BY DEF FlushInv, TypeInv, blockOK, Flushed
<1>2. \A b \in Blocks : ~isDirty(b)
  BY DEF FlushInv, ListComplete, Flushed
<1> QED BY <1>1, <1>2, CellFacts DEF FlushInv, Flushed, ListComplete, TableClean, isDirty

\* The invariant is inductive.
LEMMA NextInv == FlushInv /\ [Next]_vars => FlushInv'
<1> SUFFICES ASSUME FlushInv, [Next]_vars PROVE FlushInv'
  OBVIOUS
<1>1. ASSUME NEW b \in BlockCells, UpdateBlock(b) PROVE FlushInv'
  BY <1>1, UpdateBlockInv
<1>2. ASSUME NEW n \in InodeCells, UpdateInode(n) PROVE FlushInv'
  BY <1>2, UpdateInodeInv
<1>3. CASE Unmount
  BY <1>3 DEF FlushInv, TypeInv, blockOK, ListComplete, TableClean, Unmount
<1>4. CASE StageInodes
  BY <1>4, StageInodesInv
<1>5. CASE StageFails
  BY <1>5 DEF FlushInv, TypeInv, blockOK, ListComplete, TableClean, StageFails
<1>6. CASE WriteNext
  BY <1>6, WriteNextInv
<1>7. CASE WriteFails
  BY <1>7, WriteFailsInv
<1>8. CASE Flushed
  BY <1>8, FlushedInv
<1>9. CASE Crash
  BY <1>9, CellFacts DEF FlushInv, TypeInv, blockOK, ListComplete, TableClean, isDirty, Crash
<1>10. CASE UNCHANGED vars
  BY <1>10 DEF vars, FlushInv, TypeInv, blockOK, ListComplete, TableClean, isDirty
<1> QED
  BY <1>1, <1>2, <1>3, <1>4, <1>5, <1>6, <1>7, <1>8, <1>9, <1>10 DEF Next, flush

\* The cache's invariant: while blocks are being written the list is exactly
\* what is dirty, and only a failed Unmount leaves the inode table in v.dirty.
THEOREM InvariantCorrect == Spec => []FlushInv
BY InitInv, NextInv, PTL DEF Spec

-----------------------------------------------------------------------------
(***************************************************************************)
(* The refinement: memory is the newest version of every cell, wherever    *)
(* it is.                                                                  *)
(***************************************************************************)

mem == [c \in Cells |-> latest(c)]

\* A cell's newest version, by the place it is in.
LEMMA LatestOf ==
    /\ \A n \in InodeCells :
         latest(n) = IF dirtyInodes[n] # Clean THEN dirtyInodes[n]
                     ELSE IF isDirty(TableBlock) THEN dirty[TableBlock][n] ELSE disk[n]
    /\ \A b \in BlockCells : latest(b) = IF isDirty(b) THEN dirty[b][b] ELSE disk[b]
BY CellFacts DEF latest, readBlock

\* An unmounting volume's files: nothing but the file changed, and it changed
\* only to what memory holds.
LEMMA Persists ==
    ASSUME NEW S \in SUBSET Cells,
           disk' = [c \in Cells |-> IF c \in S THEN latest(c) ELSE disk[c]],
           \A c \in Cells : latest(c)' = latest(c)
    PROVE  abstract!writes(S) /\ mem' = mem
BY DEF abstract!writes, mem

\* A cell's block is written with the newest version of the cell.
LEMMA KeyIsLatest ==
    ASSUME FlushInv, pc = "write", todo # {}
    PROVE  /\ nextKey \in Blocks /\ isDirty(nextKey)
           /\ cellsOf(nextKey) \subseteq Cells
           /\ \A c \in cellsOf(nextKey) : latest(c) = dirty[nextKey][c]
<1>1. nextKey \in todo /\ nextKey \in Blocks
  BY NextKey DEF FlushInv, TypeInv
<1>2. isDirty(nextKey)
  BY <1>1 DEF FlushInv, ListComplete
<1>3. CASE nextKey = TableBlock
  BY <1>1, <1>2, <1>3, LatestOf, CellFacts DEF FlushInv, ListComplete
<1>4. CASE nextKey # TableBlock
  BY <1>1, <1>2, <1>4, LatestOf, CellFacts
<1> QED BY <1>1, <1>2, <1>3, <1>4, CellFacts

\* readBlock, modify, writeBlock is one update of the block's cell.
LEMMA UpdateBlockRefines ==
    ASSUME FlushInv, NEW b \in BlockCells, UpdateBlock(b)
    PROVE  abstract!Next
<1> DEFINE new == [c \in cellsOf(b) |-> readBlock(b)[c] \cup {count + 1}]
<1>1. b \in Blocks /\ b # TableBlock /\ cellsOf(b) = {b} /\ b \in Cells /\ b \notin InodeCells
  BY CellFacts DEF Cells
<1>2. count + 1 \in Updates
  BY DEF FlushInv, TypeInv, UpdateBlock, usable, Updates
<1>3. readBlock(b) \in [cellsOf(b) -> Contents]
  BY <1>1, ReadBlockType DEF FlushInv
<1>4. new \in [cellsOf(b) -> Contents]
  BY <1>2, <1>3 DEF Contents
<1>5. new # NoBlock(b)
  BY <1>1, <1>4, HoldsContents
<1>6. new[b] = latest(b) \cup {count + 1}
  BY <1>1 DEF latest
<1>7. dirty' = [dirty EXCEPT ![b] = new]
  BY DEF UpdateBlock
<1> HIDE DEF new
<1>8. \A d \in Blocks : dirty'[d] = IF d = b THEN new ELSE dirty[d]
  BY <1>7 DEF FlushInv, TypeInv
<1>9. latest(b)' = latest(b) \cup {count + 1}
  BY <1>1, <1>5, <1>6, <1>8, LatestOf, CellFacts DEF latest, readBlock, isDirty
<1>10. ASSUME NEW c \in Cells, c # b PROVE latest(c)' = latest(c)
  <2>1. CASE c \in InodeCells
    BY <1>1, <1>8, <2>1, CellFacts DEF latest, readBlock, isDirty, UpdateBlock
  <2>2. CASE c \in BlockCells
    BY <1>1, <1>8, <1>10, <2>2, CellFacts DEF latest, readBlock, isDirty, UpdateBlock
  <2> QED BY <2>1, <2>2 DEF Cells
<1>11. mem' = [mem EXCEPT ![b] = @ \cup {count + 1}]
  BY <1>1, <1>9, <1>10 DEF mem
<1>12. abstract!Update(b, count + 1)
  BY <1>11 DEF abstract!Update, mem, UpdateBlock, usable
<1> QED BY <1>1, <1>2, <1>12 DEF abstract!Next

\* readRawInode, modify, writeRawInode is one update of the inode's cell: it
\* builds on the newest version, because the table block is not in v.dirty.
LEMMA UpdateInodeRefines ==
    ASSUME FlushInv, ~UsedAfterFailure, NEW n \in InodeCells, UpdateInode(n)
    PROVE  abstract!Next
<1>1. n \in Cells
  BY DEF Cells
<1>2. count + 1 \in Updates
  BY DEF FlushInv, TypeInv, UpdateInode, usable, Updates
<1>3. ~isDirty(TableBlock)
  BY DEF FlushInv, TableClean, UpdateInode, usable
<1>4. readRawInode(n) = latest(n)
  BY <1>3, LatestOf DEF readRawInode
<1>5. readRawInode(n) \cup {count + 1} # Clean
  BY <1>2 DEF Clean, Updates
<1>6. latest(n)' = latest(n) \cup {count + 1}
  BY <1>4, <1>5 DEF latest, UpdateInode, FlushInv, TypeInv
<1>7. ASSUME NEW c \in Cells, c # n PROVE latest(c)' = latest(c)
  BY <1>7, CellFacts DEF latest, readBlock, isDirty, UpdateInode, FlushInv, TypeInv, Cells
<1>8. mem' = [mem EXCEPT ![n] = @ \cup {count + 1}]
  BY <1>1, <1>6, <1>7 DEF mem
<1>9. abstract!Update(n, count + 1)
  BY <1>8 DEF abstract!Update, mem, UpdateInode, usable
<1> QED BY <1>1, <1>2, <1>9 DEF abstract!Next

\* Staging moves inodes from one place to another and changes no content.
LEMMA StageInodesRefines ==
    ASSUME FlushInv, StageInodes
    PROVE  UNCHANGED abstract!vars
<1>1. stagedTable \in [cellsOf(TableBlock) -> Contents]
  BY StagedTableType, CellFacts DEF FlushInv
<1>2. \A d \in Blocks : dirty'[d] = IF d = TableBlock /\ anyDirtyInode THEN stagedTable ELSE dirty[d]
  BY DEF FlushInv, TypeInv, StageInodes
<1>3. ASSUME NEW n \in InodeCells PROVE latest(n)' = latest(n)
  <2>1. dirtyInodes'[n] = Clean
    BY DEF StageInodes
  <2>2. CASE anyDirtyInode
    <3>1. stagedTable # NoBlock(TableBlock)
      BY <1>1, CellFacts, HoldsContents
    <3>2. latest(n)' = stagedTable[n]
      BY <1>2, <2>1, <2>2, <3>1, CellFacts DEF latest, readBlock, isDirty
    <3>3. stagedTable[n] = latest(n)
      BY DEF stagedTable, latest
    <3> QED BY <3>2, <3>3
  <2>3. CASE ~anyDirtyInode
    BY <1>2, <2>1, <2>3, CellFacts DEF latest, readBlock, isDirty, anyDirtyInode, StageInodes
  <2> QED BY <2>2, <2>3
<1>4. ASSUME NEW b \in BlockCells PROVE latest(b)' = latest(b)
  BY <1>2, CellFacts DEF latest, readBlock, isDirty, StageInodes
<1>5. mem' = mem
  BY <1>3, <1>4 DEF mem, Cells
<1> QED BY <1>5 DEF abstract!vars, mem, StageInodes

\* Writing the next block persists its cells and nothing else.
LEMMA WriteNextRefines ==
    ASSUME FlushInv, WriteNext
    PROVE  abstract!Next
<1> DEFINE S == cellsOf(nextKey)
<1>1. /\ nextKey \in Blocks /\ isDirty(nextKey)
      /\ S \subseteq Cells
      /\ \A c \in S : latest(c) = dirty[nextKey][c]
  BY KeyIsLatest DEF WriteNext
<1>2. disk' = [c \in Cells |-> IF c \in S THEN latest(c) ELSE disk[c]]
  BY <1>1 DEF WriteNext
<1>3. \A d \in Blocks : dirty'[d] = IF d = nextKey THEN NoBlock(d) ELSE dirty[d]
  BY DEF FlushInv, TypeInv, WriteNext
<1>4. dirtyInodes' = dirtyInodes /\ \A n \in InodeCells : dirtyInodes[n] = Clean
  BY DEF FlushInv, ListComplete, WriteNext
<1>5. ASSUME NEW n \in InodeCells PROVE latest(n)' = latest(n)
  <2>0. n \in Cells
    BY DEF Cells
  <2>1. CASE nextKey = TableBlock
    <3>1. n \in S
      BY <2>1, CellFacts
    <3>2. latest(n)' = disk'[n]
      BY <1>3, <1>4, <2>1, CellFacts DEF latest, readBlock, isDirty
    <3> QED BY <1>2, <2>0, <3>1, <3>2
  <2>2. CASE nextKey # TableBlock
    <3>1. n \notin S
      BY <1>1, <2>2, CellFacts
    <3>2. disk'[n] = disk[n]
      BY <1>2, <2>0, <3>1
    <3> QED BY <1>3, <1>4, <2>2, <3>2, CellFacts DEF latest, readBlock, isDirty
  <2> QED BY <2>1, <2>2
<1>6. ASSUME NEW b \in BlockCells PROVE latest(b)' = latest(b)
  <2>0. b \in Cells /\ b \in Blocks /\ b \notin InodeCells /\ cellsOf(b) = {b}
    BY CellFacts DEF Cells
  <2>1. CASE nextKey = b
    <3>1. latest(b)' = disk'[b]
      BY <1>3, <2>0, <2>1 DEF latest, readBlock, isDirty
    <3> QED BY <1>2, <2>0, <2>1, <3>1
  <2>2. CASE nextKey # b
    <3>1. b \notin S
      BY <1>1, <2>0, <2>2, CellFacts
    <3>2. disk'[b] = disk[b]
      BY <1>2, <2>0, <3>1
    <3> QED BY <1>3, <2>0, <2>2, <3>2 DEF latest, readBlock, isDirty
  <2> QED BY <2>1, <2>2
<1>7. \A c \in Cells : latest(c)' = latest(c)
  BY <1>5, <1>6 DEF Cells
<1>8. S \in SUBSET Cells
  BY <1>1
<1> HIDE DEF S
<1>9. abstract!writes(S) /\ mem' = mem
  BY <1>2, <1>7, <1>8, Persists
<1>10. abstract!Persist(S)
  BY <1>9 DEF abstract!Persist, mem, WriteNext
<1> QED BY <1>8, <1>10 DEF abstract!Next

\* A failed write has persisted some cells of one block, and keeps all of
\* them in memory for the next Unmount.
LEMMA WriteFailsRefines ==
    ASSUME FlushInv, WriteFails
    PROVE  abstract!Next
<1>1. /\ nextKey \in Blocks /\ isDirty(nextKey)
      /\ cellsOf(nextKey) \subseteq Cells
      /\ \A c \in cellsOf(nextKey) : latest(c) = dirty[nextKey][c]
  BY KeyIsLatest DEF WriteFails
<1>2. PICK S \in SUBSET cellsOf(nextKey) :
        disk' = [c \in Cells |-> IF c \in S THEN dirty[nextKey][c] ELSE disk[c]]
  BY DEF WriteFails
<1>3. S \in SUBSET Cells
  BY <1>1
<1>4. disk' = [c \in Cells |-> IF c \in S THEN latest(c) ELSE disk[c]]
  BY <1>1, <1>2
<1>5. \A c \in Cells : disk'[c] = IF c \in S THEN latest(c) ELSE disk[c]
  BY <1>4
<1>6. dirty' = dirty /\ dirtyInodes' = dirtyInodes
  BY DEF WriteFails
<1>7. ASSUME NEW n \in InodeCells PROVE latest(n)' = latest(n)
  <2>1. n \in Cells
    BY DEF Cells
  <2> QED BY <1>5, <1>6, <2>1, CellFacts DEF latest, readBlock, isDirty
<1>8. ASSUME NEW b \in BlockCells PROVE latest(b)' = latest(b)
  <2>1. b \in Cells
    BY DEF Cells
  <2> QED BY <1>5, <1>6, <2>1, CellFacts DEF latest, readBlock, isDirty
<1>9. \A c \in Cells : latest(c)' = latest(c)
  BY <1>7, <1>8 DEF Cells
<1>10. abstract!writes(S) /\ mem' = mem
  BY <1>3, <1>4, <1>9, Persists
<1>11. abstract!Fail(S)
  BY <1>10 DEF abstract!Fail, mem, WriteFails
<1> QED BY <1>3, <1>11 DEF abstract!Next

\* Reading a table block failed: nothing has changed.
LEMMA StageFailsRefines ==
    ASSUME FlushInv, StageFails
    PROVE  abstract!Next
<1>1. \A c \in Cells : latest(c)' = latest(c)
  BY DEF StageFails, latest, readBlock, isDirty
<1>2. disk' = [c \in Cells |-> IF c \in {} THEN latest(c) ELSE disk[c]]
  BY DEF StageFails, FlushInv, TypeInv
<1>3. abstract!writes({}) /\ mem' = mem
  BY <1>1, <1>2, Persists
<1>4. abstract!Fail({})
  BY <1>3 DEF abstract!Fail, mem, StageFails
<1> QED BY <1>4 DEF abstract!Next

\* Unmount reports success: no block and no inode is dirty, so the file holds
\* everything.
LEMMA FlushedRefines ==
    ASSUME FlushInv, Flushed
    PROVE  abstract!Next
<1>1. \A b \in Blocks : ~isDirty(b)
  BY DEF FlushInv, ListComplete, Flushed
<1>2. \A n \in InodeCells : dirtyInodes[n] = Clean
  BY DEF FlushInv, ListComplete, Flushed
<1>3. \A c \in Cells : latest(c) = disk[c]
  BY <1>1, <1>2, LatestOf, CellFacts DEF Cells
<1>4. disk = mem
  BY <1>3 DEF mem, FlushInv, TypeInv
<1>5. \A c \in Cells : latest(c)' = latest(c)
  BY DEF Flushed, latest, readBlock, isDirty
<1>6. mem' = mem
  BY <1>5 DEF mem
<1>7. abstract!Succeed
  BY <1>4, <1>6 DEF abstract!Succeed, mem, Flushed
<1> QED BY <1>7 DEF abstract!Next

\* The process dies: what a new mount sees is the file.
LEMMA CrashRefines ==
    ASSUME FlushInv, Crash
    PROVE  abstract!Next
<1>1. \A n \in InodeCells : latest(n)' = disk[n]
  BY CellFacts DEF Crash, latest, readBlock, isDirty
<1>2. \A b \in BlockCells : latest(b)' = disk[b]
  BY CellFacts DEF Crash, latest, readBlock, isDirty
<1>3. \A c \in Cells : latest(c)' = disk[c]
  BY <1>1, <1>2 DEF Cells
<1>4. mem' = disk
  BY <1>3 DEF mem, FlushInv, TypeInv
<1>5. abstract!Crash
  BY <1>4 DEF abstract!Crash, mem, Crash
<1> QED BY <1>5 DEF abstract!Next

\* Every step of the cache is a step of WriteBack, or changes nothing it sees.
LEMMA StepRefines ==
    ASSUME ~UsedAfterFailure
    PROVE  FlushInv /\ [Next]_vars => [abstract!Next]_abstract!vars
<1> SUFFICES ASSUME FlushInv, [Next]_vars
             PROVE  abstract!Next \/ UNCHANGED abstract!vars
  OBVIOUS
<1>1. ASSUME NEW b \in BlockCells, UpdateBlock(b) PROVE abstract!Next
  BY <1>1, UpdateBlockRefines
<1>2. ASSUME NEW n \in InodeCells, UpdateInode(n) PROVE abstract!Next
  BY <1>2, UpdateInodeRefines
<1>3. CASE Unmount
  <2>1. \A c \in Cells : latest(c)' = latest(c)
    BY <1>3 DEF Unmount, latest, readBlock, isDirty
  <2>2. mem' = mem
    BY <2>1 DEF mem
  <2>3. abstract!Begin
    BY <1>3, <2>2 DEF abstract!Begin, mem, Unmount
  <2> QED BY <2>3 DEF abstract!Next
<1>4. CASE StageInodes
  BY <1>4, StageInodesRefines
<1>5. CASE StageFails
  BY <1>5, StageFailsRefines
<1>6. CASE WriteNext
  BY <1>6, WriteNextRefines
<1>7. CASE WriteFails
  BY <1>7, WriteFailsRefines
<1>8. CASE Flushed
  BY <1>8, FlushedRefines
<1>9. CASE Crash
  BY <1>9, CrashRefines
<1>10. CASE UNCHANGED vars
  <2>1. \A c \in Cells : latest(c)' = latest(c)
    BY <1>10 DEF vars, latest, readBlock, isDirty
  <2>2. mem' = mem
    BY <2>1 DEF mem
  <2> QED BY <1>10, <2>2 DEF vars, abstract!vars, mem
<1> QED
  BY <1>1, <1>2, <1>3, <1>4, <1>5, <1>6, <1>7, <1>8, <1>9, <1>10 DEF Next, flush

\* The ext4 write-back cache implements WriteBack: whatever updates, failed
\* and repeated Unmounts and crashes happen in whatever order, no update is
\* lost and success is reported only when the file holds every one, provided
\* a volume is not written to between a failed Unmount and the next.
THEOREM CacheImplementsWriteBack ==
    ASSUME ~UsedAfterFailure
    PROVE  Spec => ImplementsWriteBack
<1>1. Init => abstract!Init
  <2> SUFFICES ASSUME Init PROVE abstract!Init
    OBVIOUS
  <2>1. \A c \in Cells : latest(c) = {}
    BY CellFacts DEF Init, latest, readBlock, isDirty, Cells
  <2> QED BY <2>1 DEF Init, abstract!Init
<1>2. FlushInv /\ [Next]_vars => [abstract!Next]_abstract!vars
  BY StepRefines
<1> QED
  BY <1>1, <1>2, InvariantCorrect, PTL DEF Spec, ImplementsWriteBack, abstract!Spec

=============================================================================
