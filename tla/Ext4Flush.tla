----------------------------- MODULE Ext4Flush -----------------------------
(***************************************************************************)
(* The ext4 driver's write-back cache (ext4/open.go readBlock, writeBlock, *)
(* readRawInode, writeRawInode; ext4/flush.go): modified blocks and        *)
(* modified inodes are kept in two maps until Unmount stages the inodes    *)
(* into their table blocks and writes all dirty blocks.                    *)
(*                                                                         *)
(* A cell is what one update changes: a block, or an inode, whose table    *)
(* block it shares with others.  Contents are the set of updates made.     *)
(* Every update is a read-modify-write, as all of the driver's are.        *)
(***************************************************************************)
EXTENDS Integers, FiniteSets

CONSTANTS MetaBlocks,   \* superblock, descriptors, bitmaps
          TableBlock,    \* the inode table
          DataBlocks,
          InodeCells,    \* the inodes in the table block
          MaxUpdates,    \* bound on updates
          UsedAfterFailure  \* whether the volume is used after Unmount failed

Blocks == MetaBlocks \cup {TableBlock} \cup DataBlocks
BlockCells == Blocks \ {TableBlock}
Cells == BlockCells \cup InodeCells
Updates == 1..MaxUpdates

\* Block numbers: in a block group, metadata comes first.
ASSUME FlushAssumption ==
    /\ Blocks \subseteq Nat
    /\ \A m \in MetaBlocks, d \in DataBlocks : m < TableBlock /\ TableBlock < d
    /\ InodeCells \subseteq Nat \ Blocks
    /\ MaxUpdates \in Nat
    /\ UsedAfterFailure \in BOOLEAN

VARIABLES disk,         \* the image file, by cell
          dirty,        \* v.dirty: for each block, its cells' contents, or Clean
          dirtyInodes,  \* v.dirtyInodes: contents, or Clean
          todo,         \* the sorted keys flush still has to write
          pc,           \* "idle", "stage", "write"
          count,        \* updates made
          result        \* what the last Unmount returned: "none", "ok", "error"

vars == <<disk, dirty, dirtyInodes, todo, pc, count, result>>

Clean == {-1}

cellsOf(b) == IF b = TableBlock THEN InodeCells ELSE {b}

NoBlock(b) == [c \in cellsOf(b) |-> Clean]

Init ==
    /\ disk = [c \in Cells |-> {}]
    /\ dirty = [b \in Blocks |-> NoBlock(b)]
    /\ dirtyInodes = [n \in InodeCells |-> Clean]
    /\ todo = {}
    /\ pc = "idle"
    /\ count = 0
    /\ result = "none"

isDirty(b) == dirty[b] # NoBlock(b)

\* readBlock: "Dirty (in-memory) data takes precedence over on-disk data."
readBlock(b) == IF isDirty(b) THEN dirty[b] ELSE [c \in cellsOf(b) |-> disk[c]]

\* readRawInode looks in dirtyInodes and then on the disk, past v.dirty.
readRawInode(n) == IF dirtyInodes[n] # Clean THEN dirtyInodes[n] ELSE disk[n]

usable == pc = "idle" /\ count < MaxUpdates /\ (result = "error" => UsedAfterFailure)

UpdateBlock(b) ==
    /\ usable
    /\ count' = count + 1
    /\ dirty' = [dirty EXCEPT ![b] = [c \in cellsOf(b) |-> readBlock(b)[c] \cup {count + 1}]]
    /\ UNCHANGED <<disk, dirtyInodes, todo, pc, result>>

UpdateInode(n) ==
    /\ usable
    /\ count' = count + 1
    /\ dirtyInodes' = [dirtyInodes EXCEPT ![n] = readRawInode(n) \cup {count + 1}]
    /\ UNCHANGED <<disk, dirty, todo, pc, result>>

Unmount ==
    /\ pc = "idle"
    /\ pc' = "stage"
    /\ result' = "none"
    /\ UNCHANGED <<disk, dirty, dirtyInodes, todo, count>>

\* flushInode for every dirty inode: overlaid on the table block as readBlock
\* has it.
stagedTable ==
    [n \in InodeCells |-> IF dirtyInodes[n] # Clean THEN dirtyInodes[n]
                          ELSE readBlock(TableBlock)[n]]

anyDirtyInode == \E n \in InodeCells : dirtyInodes[n] # Clean

\* Mutant of StageInodes: a flush without inodes never gets past this point.
StageInodes_Waits ==
    /\ pc = "stage"
    /\ anyDirtyInode
    /\ dirty' = [dirty EXCEPT ![TableBlock] = stagedTable]
    /\ dirtyInodes' = [n \in InodeCells |-> Clean]
    /\ todo' = {b \in Blocks : dirty'[b] # NoBlock(b)}
    /\ pc' = "write"
    /\ UNCHANGED <<disk, count, result>>

StageInodes ==
    /\ pc = "stage"
    /\ dirty' = IF anyDirtyInode THEN [dirty EXCEPT ![TableBlock] = stagedTable] ELSE dirty
    /\ dirtyInodes' = [n \in InodeCells |-> Clean]
    /\ todo' = {b \in Blocks : dirty'[b] # NoBlock(b)}
    /\ pc' = "write"
    /\ UNCHANGED <<disk, count, result>>

\* Reading a table block failed: the inodes staged so far are in v.dirty, all
\* of them are still in dirtyInodes.
StageFails ==
    /\ pc = "stage"
    /\ anyDirtyInode /\ ~isDirty(TableBlock)
    /\ pc' = "idle"
    /\ result' = "error"
    /\ UNCHANGED <<disk, dirty, dirtyInodes, todo, count>>

nextKey == CHOOSE b \in todo : \A d \in todo : b <= d

\* Mutant of WriteNext: a block is forgotten before it is written.
WriteNext_Forgets ==
    /\ pc = "write" /\ todo # {}
    /\ dirty' = [dirty EXCEPT ![nextKey] = NoBlock(nextKey)]
    /\ todo' = todo \ {nextKey}
    /\ UNCHANGED <<disk, dirtyInodes, pc, count, result>>

\* Blocks are written in ascending order and dropped from the map one by one.
WriteNext ==
    /\ pc = "write" /\ todo # {}
    /\ disk' = [c \in Cells |-> IF c \in cellsOf(nextKey) THEN dirty[nextKey][c] ELSE disk[c]]
    /\ dirty' = [dirty EXCEPT ![nextKey] = NoBlock(nextKey)]
    /\ todo' = todo \ {nextKey}
    /\ UNCHANGED <<dirtyInodes, pc, count, result>>

\* A write fails: part of the block may have reached the disk.
WriteFails ==
    /\ pc = "write" /\ todo # {}
    /\ \E S \in SUBSET cellsOf(nextKey) :
          disk' = [c \in Cells |-> IF c \in S THEN dirty[nextKey][c] ELSE disk[c]]
    /\ todo' = {}
    /\ pc' = "idle"
    /\ result' = "error"
    /\ UNCHANGED <<dirty, dirtyInodes, count>>

Flushed ==
    /\ pc = "write" /\ todo = {}
    /\ pc' = "idle"
    /\ result' = "ok"
    /\ UNCHANGED <<disk, dirty, dirtyInodes, todo, count>>

\* The process dies and the image is attached and mounted again.
Crash ==
    /\ dirty' = [b \in Blocks |-> NoBlock(b)]
    /\ dirtyInodes' = [n \in InodeCells |-> Clean]
    /\ todo' = {}
    /\ pc' = "idle"
    /\ result' = "none"
    /\ UNCHANGED <<disk, count>>

flush == StageInodes \/ StageFails \/ WriteNext \/ WriteFails \/ Flushed

Next ==
    \/ \E b \in BlockCells : UpdateBlock(b)
    \/ \E n \in InodeCells : UpdateInode(n)
    \/ Unmount \/ flush \/ Crash

Spec == Init /\ [][Next]_vars

\* flush runs in the goroutine that called Unmount: it is not suspended forever.
FairSpec == Spec /\ WF_vars(flush)

-----------------------------------------------------------------------------
(***************************************************************************)
(* Properties.                                                             *)
(***************************************************************************)
\* The newest contents of a cell the volume holds anywhere.
latest(c) ==
    IF c \in InodeCells
    THEN IF dirtyInodes[c] # Clean THEN dirtyInodes[c] ELSE readBlock(TableBlock)[c]
    ELSE readBlock(c)[c]

abstract == INSTANCE WriteBack
              WITH mem <- [c \in Cells |-> latest(c)],
                   unmounting <- (pc # "idle")

\* The cache implements WriteBack: no interleaving of updates, failed and
\* repeated Unmounts and crashes loses an update or reports success early.
ImplementsWriteBack == abstract!Spec

\* Unmount returns, with success or an error.
UnmountReturns == (pc # "idle") ~> (pc = "idle")
=============================================================================
