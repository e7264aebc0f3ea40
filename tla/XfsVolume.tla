----------------------------- MODULE XfsVolume -----------------------------
(***************************************************************************)
(* An XFS volume from the kernel that last had it mounted to the driver    *)
(* that reopens it (xfs/*.go): log replay, the two caches, the block       *)
(* allocator, calls on existing files, handles and the stepwise Unmount.   *)
(*                                                                         *)
(* A block is two units; a unit holds half a block of file data, a chunk   *)
(* of a logged buffer, an inode or the AGF.  Of the AGF the word at offset *)
(* 44 counts: the driver takes it for the number of free blocks, on the    *)
(* disk it is the end of the free list (agf_fllast).  An allocation group  *)
(* is its header block, a block of inodes and blocks for data and          *)
(* metadata; one block of metadata (Meta) stands for directories and       *)
(* B-trees.  An inode is <<core, fork>>.  Directories keep the entries the *)
(* kernel gave them, so a path is the inode it resolves to, and a file has *)
(* few enough extents for its inode.                                       *)
(***************************************************************************)
EXTENDS Integers, Sequences, FiniteSets, TLC

Seqs == INSTANCE SequencesExt
Sets == INSTANCE FiniteSetsExt

CONSTANTS AgCount,     \* allocation groups
          AgBlocks,    \* blocks of a group
          Files,       \* inode numbers of files
          MaxLen,      \* bound on the length of a file
          MaxHandles,  \* bound on open handles
          Callers      \* what kernel and callers do: a bound on the log's records, the files
                       \* transactions change, methods, contents and a bound on the calls;
                       \* the free blocks of groups but the first, the ends of the free
                       \* lists, and how many records the driver's reading misses

AGs    == 0..(AgCount - 1)
Blocks == 0..(AgCount * AgBlocks - 1)
Unit   == 1..2
Header(ag) == ag * AgBlocks
Meta   == 2
NoBlock == 0

ASSUME XfsAssumption ==
    /\ AgCount \in Nat \ {0} /\ AgBlocks \in Nat /\ AgBlocks > 4
    /\ \A f \in Files : f % (2 * AgBlocks) \in 2..3 /\ f < AgCount * 2 * AgBlocks
    /\ MaxLen \in Nat /\ MaxHandles \in Nat
    /\ \A c \in Callers : /\ c.calls \in Nat /\ c.records \in Nat /\ c.missed \in Nat
                         /\ c.free \in 1..(AgBlocks - 2)
                         /\ c.fllast \in [1..AgCount -> 0..(AgBlocks - 2)]

VARIABLES disk,     \* the backing store: block -> its two units
          log,      \* the log's records, by LSN
          kernel,   \* the kernel's state while it has the volume mounted
          v,        \* the driver's Volume
          handles,  \* open *xfsFile
          ghost,    \* what callers are owed, and where the code is known to fail them
          caller,   \* the caller of this behaviour
          calls     \* number of calls so far

vars == <<disk, log, kernel, v, handles, ghost, caller, calls>>

-----------------------------------------------------------------------------
(***************************************************************************)
(* Addresses, blocks and inodes.                                           *)
(***************************************************************************)
\* p's units over x.
Overlay(p, x) == [j \in Unit |-> IF j \in DOMAIN p THEN p[j] ELSE x[j]]

inodeAG(ino) == ino \div (2 * AgBlocks)

inodePhysBlock(ino) == inodeAG(ino) * AgBlocks + (ino % (2 * AgBlocks)) \div 2

inodeUnit(ino) == (ino % 2) + 1

readBlock(d, w, b) == IF b \in DOMAIN w.dirty THEN w.dirty[b] ELSE d[b]

writeBlock(w, b, data) == [w EXCEPT !.dirty = (b :> data) @@ @]

\* The inode cache first, then the inode's block, cached or not.
readRawInode(d, w, ino) ==
    IF ino \in DOMAIN w.inodes THEN w.inodes[ino]
    ELSE readBlock(d, w, inodePhysBlock(ino))[inodeUnit(ino)]

writeInode(w, ino, in) == [w EXCEPT !.inodes = (ino :> in) @@ @]

\* The extent records the core counts, of those the fork has room for.
extentList(in) == SubSeq(in[2], 1, in[1].nextents)

logicalToPhysical(recs, lb) ==
    IF \E i \in DOMAIN recs : recs[i][1] = lb
    THEN recs[CHOOSE i \in DOMAIN recs :
                 recs[i][1] = lb /\ \A j \in 1..(i - 1) : recs[j][1] # lb][2]
    ELSE NoBlock

readFileRange(d, w, in) ==
    [p \in 1..in[1].size |->
        LET blk == logicalToPhysical(extentList(in), (p - 1) \div 2)
        IN  IF blk = NoBlock THEN 0 ELSE readBlock(d, w, blk)[((p - 1) % 2) + 1]]

-----------------------------------------------------------------------------
(***************************************************************************)
(* Log replay.  A record is [tail, ops].  An op is a whole item, with the  *)
(* units of a buffer or the parts of an inode that its transaction logged, *)
(* or the unmount mark, or Empty: the start or the commit of a checkpoint, *)
(* which carries nothing.                                                  *)
(***************************************************************************)
Empty == [kind |-> "empty"]

\* The recovered buffer is the one on the disk, not the one in the cache, with the logged
\* chunks: a cancelled buffer, logged with none, is as it is on the disk.
applyBufItem(d, w, op) == writeBlock(w, op.at, Overlay(op.part, d[op.at]))

\* The logged core, and the logged extent records over as many of the inode's.
applyInodeItem(d, w, op) ==
    LET old  == readRawInode(d, w, op.at)
        fork == Overlay(op.part, old)[2]
    IN  writeInode(w, op.at, <<Overlay(op.part, old)[1], fork \o SubSeq(old[2], Len(fork) + 1, Len(old[2]))>>)

\* next takes an empty op for the whole rest of the record; and nothing of a record counts
\* behind its unmount mark.
opsRead(ops) ==
    LET ends == {i \in DOMAIN ops : ops[i].kind \in {"empty", "unmount"}}
    IN  IF ends = {} THEN ops ELSE SubSeq(ops, 1, Sets!Min(ends) - 1)

applyLogOps(d, w, ops) ==
    Seqs!FoldLeft(LAMBDA x, op : IF op.kind = "buf" THEN applyBufItem(d, x, op) ELSE applyInodeItem(d, x, op),
                  w, opsRead(ops))


\* The records from the tail that the newest one names to the newest one.  logStart is not
\* turned into a linear address: unless the log lies in the first group, or groups have a
\* power of two of blocks, reading begins behind its first records, or behind all of it.
replayLog(d, w, recs, missed) ==
    LET seen == (missed + 1)..Len(recs)
        tail == recs[Len(recs)].tail
    IN  IF seen = {} \/ tail = Len(recs) THEN w
        ELSE Seqs!FoldLeft(LAMBDA x, rec : applyLogOps(d, x, rec.ops), w,
                           SubSeq(recs, Sets!Max({missed + 1, tail}), Len(recs)))

\* The group headers are read before the log is replayed, and the count of free blocks
\* from the field of a tree's height, which is 1.
readAGHeaders == [ag \in AGs |-> 1]

Closed == [open |-> FALSE, agfs |-> readAGHeaders, dirty |-> <<>>, inodes |-> <<>>, queue |-> <<>>]

openVolume(d, recs) == [replayLog(d, Closed, recs, caller.missed) EXCEPT !.open = TRUE]

-----------------------------------------------------------------------------
(***************************************************************************)
(* Allocation and writing.  A result is [w, err, ...]; taken collects the  *)
(* groups blocks are taken from.                                           *)
(***************************************************************************)
allocBlockInAG_NotStaged(d, w, ag) ==
    LET free == d[Header(ag)][1]
    IN  [blk |-> ag * AgBlocks + AgBlocks - free, w |-> [w EXCEPT !.agfs[ag] = free - 1]]

\* agf_fllast on the disk, taken for the number of free blocks, says where they begin.  The
\* group's header is staged with one less than on the disk, whatever is staged already.
allocBlockInAG(d, w, ag) ==
    LET free == d[Header(ag)][1]
    IN  [blk |-> ag * AgBlocks + AgBlocks - free,
         w   |-> [writeBlock(w, Header(ag), Overlay(1 :> free - 1, readBlock(d, w, Header(ag))))
                     EXCEPT !.agfs[ag] = free - 1]]

\* The inode's group first, then the ones behind it.
allocBlock(d, w, ino) ==
    LET nth(i) == (inodeAG(ino) + i) % AgCount
        fits == {i \in AGs : w.agfs[nth(i)] > 0 /\ d[Header(nth(i))][1] > 0}
    IN  IF fits = {} THEN [err |-> TRUE]
        ELSE LET ag == nth(Sets!Min(fits))
             IN  [err |-> FALSE, ag |-> ag] @@ allocBlockInAG(d, w, ag)

storeExtents(w, ino, in, recs) ==
    LET new == <<[in[1] EXCEPT !.nextents = Len(recs)], recs>>
    IN  [in |-> new, w |-> writeInode(w, ino, new)]

\* One round of writeFileRange's loop: the block with number lb of the file.
writeOne(d, s, ino, off, data, lb) ==
    LET recs == extentList(s.in)
        phys == logicalToPhysical(recs, lb)
        a    == IF phys = NoBlock THEN allocBlock(d, s.w, ino) ELSE [err |-> FALSE, blk |-> phys]
        st   == IF phys # NoBlock THEN [in |-> s.in, w |-> s.w]
                ELSE storeExtents(a.w, ino, s.in, Append(recs, <<lb, a.blk>>))
        old  == IF phys = NoBlock THEN <<0, 0>> ELSE readBlock(d, s.w, phys)
        part == [j \in {j \in Unit : (2 * lb + j) \in (off + 1)..(off + Len(data))} |->
                    data[2 * lb + j - off]]
    IN  IF s.err \/ a.err THEN [s EXCEPT !.err = TRUE]
        ELSE [s EXCEPT !.in = st.in, !.n = @ + Cardinality(DOMAIN part),
                       !.w = writeBlock(st.w, a.blk, Overlay(part, old)),
                       !.taken = IF phys = NoBlock THEN Append(@, a.ag) ELSE @]

\* The size grows at the end, and not at all when a block is missing on the way.
writeFileRange(d, w, ino, in, off, data) ==
    LET s == Seqs!FoldLeft(LAMBDA x, lb : writeOne(d, x, ino, off, data, lb),
                           [w |-> w, in |-> in, n |-> 0, err |-> FALSE, taken |-> <<>>],
                           IF data = <<>> THEN <<>>
                           ELSE [i \in 1..((off + Len(data) + 1) \div 2 - off \div 2) |-> off \div 2 + i - 1])
        new == [s.in EXCEPT ![1].size = off + s.n]
    IN  IF data = <<>> \/ s.err \/ off + s.n <= s.in[1].size THEN s
        ELSE [s EXCEPT !.in = new, !.w = writeInode(s.w, ino, new)]

-----------------------------------------------------------------------------
(***************************************************************************)
(* The kernel that had the volume mounted (external): it changes memory    *)
(* and commits what it changed, writes back when it likes, and stops       *)
(* cleanly or not.  What is logged again before it is written back is      *)
(* logged with all that changed since; the tail is the oldest record with  *)
(* something still to be written back.  A checkpoint is one transaction    *)
(* and begins a record of its own; it fits in that record or goes on in    *)
(* the next.                                                               *)
(***************************************************************************)
Items == ({"buf"} \X ({Header(ag) : ag \in AGs} \cup {Meta})) \cup ({"inode"} \X Files)

blockOf(it) == IF it[1] = "buf" THEN it[2] ELSE inodePhysBlock(it[2])

valueOf(m, it) == IF it[1] = "buf" THEN m[it[2]] ELSE m[inodePhysBlock(it[2])][inodeUnit(it[2])]

inodeIn(m, f) == m[inodePhysBlock(f)][inodeUnit(f)]

extentBlocks(in) == {extentList(in)[i][2] : i \in DOMAIN extentList(in)}

\* Headers, inodes, and all but caller.free blocks of every group but the first, used by
\* files that nobody touches.
Fixed == {b \in Blocks : b % AgBlocks \in 0..(IF b < AgBlocks THEN 1 ELSE AgBlocks - caller.free - 1)}

usedBlocks(k) ==
    Fixed \cup {b \in {Meta} : k.meta} \cup UNION {extentBlocks(inodeIn(k.mem, f)) : f \in Files}

Pending(k) == {it \in Items : k.dirty[it] # {}}

\* One transaction: touched says which parts of which items it changed, in the order they
\* are logged; an item in cancelled is logged with nothing and never written back.  The
\* first n items are in the first record; the one cut in two by its end is one of them,
\* as its halves are no items to the driver.
Commit(touched, cancelled, m, meta) ==
    LET lsn == Len(log) + 1
        parts(it) == IF it \in cancelled THEN {}
                     ELSE kernel.dirty[it] \cup UNION {t[2] : t \in {u \in Seqs!ToSet(touched) : u[1] = it}}
        logged == {t[1] : t \in Seqs!ToSet(touched)}
        items  == [i \in DOMAIN touched |->
                     LET it == touched[i][1]
                     IN  [kind |-> it[1], at |-> it[2], part |-> [j \in parts(it) |-> valueOf(m, it)[j]]]]
        record(ops) == [tail |-> IF Pending(kernel) = {} THEN Len(log)
                                 ELSE Sets!Min({kernel.at[it] : it \in Pending(kernel)}),
                        ops  |-> ops]
    IN  /\ kernel.mounted /\ Len(log) < caller.records
        /\ \E n \in 0..Len(items) :
              log' = log \o
                  IF n = Len(items) THEN <<record(<<Empty>> \o items \o <<Empty>>)>>
                  ELSE <<record(<<Empty>> \o SubSeq(items, 1, n)),
                         record(SubSeq(items, n + 1, Len(items)) \o <<Empty>>)>>
        /\ kernel' = [kernel EXCEPT
              !.mem = m, !.meta = meta,
              !.dirty = [it \in Items |-> IF it \in logged THEN parts(it) ELSE @[it]],
              !.at = [it \in Items |-> IF it \in logged \ cancelled THEN lsn ELSE @[it]]]
        /\ UNCHANGED <<v, handles, ghost, caller, calls>>

setInode(m, f, in) == [m EXCEPT ![inodePhysBlock(f)][inodeUnit(f)] = in]

KernelChmod(f) ==
    LET in == inodeIn(kernel.mem, f)
    IN  /\ f \in caller.logged
        /\ UNCHANGED disk
        /\ Commit(<<<<<<"inode", f>>, {1}>>>>, {},
                  setInode(kernel.mem, f, <<[in[1] EXCEPT !.mode = Len(log)], in[2]>>), kernel.meta)

\* File data is not logged: it is on the disk before the transaction commits.  The AGF is
\* logged, its free list is as it was.
KernelAppend(f) ==
    LET in   == inodeIn(kernel.mem, f)
        lb   == in[1].size \div 2
        free == Blocks \ usedBlocks(kernel)
        own  == {b \in free : b \div AgBlocks = inodeAG(f)}
        blk  == Sets!Min(IF own # {} THEN own ELSE free)
        hd   == Header(blk \div AgBlocks)
        data == <<20 + Len(log), 20 + Len(log)>>
        new  == <<[in[1] EXCEPT !.size = @ + 2, !.nextents = @ + 1], Append(in[2], <<lb, blk>>)>>
    IN  /\ f \in caller.logged /\ free # {} /\ in[1].size + 2 <= MaxLen
        /\ disk' = [disk EXCEPT ![blk] = data]
        /\ Commit(<<<<<<"buf", hd>>, {1}>>, <<<<"inode", f>>, {1, 2}>>>>, {},
                  setInode([kernel.mem EXCEPT ![blk] = data], f, new), kernel.meta)

KernelMeta(j) ==
    /\ kernel.meta
    /\ UNCHANGED disk
    /\ Commit(<<<<<<"buf", Meta>>, {j}>>>>, {}, [kernel.mem EXCEPT ![Meta][j] = 40 + Len(log)], TRUE)

\* The metadata block is free, and the free list may get a block.
KernelFree(more) ==
    /\ kernel.meta
    /\ UNCHANGED disk
    /\ Commit(<<<<<<"buf", Header(0)>>, {1}>>, <<<<"buf", Meta>>, {}>>>>, {<<"buf", Meta>>},
              [kernel.mem EXCEPT ![Header(0)][1] = @ + more], FALSE)

KernelWriteBack(it) ==
    /\ kernel.mounted /\ it \in Pending(kernel)
    /\ disk' = IF it[1] = "buf" THEN [disk EXCEPT ![it[2]] = valueOf(kernel.mem, it)]
               ELSE [disk EXCEPT ![blockOf(it)][inodeUnit(it[2])] = valueOf(kernel.mem, it)]
    /\ kernel' = [kernel EXCEPT !.dirty[it] = {}]
    /\ UNCHANGED <<log, v, handles, ghost, caller, calls>>

KernelUnmount ==
    /\ kernel.mounted /\ Pending(kernel) = {} /\ Len(log) > 1
    /\ log' = Append(log, [tail |-> Len(log), ops |-> <<[kind |-> "unmount"]>>])
    /\ kernel' = [kernel EXCEPT !.mounted = FALSE]
    /\ UNCHANGED <<disk, v, handles, ghost, caller, calls>>

-----------------------------------------------------------------------------
(***************************************************************************)
(* What callers are owed, and the known ways the code fails them.          *)
(***************************************************************************)
\* The places of files: <<file, index of the extent record>>.
Places(d, w) == UNION {{<<f, i>> : i \in DOMAIN extentList(readRawInode(d, w, f))} : f \in Files}

blockAt(d, w, pl) == extentList(readRawInode(d, w, pl[1]))[pl[2]][2]

\* The places whose block is also another's.
SharedPlaces(d, w) ==
    LET pls == Places(d, w)
        at  == [pl \in pls |-> blockAt(d, w, pl)]
    IN  {pl \in pls : \/ at[pl] \in Fixed
                      \/ at[pl] = Meta /\ kernel.meta
                      \/ \E ql \in pls \ {pl} : at[ql] = at[pl]}

\* After a call on file f, which is owed `owed`: err, it failed; stale, it went through a
\* handle with an older copy of the inode.  A group is in doubt once a second block is
\* taken from it before its header is on the disk.
Settle(w, f, owed, taken, err, stale) ==
    LET shared == SharedPlaces(disk, w)
        again  == {ag \in Seqs!ToSet(taken) : ag \in ghost.taken \/ Cardinality({i \in DOMAIN taken : taken[i] = ag}) > 1}
    IN  /\ v' = w
        /\ calls' = calls + 1
        /\ ghost' = [ghost EXCEPT
              !.owed[f] = owed, !.edited = @ \cup {f}, !.unsaved = @ \cup {f},
              !.taken = @ \cup Seqs!ToSet(taken), !.doubt = @ \cup again,
              !.harmed = @ \cup {pl[1] : pl \in shared} \cup {g \in {f} : err \/ stale},
              !.meta = @ /\ \A pl \in shared : blockAt(disk, w, pl) # Meta]
        /\ UNCHANGED <<disk, log, kernel, caller>>

Splice(data, off, new) ==
    [p \in 1..Sets!Max({Len(data), off + Len(new)}) |->
        IF p \in (off + 1)..(off + Len(new)) THEN new[p - off]
        ELSE IF p \in DOMAIN data THEN data[p] ELSE 0]

-----------------------------------------------------------------------------
(***************************************************************************)
(* The driver's calls.                                                     *)
(***************************************************************************)
Called(method) == v.open /\ v.queue = <<>> /\ method \in caller.uses /\ calls < caller.calls

inodeOf(f) == readRawInode(disk, v, f)


\* The cached inodes are put into their blocks, as cached.
flushInode(d, w, ino, raw) ==
    writeBlock(w, inodePhysBlock(ino),
               Overlay(inodeUnit(ino) :> raw, readBlock(d, w, inodePhysBlock(ino))))

flushInodes(d, w) == Sets!FoldSet(LAMBDA ino, x : flushInode(d, x, ino, w.inodes[ino]), w, DOMAIN w.inodes)

\* All the blocks as the opened volume has them.
contents(d, w) == [b \in Blocks |-> readBlock(d, flushInodes(d, w), b)]

\* The opened volume; whatever an earlier one held in memory is gone.
Open ==
    LET w    == openVolume(disk, log)
        lost == {f \in ghost.edited : readRawInode(disk, w, f) # inodeIn(disk, f)}
        regs == {ag \in AGs : readBlock(disk, w, Header(ag)) # disk[Header(ag)]}
        used == {ag \in AGs : \E b \in usedBlocks(kernel) :
                    b \in (Header(ag + 1) - disk[Header(ag)][1])..(Header(ag + 1) - 1)}
        was  == [b \in Blocks |-> IF ~kernel.mounted /\ b \in usedBlocks(kernel) THEN kernel.mem[b]
                                  ELSE contents(disk, w)[b]]
        owes == [f \in Files |-> LET in == readRawInode(disk, w, f)
                                 IN  [mode |-> in[1].mode, data |-> readFileRange(disk, w, in)]]
    IN  /\ \/ ~v.open
           \/ v.open /\ "Open" \in caller.uses /\ calls < caller.calls
        /\ v' = w
        /\ handles' = <<>>
        /\ kernel' = [kernel EXCEPT !.mounted = FALSE, !.dirty = [it \in Items |-> {}], !.at = [it \in Items |-> 0]]
        /\ calls' = IF v.open THEN calls + 1 ELSE calls
        /\ ghost' = [ghost EXCEPT
              !.owed = IF v.open THEN @ ELSE owes,
              !.was = IF v.open THEN @ ELSE was,
              !.meta = IF v.open THEN @ ELSE kernel.meta,
              !.harmed = @ \cup ghost.unsaved \cup lost,
              !.unsaved = {}, !.taken = {}, !.partial = FALSE,
              !.doubt = @ \cup regs \cup (IF v.open THEN {} ELSE used) \cup (IF ghost.partial THEN ghost.taken ELSE {})]
        /\ UNCHANGED <<disk, log, caller>>

WriteFile(f, data) ==
    LET in == <<[inodeOf(f)[1] EXCEPT !.size = 0], inodeOf(f)[2]>>
        s  == writeFileRange(disk, writeInode(v, f, in), f, in, 0, data)
    IN  /\ Called("WriteFile")
        /\ Settle(s.w, f, [ghost.owed[f] EXCEPT !.data = data], s.taken, s.err, FALSE)
        /\ UNCHANGED handles

Chmod(f, mode) ==
    /\ Called("Chmod")
    /\ Settle(writeInode(v, f, <<[inodeOf(f)[1] EXCEPT !.mode = mode], inodeOf(f)[2]>>),
              f, [ghost.owed[f] EXCEPT !.mode = mode], <<>>, FALSE, FALSE)
    /\ UNCHANGED handles

OpenFile(f, trunc, append) ==
    LET in == IF trunc THEN <<[inodeOf(f)[1] EXCEPT !.size = 0], inodeOf(f)[2]>> ELSE inodeOf(f)
    IN  /\ Called("OpenFile") /\ Len(handles) < MaxHandles
        /\ handles' = Append(handles, [ino |-> f, in |-> in, off |-> IF append THEN in[1].size ELSE 0])
        /\ IF trunc THEN Settle(writeInode(v, f, in), f, [ghost.owed[f] EXCEPT !.data = <<>>], <<>>, FALSE, FALSE)
           ELSE calls' = calls + 1 /\ UNCHANGED <<disk, log, kernel, v, ghost, caller>>

\* The handle's own copy of the inode is what is written, and is read again afterwards.
Write(h, data) ==
    LET f == handles[h].ino
        s == writeFileRange(disk, v, f, handles[h].in, handles[h].off, data)
    IN  /\ Called("Write") /\ handles[h].off + Len(data) <= MaxLen
        /\ Settle(s.w, f, [ghost.owed[f] EXCEPT !.data = Splice(@, handles[h].off, data)], s.taken,
                  s.err, handles[h].in # inodeOf(f))
        /\ handles' = [handles EXCEPT ![h].off = @ + s.n, ![h].in = readRawInode(disk, s.w, f)]

Seek(h, end) ==
    /\ Called("Seek")
    /\ handles' = [handles EXCEPT ![h].off = IF end THEN handles[h].in[1].size ELSE 0]
    /\ handles' # handles
    /\ calls' = calls + 1
    /\ UNCHANGED <<disk, log, kernel, v, ghost, caller>>

ascending(S) == [i \in 1..Cardinality(S) |-> CHOOSE b \in S : Cardinality({c \in S : c < b}) = i - 1]

Unmount ==
    LET w == flushInodes(disk, v)
        keys == ascending(DOMAIN w.dirty)
    IN  /\ Called("Unmount")
        /\ v' = [w EXCEPT !.inodes = <<>>, !.queue = keys]
        /\ calls' = calls + 1
        /\ ghost' = IF keys = <<>> THEN [ghost EXCEPT !.unsaved = {}] ELSE ghost
        /\ UNCHANGED <<disk, log, kernel, handles, caller>>

\* One block of the flush is written and leaves the cache.
FlushBlock ==
    LET b == Head(v.queue)
        last == Len(v.queue) = 1
    IN  /\ v.queue # <<>>
        /\ disk' = [disk EXCEPT ![b] = v.dirty[b]]
        /\ v' = [v EXCEPT !.queue = Tail(@), !.dirty = [x \in DOMAIN @ \ {b} |-> @[x]]]
        /\ ghost' = [ghost EXCEPT !.taken = {ag \in @ : Header(ag) # b}, !.partial = ~last,
                                  !.unsaved = IF last THEN {} ELSE @]
        /\ UNCHANGED <<log, kernel, handles, caller, calls>>

\* A failed write ends the flush; what is not written stays in the cache.
FlushFails ==
    /\ v.queue # <<>> /\ "fail" \in caller.uses
    /\ v' = [v EXCEPT !.queue = <<>>]
    /\ UNCHANGED <<disk, log, kernel, handles, ghost, caller, calls>>

\* The caller has no more to do.
Done == v.open /\ v.queue = <<>> /\ calls = caller.calls /\ UNCHANGED vars

-----------------------------------------------------------------------------
\* The image: the metadata block and a file of one block in group 0.
First == Sets!Min(Files)

Image ==
    [b \in Blocks |->
        IF b \in {Header(ag) : ag \in AGs} THEN <<caller.fllast[b \div AgBlocks + 1], 0>>
        ELSE IF b % AgBlocks = 1
             THEN [j \in Unit |-> IF inodePhysBlock(First) = b /\ inodeUnit(First) = j
                                  THEN <<[mode |-> 0, size |-> 2, nextents |-> 1], <<<<0, 3>>>>>>
                                  ELSE <<[mode |-> 0, size |-> 0, nextents |-> 0], <<>>>>]
             ELSE IF b = 3 THEN <<11, 12>> ELSE <<0, 0>>]

Init ==
    /\ caller \in Callers
    /\ disk = Image
    /\ log = <<[tail |-> 1, ops |-> <<[kind |-> "unmount"]>>]>>
    /\ kernel = [mounted |-> TRUE, mem |-> Image, meta |-> TRUE,
                 dirty |-> [it \in Items |-> {}], at |-> [it \in Items |-> 0]]
    /\ v = Closed
    /\ handles = <<>>
    /\ ghost = [was |-> Image, owed |-> [f \in Files |-> [mode |-> 0, data |-> <<>>]], harmed |-> {}, edited |-> {},
                unsaved |-> {}, taken |-> {}, doubt |-> {}, partial |-> FALSE, meta |-> TRUE]
    /\ calls = 0

Next ==
    \/ \E f \in Files : KernelChmod(f) \/ KernelAppend(f)
    \/ \E j \in Unit : KernelMeta(j)
    \/ \E more \in 0..1 : KernelFree(more)
    \/ \E it \in Items : KernelWriteBack(it)
    \/ KernelUnmount
    \/ Open
    \/ \E f \in Files, data \in caller.data : WriteFile(f, data)
    \/ \E f \in Files : Chmod(f, 99)
    \/ \E f \in Files, t, a \in BOOLEAN : OpenFile(f, t, a)
    \/ \E h \in DOMAIN handles, data \in caller.data : Write(h, data)
    \/ \E h \in DOMAIN handles, e \in BOOLEAN : Seek(h, e)
    \/ Unmount
    \/ FlushBlock
    \/ FlushFails
    \/ Done

Spec == Init /\ [][Next]_vars

-----------------------------------------------------------------------------


\* No block belongs to two places of files, to a file and the metadata, or to a header or
\* inode block as well (allocBlock, flush): except in a group from which a second block was
\* taken before its header was written, whose header in the log is not the one on the disk,
\* which has one of its last agf_fllast blocks in use, where the driver takes all for free,
\* or whose header an interrupted flush did not reach.
NoSharedBlock ==
    v.open => \A pl \in SharedPlaces(disk, v) : blockAt(disk, v, pl) \div AgBlocks \in ghost.doubt
=============================================================================
