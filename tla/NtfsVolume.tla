----------------------------- MODULE NtfsVolume -----------------------------
(***************************************************************************)
(* A mounted NTFS volume used by one goroutine (ntfs/write.go, alloc.go,   *)
(* read.go, flush.go): MFT records, clusters, directory indexes and open   *)
(* handles.                                                                *)
(*                                                                         *)
(* MFT records, file data and INDX blocks are written to the disk at once, *)
(* the two bitmaps only by Unmount.  Any write may fail, which ends the    *)
(* call where it is: v.io is the number of writes that still succeed       *)
(* before one fails, chosen anew for every call.                           *)
(*                                                                         *)
(* Names all have one length.  A directory's record holds v.rootCap of     *)
(* them in its $INDEX_ROOT; beyond, they move to INDX blocks of BlockCap.  *)
(* A cluster has the size of an INDX block.  What the driver writes and    *)
(* never reads (link count, parent reference, times) is left out.          *)
(***************************************************************************)
EXTENDS Integers, Sequences, FiniteSets, TLC

Seqs == INSTANCE SequencesExt
Sets == INSTANCE FiniteSetsExt

CONSTANTS Names,       \* file names
          NumClusters, \* clusters of the volume that are not the file system's own
          MaxRec,      \* bound on MFT record numbers
          BlockCap,    \* entries per INDX block
          MaxRuns,     \* runs of an attribute a record has room for
          Contents,    \* what callers write: [id, n], n the number of clusters
          MaxHandles,  \* bound on open handles
          Callers      \* what callers use: methods, names, a bound on the calls and on the
                       \* depth of paths, after how many writes one fails, and the
                       \* room in a directory's record and in $MFT's $BITMAP

Root == 5                      \* recRoot
FirstUser == 12                \* records below are the file system's own
Recs == {Root} \cup (FirstUser..MaxRec)
Clusters == 1..NumClusters     \* cluster 0 is the boot sector's

ASSUME NtfsAssumption ==
    /\ NumClusters \in Nat \ {0} /\ BlockCap \in Nat \ {0} /\ MaxRuns \in Nat \ {0}
    /\ MaxRec \in Nat /\ MaxRec >= FirstUser
    /\ MaxHandles \in Nat
    /\ \A d \in Contents : d.n \in Nat
    /\ \A c \in Callers : /\ c.calls \in Nat /\ c.io \subseteq Nat /\ c.rootCap \in Nat \ {0}
                         /\ c.mftRoom \in Nat /\ c.mftRoom >= FirstUser
                         /\ c.names \subseteq Names

VARIABLES v,        \* the volume
          handles,  \* open *ntfsFile that write
          caller,   \* the caller of this behaviour
          calls,    \* number of calls so far
          ret       \* the last call, its outcome and what it was about

vars == <<v, handles, caller, calls, ret>>

-----------------------------------------------------------------------------
(***************************************************************************)
(* Clusters and records.  A cluster holds a part of a file's data or an    *)
(* INDX block; data is resident (val) or lies in clusters (cs).            *)
(***************************************************************************)
chunk(d, i) == [id |-> d.id, part |-> i, ents |-> <<>>]
indx(ents)  == [id |-> "INDX", part |-> 0, ents |-> ents]
Raw         == [id |-> "raw", part |-> 0, ents |-> <<>>]

parts(d) == [i \in 1..d.n |-> chunk(d, i)]
NoData == [val |-> <<>>, cs |-> <<>>]

newRecord(isDir) == [use |-> TRUE, dir |-> isDir, data |-> NoData, root |-> <<>>, ia |-> <<>>]
NoRecord == [newRecord(FALSE) EXCEPT !.use = FALSE]

\* Mutant of withData: the old $DATA is not removed, and found first.
withData_KeepsOld(r, val, cs) ==
    IF r.data # NoData THEN r ELSE [r EXCEPT !.data = [val |-> val, cs |-> cs]]

\* A record with other data, or with another index: attributes are removed and
\* appended.
withData(r, val, cs)   == [r EXCEPT !.data = [val |-> val, cs |-> cs]]
withIndex(r, root, ia) == [r EXCEPT !.root = root, !.ia = ia]

entry(name, num) == [name |-> name, num |-> num]

Init ==
    /\ caller \in Callers
    /\ v = [rec     |-> [n \in Recs |-> IF n = Root THEN newRecord(TRUE) ELSE NoRecord],
            mft     |-> {Root},
            bitmap  |-> {},
            cl      |-> [c \in Clusters |-> Raw],
            dirty   |-> FALSE,
            disk    |-> [bitmap |-> {}, mft |-> {Root}],
            rootCap |-> caller.rootCap,
            mftRoom |-> caller.mftRoom,
            io      |-> 0,
            freed   |-> {},
            lost    |-> FALSE]
    /\ handles = <<>>
    /\ calls = 0
    /\ ret = [call |-> "Open", path |-> <<>>, ok |-> TRUE, names |-> {}, recs |-> {}, data |-> <<>>]

did(V)    == [ok |-> TRUE,  v |-> V]
failed(V) == [ok |-> FALSE, v |-> V]

\* The outcome r of one part of a call, and the part that follows it.
then(r, Rest(_)) == IF r.ok THEN Rest(r.v) ELSE failed(r.v)

\* The runs a list of clusters is coded as.
runsOf(cs) == Cardinality({i \in 1..Len(cs) : i = 1 \/ cs[i] # cs[i - 1] + 1})

\* A record that has outgrown its slot is refused.
putRecord(V, n, r) ==
    IF runsOf(r.data.cs) > MaxRuns \/ runsOf(r.ia) > MaxRuns \/ V.io = 0
    THEN failed(V)
    ELSE did([V EXCEPT !.rec[n] = r, !.dirty = TRUE, !.io = @ - 1, !.freed = {}])

\* Writes blks to the clusters cs, one after another, until a write fails.
writeClusters(V, cs, blks) ==
    LET k == IF V.io < Len(cs) THEN V.io ELSE Len(cs)
    IN  [ok |-> k = Len(cs),
         v  |-> [V EXCEPT !.io = @ - k,
                          !.cl = [c \in Clusters |->
                                     IF \E i \in 1..k : cs[i] = c
                                     THEN blks[CHOOSE i \in 1..k : cs[i] = c] ELSE @[c]]]]

-----------------------------------------------------------------------------
(***************************************************************************)
(* Allocation.                                                             *)
(***************************************************************************)
freeClusters(V) == Clusters \ V.bitmap

\* Free clusters are found in ascending order.
nthFree(V, i) ==
    CHOOSE c \in freeClusters(V) : Cardinality({b \in freeClusters(V) : b < c}) = i - 1

taken(V, cs) == [V EXCEPT !.bitmap = @ \cup Seqs!ToSet(cs), !.dirty = @ \/ cs # <<>>]

\* Mutant of allocContiguousClusters: the run may go on into a used cluster.
allocContiguousClusters_ShortRun(V, n) ==
    LET starts == {s \in freeClusters(V) : s + n - 1 <= NumClusters}
        cs     == [i \in 1..n |-> Sets!Min(starts) + i - 1]
    IN  IF n = 0 \/ starts = {} THEN [ok |-> n = 0, v |-> V, cs |-> <<>>]
        ELSE [ok |-> TRUE, v |-> taken(V, cs), cs |-> cs]

\* n clusters: the first run that is long enough, else the n first free ones.
\* When there are not enough, those already taken stay taken.
allocContiguousClusters(V, n) ==
    LET free   == [i \in 1..Cardinality(freeClusters(V)) |-> nthFree(V, i)]
        starts == {s \in freeClusters(V) : s..(s + n - 1) \subseteq freeClusters(V)}
        cs     == IF starts # {} THEN [i \in 1..n |-> Sets!Min(starts) + i - 1]
                  ELSE SubSeq(free, 1, n)
    IN  IF n = 0 THEN [ok |-> TRUE, v |-> V, cs |-> <<>>]
        ELSE IF Len(free) < n THEN [ok |-> FALSE, v |-> taken(V, free), cs |-> <<>>]
        ELSE [ok |-> TRUE, v |-> taken(V, cs), cs |-> cs]

\* freed is a history variable: the clusters freed while the record that lists
\* them is still as it was.
freeRuns(V, cs) ==
    [V EXCEPT !.bitmap = @ \ Seqs!ToSet(cs),
              !.dirty = @ \/ cs # <<>>,
              !.freed = @ \cup Seqs!ToSet(cs)]

\* The blocks blks on new clusters: [ok, v, cs].
allocAndWrite(V, blks) ==
    LET outcome(w, cs) == [ok |-> w.ok, v |-> w.v, cs |-> cs]
        written(a) == IF a.ok THEN outcome(writeClusters(a.v, a.cs, blks), a.cs) ELSE a
    IN  written(allocContiguousClusters(V, Len(blks)))

freeRecs(V) == (FirstUser..MaxRec) \ V.mft

\* The record that will be found, and the finding of it.
nextRec(V) == Sets!Min(freeRecs(V))

allocMFTRecord(V) == [V EXCEPT !.mft = @ \cup {nextRec(V)}, !.dirty = TRUE]

-----------------------------------------------------------------------------
(***************************************************************************)
(* Directories and paths.  A lookup gives a record number, NotExist, or    *)
(* Error when something on the way is not a directory.                     *)
(***************************************************************************)
NotExist == 0
Error == -1

\* $INDEX_ROOT, then the INDX blocks in order; a cluster without an INDX block
\* is passed over.
readDirEntries(V, num) ==
    LET r == V.rec[num]
    IN  r.root \o Seqs!FlattenSeq([i \in 1..Len(r.ia) |-> V.cl[r.ia[i]].ents])

firstNamed(ents, name) ==
    LET hits == {i \in 1..Len(ents) : ents[i].name = name}
    IN  IF hits = {} THEN NotExist ELSE ents[Sets!Min(hits)].num

lookupInDir(V, num, name) ==
    IF V.rec[num].dir THEN firstNamed(readDirEntries(V, num), name) ELSE Error

lookupPath(V, p) ==
    LET upTo[k \in 0..Len(p)] ==
            IF k = 0 THEN Root
            ELSE LET num == upTo[k - 1] IN IF num <= 0 THEN num ELSE lookupInDir(V, num, p[k])
    IN  upTo[Len(p)]

parent(V, p) == lookupPath(V, Seqs!Front(p))

readFile(V, num) ==
    LET data == V.rec[num].data
    IN  IF data.cs = <<>> THEN data.val ELSE [i \in 1..Len(data.cs) |-> V.cl[data.cs[i]]]

\* Entries in INDX blocks, each filled before the next one.
packed(ents) ==
    [b \in 1..((Len(ents) + BlockCap - 1) \div BlockCap) |->
        indx(SubSeq(ents, (b - 1) * BlockCap + 1,
                    IF b * BlockCap < Len(ents) THEN b * BlockCap ELSE Len(ents)))]

spillToIndexAlloc(V, dir, ents) ==
    LET listed(a) == then(a, LAMBDA W : putRecord(W, dir, withIndex(W.rec[dir], <<>>, a.cs)))
    IN  listed(allocAndWrite(V, packed(ents)))

\* Mutant of saved: the first block is not rewritten.
saved_SkipsFirst(V, ia, e) ==
    [i \in 1..(Len(ia) + 1) |-> IF i = 1 THEN Raw ELSE IF i <= Len(ia) THEN V.cl[ia[i]] ELSE indx(<<e>>)]

\* The blocks as they are before their clusters are freed, and one for the entry.
saved(V, ia, e) ==
    [i \in 1..(Len(ia) + 1) |-> IF i <= Len(ia) THEN V.cl[ia[i]] ELSE indx(<<e>>)]

\* All blocks in a new place, and a new block for the entry.
repackIndexAlloc(V, ia, e) == allocAndWrite(freeRuns(V, ia), saved(V, ia, e))

mergeRuns(ia, cs) == ia \o cs

addEntryToINDXBlock(block, e) == indx(Append(block.ents, e))

\* The last block takes the entry if it has room, else a new block does; all
\* blocks are repacked when their runs would outgrow the directory's record.
appendEntryToIndexAlloc(V, dir, e) ==
    LET r    == V.rec[dir]
        last == V.cl[Seqs!Last(r.ia)]
        listed(W, ia) == putRecord(W, dir, withIndex(r, r.root, ia))
        repacked(a)   == then(a, LAMBDA W : listed(W, a.cs))
        grown(a, ia)  ==
            IF ~a.ok THEN failed(a.v)
            ELSE IF runsOf(ia) > MaxRuns THEN repacked(repackIndexAlloc(freeRuns(a.v, a.cs), r.ia, e))
            ELSE then(writeClusters(a.v, a.cs, <<indx(<<e>>)>>), LAMBDA W : listed(W, ia))
        withBlock(a)  == grown(a, mergeRuns(r.ia, a.cs))
    IN  IF last.id = "INDX" /\ Len(last.ents) < BlockCap
        THEN writeClusters(V, <<Seqs!Last(r.ia)>>, <<addEntryToINDXBlock(last, e)>>)
        ELSE withBlock(allocContiguousClusters(V, 1))

\* The record still fits its slot with one more entry.
rootHasRoom(V, dir) == Len(V.rec[dir].root) < V.rootCap

addDirEntry(V, dir, name, num) ==
    LET r == V.rec[dir]
        e == entry(name, num)
    IN  IF ~r.dir THEN failed(V)
        ELSE IF r.ia # <<>> THEN appendEntryToIndexAlloc(V, dir, e)
        ELSE IF rootHasRoom(V, dir) THEN putRecord(V, dir, withIndex(r, Append(r.root, e), <<>>))
        ELSE spillToIndexAlloc(V, dir, Append(r.root, e))

\* deleteIndexEntry: the first entry with the name.
withoutEntry(ents, name) ==
    LET hits == {i \in 1..Len(ents) : ents[i].name = name}
    IN  IF hits = {} THEN ents ELSE Seqs!RemoveAt(ents, Sets!Min(hits))

\* Only $INDEX_ROOT is searched: in a directory that has spilled nothing is
\* removed, and nothing said of it.  lost records that a name was left behind.
removeDirEntry(V, p) ==
    LET inDir(dir, r) ==
            IF ~r.dir THEN did(V)
            ELSE putRecord([V EXCEPT !.lost = @ \/ r.ia # <<>>], dir,
                           withIndex(r, withoutEntry(r.root, Seqs!Last(p)), r.ia))
        removed(dir) == IF dir <= 0 THEN failed(V) ELSE inDir(dir, V.rec[dir])
    IN  removed(parent(V, p))

-----------------------------------------------------------------------------
(***************************************************************************)
(* Files.                                                                  *)
(***************************************************************************)

\* The record nextRec(V) is written before the directory entry.
createEntry(V, p, isDir) ==
    LET inDir(dir, num) ==
            IF dir <= 0 THEN failed(V)
            ELSE then(putRecord(allocMFTRecord(V), num, newRecord(isDir)), LAMBDA W :
                      addDirEntry(W, dir, Seqs!Last(p), num))
    IN  inDir(parent(V, p), nextRec(V))

\* The old contents are dropped from the record; their clusters stay taken.
writeFileData(V, num, d, resident) ==
    LET r == V.rec[num]
        listed(a) == then(a, LAMBDA W : putRecord(W, num, withData(r, <<>>, a.cs)))
    IN  IF resident THEN putRecord(V, num, withData(r, parts(d), <<>>))
        ELSE listed(allocAndWrite(V, parts(d)))

writeFile(V, p, d, resident) ==
    LET write(W, num) == IF W.rec[num].dir THEN failed(W) ELSE writeFileData(W, num, d, resident)
        named(num) == CASE num = NotExist -> then(createEntry(V, p, FALSE), LAMBDA W : write(W, nextRec(V)))
                        [] num = Error    -> failed(V)
                        [] num > 0        -> write(V, num)
    IN  named(lookupPath(V, p))

truncateFile(V, num) ==
    putRecord(freeRuns(V, V.rec[num].data.cs), num, withData(V.rec[num], <<>>, <<>>))

mkdir(V, p) == IF lookupPath(V, p) > 0 THEN failed(V) ELSE createEntry(V, p, TRUE)

\* One directory after another, from the top.
mkdirAll(V, p) ==
    LET made(W, q) == IF lookupPath(W, q) > 0 THEN did(W) ELSE mkdir(W, q)
        upTo[k \in 0..Len(p)] ==
            IF k = 0 THEN did(V) ELSE then(upTo[k - 1], LAMBDA W : made(W, SubSeq(p, 1, k)))
    IN  upTo[Len(p)]

\* The names a record has.
namesOf(V, num) ==
    UNION {{<<d, i>> : i \in {j \in 1..Len(readDirEntries(V, d)) : readDirEntries(V, d)[j].num = num}} :
           d \in {n \in Recs : V.rec[n].use}}

\* The record is marked as not in use, then its bit is cleared.
freeRecord(V, num) ==
    then(putRecord(freeRuns(V, V.rec[num].data.cs), num, [V.rec[num] EXCEPT !.use = FALSE]), LAMBDA W :
         did([W EXCEPT !.mft = @ \ {num}, !.dirty = TRUE]))

\* Mutant of unlinkEntry: the name is not removed.
unlinkEntry_KeepsName(V, num, p) == freeRecord(V, num)

\* The link count is not looked at, and the record is free before the name is
\* gone.  lost records that a name is left, another one or, if that failed, this.
unlinkEntry(V, num, p) ==
    LET unnamed(r) ==
            [ok |-> r.ok,
             v  |-> [r.v EXCEPT !.lost = @ \/ ~r.ok \/ \E x, y \in namesOf(V, num) : x # y]]
    IN  then(freeRecord(V, num), LAMBDA W : unnamed(removeDirEntry(W, p)))

remove(V, p) ==
    LET removed(num) ==
            IF num <= 0 \/ (V.rec[num].dir /\ readDirEntries(V, num) # <<>>) THEN failed(V)
            ELSE unlinkEntry(V, num, p)
    IN  removed(lookupPath(V, p))

\* RemoveAll of a name without children.
removeLeaf(V, p) ==
    LET removed(num) == CASE num = NotExist -> did(V)
                          [] num = Error    -> failed(V)
                          [] num > 0        -> unlinkEntry(V, num, p)
    IN  removed(lookupPath(V, p))

\* The children as they were read at the beginning, then the name itself.
removeAll(V, p) ==
    LET kids(num)  == IF num > 0 /\ V.rec[num].dir THEN readDirEntries(V, num) ELSE <<>>
        each(ents) ==
            LET upTo[k \in 0..Len(ents)] ==
                    IF k = 0 THEN did(V)
                    ELSE then(upTo[k - 1], LAMBDA W : removeLeaf(W, Append(p, ents[k].name)))
            IN  upTo[Len(ents)]
    IN  then(each(kids(lookupPath(V, p))), LAMBDA W : removeLeaf(W, p))

\* The rest of a call that names a new directory entry, if its directory exists.
inParent(V, p, Rest(_)) ==
    LET inDir(dir) == IF dir <= 0 THEN failed(V) ELSE Rest(dir)
    IN  inDir(parent(V, p))

\* A record is read, changed and written, then entered under the path.
rewrittenIn(V, num, dir, p) ==
    then(putRecord(V, num, V.rec[num]), LAMBDA W : addDirEntry(W, dir, Seqs!Last(p), num))

\* The old entry goes first; the new name may exist already.
rename(V, o, n) ==
    LET moved(num) ==
            IF num <= 0 THEN failed(V)
            ELSE then(removeDirEntry(V, o), LAMBDA W :
                 inParent(W, n, LAMBDA dir : rewrittenIn(W, num, dir, n)))
    IN  moved(lookupPath(V, o))

symlink(V, p) ==
    then(createEntry(V, p, FALSE), LAMBDA W : putRecord(W, nextRec(V), W.rec[nextRec(V)]))

link(V, o, p) ==
    LET linked(num) ==
            IF num <= 0 THEN failed(V)
            ELSE inParent(V, p, LAMBDA dir : rewrittenIn(V, num, dir, p))
    IN  linked(lookupPath(V, o))

chmod(V, p) ==
    LET changed(num) == IF num <= 0 THEN failed(V) ELSE putRecord(V, num, V.rec[num])
    IN  changed(lookupPath(V, p))

\* The part of the MFT bitmap that $BITMAP has room for, in the record of $MFT or
\* in its clusters.  The rest is dropped, and nothing said of it.
fitting(V) == {n \in V.mft : n < V.mftRoom}

\* Mutant of unmount: the volume counts as clean before the last write.
unmount_CleanFirst(V) ==
    LET w1 == [V EXCEPT !.disk.bitmap = V.bitmap, !.io = @ - 1, !.dirty = FALSE]
    IN  CASE ~V.dirty -> did(V)
          [] V.dirty /\ V.io = 0 -> failed(V)
          [] V.dirty /\ V.io = 1 -> failed(w1)
          [] OTHER -> did([w1 EXCEPT !.disk.mft = fitting(V)])

\* Cluster bitmap, MFT bitmap, volume flags: three writes, then the volume is
\* clean, whether or not all of the MFT bitmap was written.
unmount(V) ==
    LET w1 == [V EXCEPT !.disk.bitmap = V.bitmap, !.io = @ - 1]
        w2 == [w1 EXCEPT !.disk.mft = fitting(V), !.io = @ - 1]
    IN  CASE ~V.dirty -> did(V)
          [] V.dirty /\ V.io = 0 -> failed(V)
          [] V.dirty /\ V.io = 1 -> failed(w1)
          [] V.dirty /\ V.io = 2 -> failed(w2)
          [] OTHER -> did([w2 EXCEPT !.dirty = FALSE])

-----------------------------------------------------------------------------
(***************************************************************************)
(* The calls.  Callers respect rules the driver does not enforce: what is  *)
(* linked, opened or written is not a directory, and a directory is not    *)
(* moved or written into when that would make paths of three names.        *)
(*                                                                         *)
(* lost is set where the driver itself breaks its structures, and no call  *)
(* is examined after it: a write fails between freeing clusters and        *)
(* writing the record that listed them, a record is freed while a name of  *)
(* it is left (hard links, spilled directories, a failed removal), or the  *)
(* volume is opened with bitmaps that are behind: the process died before  *)
(* Unmount had written them, or the MFT bitmap did not fit.                *)
(***************************************************************************)
Paths == {<<n>> : n \in caller.names}
         \cup (IF caller.depth > 1 THEN {<<d, n>> : d, n \in caller.names} ELSE {})

ready(call) == calls < caller.calls /\ call \in caller.uses /\ ~v.lost

roomForRecords(n) == Cardinality(freeRecs(v)) >= n

target(V, p) == <<parent(V, p), Seqs!Last(p)>>

isDirRecord(num) == num > 0 /\ v.rec[num].dir
isDirectory(p) == isDirRecord(lookupPath(v, p))

\* The outcome of a call, the names it was about and the records it may write
\* data to.
returns(call, p, r, names, recs, data) ==
    /\ v' = [r.v EXCEPT !.io = 0, !.freed = {}, !.lost = @ \/ r.v.freed # {}]
    /\ calls' = calls + 1
    /\ UNCHANGED caller
    /\ ret' = [call |-> call, path |-> p, ok |-> r.ok, names |-> names, recs |-> recs, data |-> data]

\* The volume as a call finds it, with k writes to come that succeed.
with(k) == [v EXCEPT !.io = k]

WriteFile(p, d, resident, k) ==
    /\ ready("WriteFile") /\ roomForRecords(1)
    /\ returns("WriteFile", p, writeFile(with(k), p, d, resident), {target(v, p)},
               {lookupPath(v, p)}, parts(d))
    /\ UNCHANGED handles

Mkdir(p, k) ==
    /\ ready("Mkdir") /\ roomForRecords(1)
    /\ returns("Mkdir", p, mkdir(with(k), p), {target(v, p)}, {}, <<>>)
    /\ UNCHANGED handles

MkdirAll(p, k) ==
    /\ ready("MkdirAll") /\ roomForRecords(2)
    /\ returns("MkdirAll", p, mkdirAll(with(k), p), {target(v, <<p[1]>>), target(v, p)}, {}, <<>>)
    /\ UNCHANGED handles

Remove(p, k) ==
    /\ ready("Remove")
    /\ returns("Remove", p, remove(with(k), p), {target(v, p)}, {}, <<>>)
    /\ UNCHANGED handles

RemoveAll(p, k) ==
    /\ ready("RemoveAll")
    /\ returns("RemoveAll", p, removeAll(with(k), p),
               {target(v, p)} \cup {target(v, Append(p, n)) : n \in Names}, {}, <<>>)
    /\ UNCHANGED handles

Rename(o, p, k) ==
    /\ ready("Rename")
    /\ isDirectory(o) => Len(p) = 1
    /\ LET renamed(r) ==
               returns("Rename", p, r, {target(v, o), target(v, p), target(r.v, p)}, {}, <<>>)
       IN  renamed(rename(with(k), o, p))
    /\ UNCHANGED handles

Symlink(p, k) ==
    /\ ready("Symlink") /\ roomForRecords(1)
    /\ returns("Symlink", p, symlink(with(k), p), {target(v, p)}, {}, <<>>)
    /\ UNCHANGED handles

Link(o, p, k) ==
    /\ ready("Link") /\ ~isDirectory(o)
    /\ returns("Link", p, link(with(k), o, p), {target(v, p)}, {}, <<>>)
    /\ UNCHANGED handles

\* Chmod and Chtimes: a record is read, changed and written.
Chmod(p, k) ==
    /\ ready("Chmod")
    /\ returns("Chmod", p, chmod(with(k), p), {}, {}, <<>>)
    /\ UNCHANGED handles

\* OpenFile for writing; Create is OpenFile with O_CREATE and O_TRUNC.  The
\* outcome has the record's number, that of a new file too.
openFile(V, p, num, create, trunc) ==
    LET opened(W, n) == [ok |-> TRUE, v |-> W, num |-> n]
    IN  CASE num = NotExist /\ create -> then(createEntry(V, p, FALSE), LAMBDA W : opened(W, nextRec(V)))
          [] num > 0 /\ trunc -> then(truncateFile(V, num), LAMBDA W : opened(W, num))
          [] num > 0 /\ ~trunc -> opened(V, num)
          [] OTHER -> failed(V)

OpenFile(p, create, trunc, k) ==
    LET opened(num, r) ==
            /\ handles' = IF r.ok THEN Append(handles, [num |-> r.num, buf |-> {}]) ELSE handles
            /\ returns("OpenFile", p, r, {target(v, p)}, {num}, <<>>)
        named(num) == opened(num, openFile(with(k), p, num, create, trunc))
    IN  /\ ready("OpenFile") /\ ~isDirectory(p) /\ roomForRecords(1)
        /\ Len(handles) < MaxHandles
        /\ named(lookupPath(v, p))

\* ntfsFile.Write: writeBuf starts empty and never shrinks; it is all the file
\* will hold.
Write(h, d) ==
    /\ ready("Write") /\ d.n > 0
    /\ \A b \in handles[h].buf : b.n <= d.n
    /\ handles' = [handles EXCEPT ![h].buf = {d}]
    /\ returns("Write", <<>>, did(v), {}, {}, <<>>)

Close(h, resident, k) ==
    LET f == handles[h]
        d == CHOOSE b \in f.buf : TRUE
    IN  /\ ready("Close")
        /\ \/ /\ f.buf = {}
              /\ resident
              /\ returns("Close", <<>>, did(v), {}, {}, <<>>)
           \/ /\ f.buf # {}
              /\ d.n > 1 => ~resident
              /\ returns("Close", <<>>, writeFileData(with(k), f.num, d, resident), {}, {f.num}, <<>>)
        /\ handles' = Seqs!RemoveAt(handles, h)

Unmount(k) ==
    /\ ready("Unmount")
    /\ returns("Unmount", <<>>, unmount(with(k)), {}, {}, <<>>)
    /\ UNCHANGED handles

\* The process dies and the volume is opened again: the bitmaps are read from
\* the disk.  lost records that they were behind.
Reopen ==
    /\ ready("Reopen")
    /\ returns("Reopen", <<>>,
               did([v EXCEPT !.bitmap = v.disk.bitmap, !.mft = v.disk.mft, !.dirty = FALSE,
                             !.lost = @ \/ v.dirty \/ v.disk.mft # v.mft]),
               {}, {}, <<>>)
    /\ handles' = <<>>

Finished ==
    /\ calls = caller.calls \/ v.lost
    /\ UNCHANGED vars

Next ==
    \/ \E k \in caller.io :
          \/ \E p \in Paths :
                \/ \E d \in Contents, resident \in BOOLEAN :
                      (d.n > 1 => ~resident) /\ WriteFile(p, d, resident, k)
                \/ Mkdir(p, k) \/ MkdirAll(p, k) \/ Remove(p, k) \/ RemoveAll(p, k)
                \/ Symlink(p, k) \/ Chmod(p, k)
                \/ \E o \in Paths : Rename(o, p, k) \/ Link(o, p, k)
                \/ \E create, trunc \in BOOLEAN : OpenFile(p, create, trunc, k)
          \/ \E h \in 1..Len(handles), resident \in BOOLEAN : Close(h, resident, k)
          \/ Unmount(k)
    \/ \E h \in 1..Len(handles), d \in Contents : Write(h, d)
    \/ Reopen
    \/ Finished

Spec == Init /\ [][Next]_vars

-----------------------------------------------------------------------------
(***************************************************************************)
(* Properties.                                                             *)
(***************************************************************************)
inUse(V) == {n \in Recs : V.rec[n].use}

\* The clusters of the records in use, as <<record, attribute, index>>.
owners == {x \in inUse(v) \X {"data", "ia"} \X (1..NumClusters) :
              x[3] <= Len(IF x[2] = "ia" THEN v.rec[x[1]].ia ELSE v.rec[x[1]].data.cs)}
clusterOf(x) == IF x[2] = "ia" THEN v.rec[x[1]].ia[x[3]] ELSE v.rec[x[1]].data.cs[x[3]]

\* Unless lost: a cluster of a record in use is marked in the bitmap and belongs
\* to nothing else, although data, INDX blocks and repacked blocks are allocated
\* and written in separate steps (allocAndWrite, spillToIndexAlloc,
\* repackIndexAlloc), a write of which may fail, and although handles write to
\* records that have been freed and given away since (flushFileWrite).
NoSharedCluster ==
    ~v.lost => \A x \in owners : /\ clusterOf(x) \in v.bitmap
                                 /\ \A y \in owners : clusterOf(x) = clusterOf(y) => x = y

\* Unless lost: every name leads to a record in use that the MFT bitmap will not
\* give away, in all places of a directory's index, also after a creation that
\* failed half way (createEntry, addDirEntry, removeDirEntry).
NamesResolve ==
    ~v.lost => \A d \in inUse(v) : \A e \in Seqs!ToSet(readDirEntries(v, d)) :
                  v.rec[e.num].use /\ e.num \in v.mft

\* While the dirty flag is off the cluster bitmap on the disk is the one in
\* memory, and so is the MFT bitmap as far as $BITMAP has room for it: no call
\* changes one without the flag, and an Unmount that fails half way keeps it, so
\* that the next Unmount does not return at once.  Records beyond that room are
\* in no bitmap on the disk although the volume is clean (flushMFTBitmap).
CleanMeansSaved == ~v.dirty => v.disk = [bitmap |-> v.bitmap, mft |-> fitting(v)]

sameFile(num, is) ==
    /\ is = num
    /\ num = NotExist \/ num \in ret'.recs \/ readFile(v', num) = readFile(v, num)

\* Unless lost: what other names stand for and what their files hold stays: when
\* directories spill, grow and are repacked, when the disk is full, when a write
\* fails, and when a late Close writes.  A Close may change the file that has its
\* handle's record, which is another file once the handle's own was removed and
\* the record given away (flushFileWrite does not look), and no other file.
OthersUntouched ==
    [][v' # v => \A d \in inUse(v) \cap inUse(v'), n \in Names :
          \/ v'.lost \/ <<d, n>> \in ret'.names \/ ~v.rec[d].dir
          \/ sameFile(lookupInDir(v, d, n), lookupInDir(v', d, n))]_vars

holds(V, num, data) == num > 0 /\ readFile(V, num) = data

\* What a WriteFile that returned nil has written is read back under its path.
WriteFileStores ==
    [][calls' > calls /\ ret'.call = "WriteFile" /\ ret'.ok
       => holds(v', lookupPath(v', ret'.path), ret'.data)]_vars
=============================================================================
