------------------------------ MODULE FatVolume ------------------------------
(***************************************************************************)
(* A mounted FAT volume as its callers use it (fat32/write.go,             *)
(* fat32/read.go): directories of 32-byte slots with long-name slots,      *)
(* cluster chains, whole-file handles.                                     *)
(*                                                                         *)
(* Every method holds v.mu, so a call is one step.  Handles (fatFile) keep *)
(* a copy of the directory entry and the whole file between calls, and     *)
(* write both back on Close.  The FAT and every cluster are staged in      *)
(* memory; what can fail is finding room.  The fixed root directory of     *)
(* FAT12/16 is one sector, staged like the clusters but read back from the *)
(* disk by the methods that change it.                                     *)
(*                                                                         *)
(* A name in LongNames takes a long-name slot before its short entry; the  *)
(* others are upper-case 8.3 names.  Names differ in more than case.       *)
(* Sizes are in clusters.                                                  *)
(***************************************************************************)
EXTENDS FatTable, FiniteSets

Seqs == INSTANCE SequencesExt

CONSTANTS Names,         \* names, and those that need a long-name slot
          LongNames,
          Slots,         \* slots per directory cluster
          FixedRoot,     \* FAT12/16?
          MaxSize,       \* bound on the size of a file
          MaxHandles,    \* bound on open handles
          Callers        \* what callers may use: methods, names, a bound on the calls

ASSUME VolumeAssumption ==
    /\ LongNames \subseteq Names
    /\ Slots \in Nat /\ Slots >= 3
    /\ FixedRoot \in BOOLEAN
    /\ MaxSize \in Nat /\ MaxHandles \in Nat
    /\ \A c \in Callers : c.names \subseteq Names /\ c.calls \in Nat

VARIABLES v,        \* the volume: [fat, clus, disk, root]
          handles,  \* open *fatFile
          caller,   \* the caller of this behaviour
          calls,    \* number of calls so far
          ret       \* the last call and its outcome

vars == <<v, handles, caller, calls, ret>>

Paths == {<<n>> : n \in caller.names} \cup {<<d, n>> : d, n \in caller.names}

End     == [k |-> "end"]                       \* 0x00
Deleted == [k |-> "del"]                       \* 0xE5
lfn(name) == [k |-> "lfn", name |-> name]
short(name, dir, cluster, size) ==
    [k |-> "short", name |-> name, dir |-> dir, cluster |-> cluster, size |-> size]

EmptyCluster == [i \in 1..Slots |-> End]
NotStaged == <<>>

RootCluster == IF FixedRoot THEN 0 ELSE 2

\* An empty volume: `disk' is the fixed root on the disk, `root' its staged sector.
Init ==
    /\ v = [fat  |-> [c \in Clusters |-> IF c = RootCluster THEN EOC ELSE Free],
            clus |-> [c \in Clusters |-> EmptyCluster],
            disk |-> EmptyCluster,
            root |-> NotStaged]
    /\ handles = <<>>
    /\ caller \in Callers
    /\ calls = 0
    /\ ret = [call |-> "none", path |-> <<>>, ok |-> TRUE, about |-> {}]

-----------------------------------------------------------------------------
(***************************************************************************)
(* Reading directories and paths.                                          *)
(***************************************************************************)

\* The places of a directory, <<cluster, slot>>, in the order they are read.
slotsOf(cs) == Seqs!FlattenSeq([j \in 1..Len(cs) |-> [i \in 1..Slots |-> <<cs[j], i>>]])

places(V, dir) == slotsOf(IF dir = 0 THEN <<0>> ELSE clusterChain(V.fat, dir))

slotAt(V, x) ==
    IF x[1] # 0 THEN V.clus[x[1]][x[2]]
    ELSE IF V.root = NotStaged THEN V.disk[x[2]]
    ELSE V.root[x[2]]

Nameless == ""

\* One slot of readDirFromCluster, which reads up to the first slot that was
\* never used; a long name belongs to the next short entry unless a deleted slot
\* comes between.
scanned(s, x, at) ==
    CASE x.k = "end" -> [s EXCEPT !.stop = TRUE]
      [] x.k = "del" -> [s EXCEPT !.long = Nameless]
      [] x.k = "lfn" -> [s EXCEPT !.long = x.name]
      [] OTHER -> LET name == IF s.long = Nameless THEN x.name ELSE s.long
                  IN  [s EXCEPT !.long = Nameless,
                                !.out = Append(@, [name |-> name, e |-> x, at |-> at])]

readDirFromCluster(V, dir) ==
    LET all(ps) ==
            LET upTo[k \in 0..Len(ps)] ==
                    IF k = 0 THEN [stop |-> FALSE, long |-> Nameless, out |-> <<>>]
                    ELSE LET s == upTo[k - 1]
                         IN  IF s.stop THEN s ELSE scanned(s, slotAt(V, ps[k]), ps[k])
            IN  upTo[Len(ps)].out
    IN  all(places(V, dir))

\* The first entry of that name: a sequence of one, or empty.
firstOf(hits) == IF hits = <<>> THEN <<>> ELSE <<hits[1]>>

find(V, dir, name) ==
    firstOf(SelectSeq(readDirFromCluster(V, dir), LAMBDA d : d.name = name))

RootEntry == [name |-> "/", e |-> short("/", TRUE, RootCluster, 0), at |-> <<0, 0>>]

isDirEntry(d) == d # <<>> /\ d[1].e.dir

lookupPath(V, p) ==
    LET upTo[k \in 0..Len(p)] ==
            IF k = 0 THEN <<RootEntry>>
            ELSE LET d == upTo[k - 1]
                 IN  IF isDirEntry(d) THEN find(V, d[1].e.cluster, p[k]) ELSE <<>>
    IN  upTo[Len(p)]

exists(V, p) == lookupPath(V, p) # <<>>
isDir(V, p)  == isDirEntry(lookupPath(V, p))
parentOf(V, p) == lookupPath(V, Seqs!Front(p))

-----------------------------------------------------------------------------
(***************************************************************************)
(* Writing.  [ok, v]: on failure v is what the early return leaves.        *)
(***************************************************************************)
did(V)    == [ok |-> TRUE,  v |-> V]
failed(V) == [ok |-> FALSE, v |-> V]

\* The outcome r of one part of a call, and the part that follows it.
then(r, Rest(_)) == IF r.ok THEN Rest(r.v) ELSE failed(r.v)

\* One slot written, as writeDirEntry and removeDirEntry do: the sector of the
\* fixed root is read from the disk, not from what is staged.
putSlot(V, x, s) ==
    IF x[1] = 0 THEN [V EXCEPT !.root = [V.disk EXCEPT ![x[2]] = s]]
    ELSE [V EXCEPT !.clus[x[1]][x[2]] = s]

isFree(s) == s.k \in {"end", "del"}

\* findFreeSlot: where in these slots `needed' free ones stand together.
runs(slots, needed) ==
    {i \in 1..(Slots - needed + 1) : \A j \in 0..(needed - 1) : isFree(slots[i + j])}

\* Mutant of firstRun: the start of the search is returned.
firstRun_Start(slots, needed) == 1

firstRun(slots, needed) ==
    CHOOSE i \in runs(slots, needed) : \A j \in runs(slots, needed) : i <= j

\* writeEntriesAt
withEntries(slots, i, es) ==
    [j \in 1..Slots |-> IF j \in i..(i + Len(es) - 1) THEN es[j - i + 1] ELSE slots[j]]

entriesFor(e) == IF e.name \in LongNames THEN <<lfn(e.name), e>> ELSE <<e>>

appendToRoot(V, es) ==
    IF runs(V.disk, Len(es)) = {} THEN failed(V)
    ELSE did([V EXCEPT !.root = withEntries(V.disk, firstRun(V.disk, Len(es)), es)])

appendToChain(V, dir, es) ==
    LET extended(r) == [V EXCEPT !.fat = r.fat, !.clus[r.n] = withEntries(EmptyCluster, 1, es)]
        inChain(chain) ==
            LET fits == {i \in DOMAIN chain : runs(V.clus[chain[i]], Len(es)) # {}}
                c    == chain[CHOOSE i \in fits : \A j \in fits : i <= j]
            IN  IF fits # {}
                THEN did([V EXCEPT !.clus[c] = withEntries(@, firstRun(@, Len(es)), es)])
                ELSE IF diskFull(V.fat) THEN failed(V)
                ELSE did(extended(appendCluster(V.fat, chain[Len(chain)])))
    IN  inChain(clusterChain(V.fat, dir))

\* addDirEntry and appendEntryToDir.
addDirEntry(V, dir, e) ==
    IF dir = 0 THEN appendToRoot(V, entriesFor(e)) ELSE appendToChain(V, dir, entriesFor(e))

\* removeDirEntry: the short entry is marked; its long-name slot is not.
removeDirEntry(V, dir, name) ==
    LET marked(hit) == IF hit = <<>> THEN failed(V) ELSE did(putSlot(V, hit[1].at, Deleted))
    IN  marked(find(V, dir, name))

\* The rest of a call in the parent directory of the path, given by its cluster.
inParent(V, p, Rest(_)) ==
    LET inDir(d) == IF d = <<>> THEN failed(V) ELSE Rest(d[1].e.cluster)
    IN  inDir(parentOf(V, p))

\* createFile: an entry without clusters.
createFile(V, p) ==
    inParent(V, p, LAMBDA dir : addDirEntry(V, dir, short(Seqs!Last(p), FALSE, 0, 0)))

\* writeFileData: the chain is cut or grown to the data, the data is written,
\* then the entry, to the slot the entry was read from.
writeFileData(V, d, size) ==
    LET written(r) ==
            [V EXCEPT !.fat = r.fat,
                      !.clus = [c \in Clusters |-> IF c \in Seqs!ToSet(r.chain)
                                                  THEN EmptyCluster ELSE V.clus[c]]]
        stored(r) ==
            IF ~r.ok THEN failed([V EXCEPT !.fat = r.fat])
            ELSE did(putSlot(written(r), d.at, [d.e EXCEPT !.cluster = r.chain[1], !.size = size]))
    IN  stored(resized(V.fat, d.e.cluster, IF size = 0 THEN 1 ELSE size))

\* The entry of the path once it has been created, if it had to be.
writeFile(V, p, size) ==
    LET stored(W, d) == IF d = <<>> THEN failed(W) ELSE writeFileData(W, d[1], size)
    IN  then(IF exists(V, p) THEN did(V) ELSE createFile(V, p), LAMBDA W : stored(W, lookupPath(W, p)))

mkdir(V, p) ==
    LET made(r, dir) == [EmptyCluster EXCEPT ![1] = short(".", TRUE, r.n, 0),
                                             ![2] = short("..", TRUE, dir, 0)]
        entered(r, dir) == addDirEntry([V EXCEPT !.fat = r.fat, !.clus[r.n] = made(r, dir)], dir,
                                       short(Seqs!Last(p), TRUE, r.n, 0))
    IN  inParent(V, p, LAMBDA dir :
            IF diskFull(V.fat) THEN failed(V) ELSE entered(allocCluster(V.fat), dir))

mkdirAll(V, p) ==
    LET upTo[k \in 0..Len(p)] ==
            IF k = 0 THEN did(V)
            ELSE LET q == SubSeq(p, 1, k)
                 IN  then(upTo[k - 1], LAMBDA W : IF exists(W, q) THEN did(W) ELSE mkdir(W, q))
    IN  upTo[Len(p)]

\* remove frees the chain, then marks the entry.  On the root, which has no
\* entry, the second fails.
remove(V, p, allowDir) ==
    LET freed(e) == IF e.cluster >= 2 THEN [V EXCEPT !.fat = freeChain(@, e.cluster)] ELSE V
        marked(W, parent) ==
            removeDirEntry(W, parent[1].e.cluster, IF p = <<>> THEN Nameless ELSE Seqs!Last(p))
        gone(d) == IF d = <<>> \/ (d[1].e.dir /\ ~allowDir) THEN failed(V)
                   ELSE marked(freed(d[1].e), IF p = <<>> THEN d ELSE parentOf(V, p))
    IN  gone(lookupPath(V, p))

\* The entries of a directory, none of a file.
children(V, d) ==
    IF ~d[1].e.dir THEN <<>>
    ELSE SelectSeq(readDirFromCluster(V, d[1].e.cluster), LAMBDA x : x.name \in Names)

\* removeAll: children by name, in the order they were listed, then the path
\* itself.  Four levels are deeper than the calls can nest directories.
removeAllBelow(V, p, Each(_, _)) ==
    LET each(cs) ==
            Seqs!FoldLeft(LAMBDA r, x : then(r, LAMBDA W : Each(W, Append(p, x.name))), did(V), cs)
        all(d) == IF d = <<>> THEN did(V)
                  ELSE then(each(children(V, d)), LAMBDA W : remove(W, p, TRUE))
    IN  all(lookupPath(V, p))

removeOne(V, p)   == removeAllBelow(V, p, LAMBDA W, q : failed(W))
removeLeaf(V, p)  == removeAllBelow(V, p, removeOne)
removeInner(V, p) == removeAllBelow(V, p, removeLeaf)
removeAll(V, p)   == removeAllBelow(V, p, removeInner)

\* The old entry goes first; nothing looks for an entry under the new name.
rename(V, o, n) ==
    LET moved(d, op, np) ==
            IF d = <<>> \/ np = <<>> THEN failed(V)
            ELSE then(removeDirEntry(V, op[1].e.cluster, Seqs!Last(o)), LAMBDA W :
                      addDirEntry(W, np[1].e.cluster, [d[1].e EXCEPT !.name = Seqs!Last(n)]))
    IN  moved(lookupPath(V, o), parentOf(V, o), parentOf(V, n))

-----------------------------------------------------------------------------
(***************************************************************************)
(* The calls.  Callers respect rules the driver does not enforce: the      *)
(* parent in a path is a directory if it exists, and a path opened or      *)
(* written as a file is not a directory.                                   *)
(***************************************************************************)
ready(call) == calls < caller.calls /\ call \in caller.uses

parentOK(p) == \A d \in Seqs!ToSet(parentOf(v, p)) : d.e.dir
fileOK(p)   == parentOK(p) /\ ~isDir(v, p)

\* The directory entry a path stands for, as <<directory, name>>.
target(V, p) ==
    {<<d.e.cluster, Seqs!Last(p)>> : d \in Seqs!ToSet(parentOf(V, p))}

returns(call, p, r, about) ==
    /\ v' = r.v
    /\ calls' = calls + 1
    /\ UNCHANGED caller
    /\ ret' = [call |-> call, path |-> p, ok |-> r.ok, about |-> about]

WriteFile(p, size) ==
    /\ ready("WriteFile") /\ fileOK(p)
    /\ returns("WriteFile", p, writeFile(v, p, size), target(v, p))
    /\ UNCHANGED handles

Mkdir(p) ==
    /\ ready("Mkdir") /\ parentOK(p)
    /\ returns("Mkdir", p, mkdir(v, p), target(v, p))
    /\ UNCHANGED handles

MkdirAll(p) ==
    /\ ready("MkdirAll") /\ parentOK(p)
    /\ returns("MkdirAll", p, mkdirAll(v, p), target(v, <<p[1]>>) \cup target(v, p))
    /\ UNCHANGED handles

Remove(p) ==
    /\ ready("Remove") /\ parentOK(p)
    /\ returns("Remove", p, remove(v, p, FALSE), target(v, p))
    /\ UNCHANGED handles

RemoveAll(p) ==
    /\ ready("RemoveAll") /\ (p # <<>> => parentOK(p))
    /\ returns("RemoveAll", p, removeAll(v, p),
               IF p = <<>> THEN {<<RootCluster, n>> : n \in Names} ELSE target(v, p))
    /\ UNCHANGED handles

Rename(o, n) ==
    /\ ready("Rename") /\ parentOK(o) /\ parentOK(n)
    /\ returns("Rename", n, rename(v, o, n), target(v, o) \cup target(v, n))
    /\ UNCHANGED handles

\* Chtimes and Chmod: the entry is read and written back.
Chtimes(p) ==
    LET changed(d) == IF d = <<>> THEN failed(v) ELSE did(putSlot(v, d[1].at, d[1].e))
    IN  /\ ready("Chtimes")
        /\ returns("Chtimes", p, changed(lookupPath(v, p)), {})
        /\ UNCHANGED handles

\* A handle has a copy of the entry and of the whole file, unless that was
\* truncated.  Nothing is opened when the entry is not found.
opens(call, p, c, trunc, append) ==
    LET cases(d) ==
            \/ /\ c.ok /\ d # <<>>
               /\ Len(handles) < MaxHandles
               /\ LET len == IF trunc THEN 0 ELSE d[1].e.size
                  IN  handles' = Append(handles, [d |-> d[1], len |-> len,
                                                  off |-> IF append THEN len ELSE 0,
                                                  dirty |-> FALSE, trunc |-> trunc, path |-> p])
               /\ returns(call, p, c, target(v, p))
            \/ /\ ~(c.ok /\ d # <<>>)
               /\ returns(call, p, failed(c.v), target(v, p))
               /\ UNCHANGED handles
    IN  cases(lookupPath(c.v, p))

Create(p) ==
    /\ ready("Create") /\ fileOK(p)
    /\ opens("Create", p, createFile(v, p), TRUE, FALSE)

\* Without O_TRUNC the file is read; O_EXCL is not looked at.
OpenFile(p, create, trunc, append) ==
    /\ ready("OpenFile") /\ fileOK(p)
    /\ opens("OpenFile", p, IF ~exists(v, p) /\ create THEN createFile(v, p) ELSE did(v),
             trunc, append)

\* fatFile.Write and Seek touch the handle only.
Write(h, n) ==
    LET f   == handles[h]
        end == f.off + n
    IN  /\ ready("Write") /\ end <= MaxSize
        /\ handles' = [handles EXCEPT ![h].len = IF end > f.len THEN end ELSE f.len,
                                      ![h].off = end, ![h].dirty = TRUE]
        /\ returns("Write", f.path, did(v), {})

Seek(h, off) ==
    /\ ready("Seek")
    /\ handles' = [handles EXCEPT ![h].off = off]
    /\ returns("Seek", handles[h].path, did(v), {})

\* fatFile.Close; every handle is closed once.
Close(h) ==
    LET f == handles[h]
    IN  /\ ready("Close")
        /\ handles' = Seqs!RemoveAt(handles, h)
        /\ returns("Close", f.path, IF f.dirty THEN writeFileData(v, f.d, f.len) ELSE did(v),
                   target(v, f.path))

\* The callers have stopped.
Finished == calls = caller.calls /\ UNCHANGED vars

Next ==
    \/ \E p \in Paths : \/ \E size \in 0..MaxSize : WriteFile(p, size)
                        \/ Mkdir(p) \/ MkdirAll(p) \/ Remove(p) \/ Chtimes(p) \/ Create(p)
                        \/ \E q \in Paths : Rename(q, p)
                        \/ \E create, trunc, append \in BOOLEAN : OpenFile(p, create, trunc, append)
    \/ \E p \in Paths \cup (IF "RemoveRoot" \in caller.uses THEN {<<>>} ELSE {}) : RemoveAll(p)
    \/ \E h \in 1..Len(handles) : \/ \E n \in 1..MaxSize : Write(h, n)
                                  \/ \E off \in 0..MaxSize : Seek(h, off)
                                  \/ Close(h)
    \/ Finished

Spec == Init /\ [][Next]_vars

-----------------------------------------------------------------------------
(***************************************************************************)
(* Properties.                                                             *)
(***************************************************************************)
entriesOf(V, dir) ==
    {d \in Seqs!ToSet(readDirFromCluster(V, dir)) : d.name \notin {".", ".."}}

\* The directories that can be reached from the root, by their first cluster.
reachableDirs(V) ==
    LET kids == [c \in Clusters \cup {RootCluster} |->
                    {d.e.cluster : d \in {x \in entriesOf(V, c) : x.e.dir}}]
        below[k \in 0..NumClusters] ==
            IF k = 0 THEN {RootCluster}
            ELSE LET dirs == below[k - 1] IN dirs \cup UNION {kids[c] : c \in dirs}
    IN  below[NumClusters]

\* What is named in a directory, files and directories alike.
listed(V) == UNION {entriesOf(V, c) : c \in reachableDirs(V)}

wellFormed(fat, chain) ==
    isEOC(fat[chain[Len(chain)]]) /\ Cardinality(Seqs!ToSet(chain)) = Len(chain)

\* The chains of any two files or directories, the root's included, share no
\* cluster; every chain runs to an end mark and holds no free cluster.  So no
\* write reaches another file's data, and no cluster in use is handed out again.
NoCrossLink ==
    LET owners  == {d \in listed(v) : d.e.cluster >= 2} \cup (IF FixedRoot THEN {} ELSE {RootEntry})
        chainOf == [d \in owners |-> clusterChain(v.fat, d.e.cluster)]
    IN  \A d, x \in owners :
           IF d = x THEN wellFormed(v.fat, chainOf[d])
           ELSE Seqs!ToSet(chainOf[d]) \cap Seqs!ToSet(chainOf[x]) = {}

\* A file's chain is as long as its size asks for, so that reading it returns
\* what was written, and directories have a chain.
ChainsCoverSize ==
    \A d \in listed(v) : Len(clusterChain(v.fat, d.e.cluster))
                            >= (IF d.e.dir THEN 1 ELSE d.e.size)

sameEntry(n, was, is) ==
    IF was = <<>> THEN is = <<>> \/ n \in LongNames ELSE is # <<>> /\ is[1].e = was[1].e

\* A call that is about some names leaves what every other name in every
\* directory that remains stands for as it was.  Only a long name that was
\* hidden behind an end mark, because it did not fit in front of it, may come
\* to light.
OthersUntouched ==
    [][v' # v => \A dir \in reachableDirs(v) \cap reachableDirs(v'), n \in Names :
          <<dir, n>> \in ret'.about \/ sameEntry(n, find(v, dir, n), find(v', dir, n))]_vars
=============================================================================
