---------------------------- MODULE BtrfsVolume ----------------------------
(***************************************************************************)
(* A mounted Btrfs volume and a subvolume of it used by one goroutine      *)
(* (btrfs/*.go): the FS tree, the allocators, path calls, open handles,    *)
(* the stepwise Unmount and a reopening of what is on the disk, at any     *)
(* moment.                                                                 *)
(*                                                                         *)
(* All items have the same size, a leaf has room for v.cap of them, and a  *)
(* node or a file's data extent is one unit of the address space.  Node    *)
(* writes go to a cache (dirty); the disk is written by Unmount only.      *)
(* There is one chunk, whose physical start is v.shift above its logical   *)
(* one; what lies behind it is zero.  The root tree is one leaf, the FS    *)
(* tree one leaf or an internal node over leaves: a tree of three levels   *)
(* is never made, because a child that splits is an error.                 *)
(***************************************************************************)
EXTENDS Integers, Sequences, FiniteSets, TLC

Seqs == INSTANCE SequencesExt
Sets == INSTANCE FiniteSetsExt
Funs == INSTANCE Functions

CONSTANTS Names,       \* file names, numbers below Dot
          InlineMax,   \* the longest data kept in the tree
          MaxLen,      \* bound on the length of a file
          MaxFollow,   \* symbolic links followed: 40
          MaxHandles,  \* bound on open handles
          MaxAddr,     \* bound on addresses
          Callers      \* what callers use: methods, volumes, paths, contents, a bound on
                       \* the calls, and the image: cap and shift

Root     == 256                 \* objFirstFree, the root directory
RootTree == 1                   \* the leaf of the root tree
FsTree   == 2                   \* the FS tree's first leaf
SubTree  == 3                   \* the subvolume's
FirstFree == 4                  \* the end of the chunk
Dot      == 8
DotDot   == 9
SubName  == 7                   \* the subvolume's link in the root directory

ASSUME BtrfsAssumption ==
    /\ Names \subseteq 1..(SubName - 1)
    /\ InlineMax \in Nat \ {0} /\ MaxLen \in Nat /\ MaxFollow \in Nat /\ MaxHandles \in Nat
    /\ MaxAddr \in Nat /\ MaxAddr > FirstFree + 1
    /\ \A c \in Callers : c.calls \in Nat /\ c.cap \in Nat /\ c.cap >= 4 /\ c.shift \in Nat

VARIABLES v,        \* the backing store and the open volumes
          handles,  \* open *btrfsWriteFile
          caller,   \* the caller of this behaviour
          calls,    \* number of calls so far
          ret       \* the last call, its outcome and what it was about

vars == <<v, handles, caller, calls, ret>>

-----------------------------------------------------------------------------
(***************************************************************************)
(* Keys, items and nodes.                                                  *)
(***************************************************************************)
InodeItem  == 1
InodeRef   == 2
DirItem    == 3
DirIndex   == 4
ExtentData == 5

key(objID, type, offset) == <<objID, type, offset>>
rank(k) == (k[1] * 10 + k[2]) * 1000 + k[3]
below(a, b) == rank(a) < rank(b)                       \* cmpKey(a, b) < 0
firstKey(items) == CHOOSE k \in DOMAIN items : \A j \in DOMAIN items : rank(k) <= rank(j)

inode(mode, nlink, size) == [mode |-> mode, nlink |-> nlink, size |-> size, perm |-> 0]
NoInode == inode("none", 0, 0)
dirItem(name, child, loc) == [name |-> name, child |-> child, loc |-> loc]
inlineExt(data)      == [at |-> 0, data |-> data, len |-> Len(data)]
regularExt(at, len)  == [at |-> at, data |-> <<>>, len |-> len]

\* nameHash: different names have different hashes.
nameHash(name) == (name * 7) % 11

Empty == [k \in {} |-> 0]
leaf(items)     == [kind |-> "leaf", items |-> items]
internal(ptrs)  == [kind |-> "internal", ptrs |-> ptrs]
roots(fs, sub)  == [kind |-> "roots", fs |-> fs, sub |-> sub]
block(data)     == [kind |-> "data", data |-> data]
Zeros           == leaf(Empty)          \* zeros decode as a leaf without items
Unmapped        == [kind |-> "unmapped"]

\* A tree with a root directory.
dirTree(entries) ==
    leaf((key(Root, InodeItem, 0) :> inode("dir", 1, 0)) @@ entries)

subLink == (key(Root, DirItem, nameHash(SubName)) :> dirItem(SubName, Root, "root"))
           @@ (key(Root, DirIndex, 2) :> dirItem(SubName, Root, "root"))

\* The volume as Open makes it from the trees on the disk.  The chunk ends where
\* the chunk tree says: nothing ever writes to that tree.
volume(root, end, maxObj) ==
    [root |-> root, allocPtr |-> end, nextObj |-> maxObj + 1, dirSeq |-> Empty]

formatted(shift) ==
    [a \in 0..(MaxAddr + shift) |-> CASE a = RootTree + shift -> roots(FsTree, SubTree)
                                      [] a = FsTree + shift   -> dirTree(subLink)
                                      [] a = SubTree + shift  -> dirTree(Empty)
                                      [] OTHER -> Zeros]

Init ==
    /\ caller \in Callers
    /\ v = [disk  |-> formatted(caller.shift),
            dirty |-> Empty,
            end   |-> FirstFree,
            shift |-> caller.shift,
            cap   |-> caller.cap,
            vol   |-> [w \in {"main"} |-> volume(FsTree, FirstFree, Root)],
            w     |-> "main",
            flush |-> "no",
            old   |-> formatted(caller.shift),
            goal  |-> formatted(caller.shift),
            mount |-> 0,
            given |-> {},
            harm  |-> {},
            owed  |-> Empty]
    /\ handles = <<>>
    /\ calls = 0
    /\ ret = [call |-> "Open", ok |-> TRUE, about |-> {}, objs |-> {}]

-----------------------------------------------------------------------------
(***************************************************************************)
(* Nodes and tree reading.  V.w is the volume whose method runs.           *)
(***************************************************************************)
own(V) == V.vol[V.w]

logToPhys(V, a) == a + V.shift

readNode(V, a) ==
    LET phys == logToPhys(V, a)
    IN  IF a >= V.end THEN Unmapped
        ELSE IF phys \in DOMAIN V.dirty THEN V.dirty[phys]
        ELSE V.disk[phys]

writeNode(V, a, node) == [V EXCEPT !.dirty = (logToPhys(V, a) :> node) @@ @]

\* The leaves of a tree from left to right.
leavesOf(V, node) ==
    IF node.kind = "internal" THEN [i \in 1..Len(node.ptrs) |-> readNode(V, node.ptrs[i].at)]
    ELSE <<node>>
leaves(V) == leavesOf(V, readNode(V, own(V).root))

\* A tree is mapped as a whole, or its root is not: new leaves get a new root.
treeReadable(V) == readNode(V, own(V).root).kind # "unmapped"

\* scanItems: the items of one type of an object, with the leaf they are found in;
\* an item may be found in two.  Nothing when the tree is unmapped.
scanItems(V, objID, type) ==
    LET inLeaf(i, node) ==
            IF node.kind # "leaf" THEN {}
            ELSE {[off |-> k[3], leaf |-> i, val |-> node.items[k]] :
                     k \in {j \in DOMAIN node.items : j[1] = objID /\ j[2] = type}}
        found(lvs) == UNION {inLeaf(i, lvs[i]) : i \in DOMAIN lvs}
    IN  found(leaves(V))

\* readDirEntries: by sequence number, in the order of the leaves where these are
\* equal, without "." and "..".
readDir(V, dir) ==
    LET before(x, y) == x.off < y.off \/ (x.off = y.off /\ x.leaf < y.leaf)
        sorted(S) == [n \in 1..Cardinality(S) |->
                         CHOOSE e \in S : Cardinality({x \in S : before(x, e)}) = n - 1]
    IN  sorted({e \in scanItems(V, dir, DirIndex) : e.val.name \notin {Dot, DotDot}})

\* The last key pointer that is not above the key; the first, if all are.
slotOf(ptrs, k) == Sets!Max({1} \cup {i \in DOMAIN ptrs : ~below(k, ptrs[i].key)})

itemIn(node, k) ==
    IF node.kind = "leaf" /\ k \in DOMAIN node.items THEN node.items[k] ELSE NoInode

\* searchTree, readInodeItem: NoInode is "not found" and every error.
readInodeItem(V, objID) ==
    LET k == key(objID, InodeItem, 0)
        from(node) ==
            IF node.kind # "internal" THEN itemIn(node, k)
            ELSE IF below(k, node.ptrs[1].key) THEN NoInode
            ELSE itemIn(readNode(V, node.ptrs[slotOf(node.ptrs, k)].at), k)
    IN  from(readNode(V, own(V).root))

isDir(in) == in.mode = "dir"

\* lookupInDir: the first entry with the name.  What kind of key it holds is not
\* looked at.
lookupInDir(V, dir, name) ==
    LET first(es) == IF es = <<>> THEN 0 ELSE es[1].val.child
    IN  first(SelectSeq(readDir(V, dir), LAMBDA e : e.val.name = name))

lookupPath(V, p) ==
    LET at[k \in 0..Len(p)] ==
            IF k = 0 THEN Root
            ELSE LET dir == at[k - 1] IN IF dir = 0 THEN 0 ELSE lookupInDir(V, dir, p[k])
    IN  at[Len(p)]

\* Byte i of an extent.  A regular extent is read from the disk, past the cache
\* and at its logical address.
Zero    == 0
Garbage == -1
rawByte(node, i) ==
    CASE node.kind = "data" /\ i \in DOMAIN node.data -> node.data[i]
      [] node.kind = "data" /\ i \notin DOMAIN node.data -> Zero
      [] node = Zeros -> Zero
      [] OTHER -> Garbage
extentByte(V, e, i) == IF e.at = 0 THEN e.data[i] ELSE rawByte(V.disk[e.at], i)

\* readFileData: later extents over earlier ones, none beyond the inode's size.
readFileData(V, objID, size) ==
    LET newest(S, i) == IF S = {} THEN Zero
                        ELSE extentByte(V, (CHOOSE e \in S : \A x \in S : x.leaf <= e.leaf).val, i)
        byte(S, i)   == newest({e \in S : e.val.len >= i}, i)
        bytes(S)     == [i \in 1..size |-> byte(S, i)]
    IN  IF size = 0 \/ ~treeReadable(V) THEN <<>> ELSE bytes(scanItems(V, objID, ExtentData))

\* lookupPathFollow.  An empty target is the directory of the link itself; data
\* that is not a list of names leads nowhere.
onward(V, s) ==
    LET to(data) == IF data = <<>> THEN Seqs!Front(s.path) ELSE data
    IN  IF s.in.mode = "lnk" THEN to(readFileData(V, s.obj, s.in.size)) ELSE s.path

lookupPathFollow(V, p) ==
    LET found(q, obj) == [path |-> q, obj |-> obj, in |-> readInodeItem(V, obj)]
        resolved(q)   == found(q, lookupPath(V, q))
        after[d \in 0..MaxFollow] == resolved(IF d = 0 THEN p ELSE onward(V, after[d - 1]))
        checked(s)    == IF s.in.mode \in {"none", "lnk"} THEN 0 ELSE s.obj
    IN  checked(after[MaxFollow])

parent(V, p) == lookupPathFollow(V, Seqs!Front(p))

-----------------------------------------------------------------------------
(***************************************************************************)
(* Allocation and tree writing.  harm is what the driver has done to its   *)
(* own structures: "split" (a leaf below the root had to split), "reuse"   *)
(* (an address was handed out that was handed out before the image was     *)
(* last opened) and "shared" (one that the other volume has handed out:    *)
(* a second chunk for it, which the driver may then add, is left out).     *)
(***************************************************************************)
did(V)    == [ok |-> TRUE,  v |-> V]
failed(V) == [ok |-> FALSE, v |-> V]

\* allocNode, allocDataBlock: the next address; the chunk grows with it.
alloc(V) ==
    LET a == own(V).allocPtr
    IN  [V EXCEPT !.vol[V.w].allocPtr = a + 1,
                  !.end = IF a >= @ THEN a + 1 ELSE @,
                  !.given = @ \cup {<<a, V.w, V.mount>>},
                  !.harm = @ \cup {IF g[3] = V.mount THEN "shared" ELSE "reuse" :
                                      g \in {x \in V.given : x[1] = a /\ <<x[2], x[3]>> # <<V.w, V.mount>>}}]

put(items, k, val) == (k :> val) @@ items
drop(items, k)     == Funs!Restrict(items, DOMAIN items \ {k})
lowerHalf(items) ==
    {k \in DOMAIN items :
        Cardinality({j \in DOMAIN items : below(j, k)}) < Cardinality(DOMAIN items) \div 2}

keyPtr(k, a) == [key |-> k, at |-> a]

\* The halves of the leaf at a and a new root over them, which is at r + 1.  The
\* left half is written only if the new item belongs to it.
newRoot(V, a, r, left, right, split, inLeft) ==
    LET children == writeNode(IF inLeft THEN writeNode(V, a, leaf(left)) ELSE V, r, leaf(right))
        root     == internal(<<keyPtr(firstKey(left), a), keyPtr(split, r)>>)
    IN  [writeNode(children, r + 1, root) EXCEPT !.vol[V.w].root = r + 1]

\* splitLeaf of the leaf at a: the upper half moves to a new leaf, the item is
\* added to its half, and a new root points to both.
splitLeaf(V, a, items, k, val) ==
    LET at(left, right, split) ==
            newRoot(alloc(alloc(V)), a, own(V).allocPtr,
                    IF below(k, split) THEN put(left, k, val) ELSE left,
                    IF below(k, split) THEN right ELSE put(right, k, val),
                    split, below(k, split))
        halves(left, right) == at(left, right, firstKey(right))
        cut(low) == halves(Funs!Restrict(items, low), Funs!Restrict(items, DOMAIN items \ low))
    IN  cut(lowerHalf(items))

hasRoom(V, items, k) == k \in DOMAIN items \/ Cardinality(DOMAIN items) < V.cap

\* The key of the i-th pointer follows the first key of its leaf.
repointed(V, root, i, first) ==
    IF root.kind = "leaf" \/ root.ptrs[i].key = first THEN V
    ELSE writeNode(V, own(V).root, internal([root.ptrs EXCEPT ![i].key = first]))

\* The address of the leaf for the key, below the i-th pointer of the root.
leafAddr(V, root, i) == IF root.kind = "internal" THEN root.ptrs[i].at ELSE own(V).root
slotIn(root, k) == IF root.kind = "internal" THEN slotOf(root.ptrs, k) ELSE 1

\* btreeInsert: an item that exists is replaced.  A leaf below the root that
\* splits is an error after the split, and the root stays.
insertItem(V, k, val) ==
    LET split(W, root) == IF root.kind = "leaf" THEN did(W)
                          ELSE failed([W EXCEPT !.vol[V.w].root = own(V).root,
                                                !.harm = @ \cup {"split"}])
        into(root, i, a, node) ==
            CASE node.kind = "leaf" /\ hasRoom(V, node.items, k) ->
                     LET items == put(node.items, k, val)
                     IN  did(repointed(writeNode(V, a, leaf(items)), root, i, firstKey(items)))
              [] node.kind = "leaf" /\ ~hasRoom(V, node.items, k) ->
                     split(splitLeaf(V, a, node.items, k, val), root)
              [] OTHER -> failed(V)
        below1(root, i, a) == into(root, i, a, readNode(V, a))
        under(root, i) == below1(root, i, leafAddr(V, root, i))
        from(root) == under(root, slotIn(root, k))
    IN  from(readNode(V, own(V).root))

\* btreeDelete: nothing is repointed, and all callers ignore its errors.
deleteItem(V, k) ==
    LET without(a, node) ==
            IF node.kind = "leaf" /\ k \in DOMAIN node.items
            THEN writeNode(V, a, leaf(drop(node.items, k))) ELSE V
        at(a)      == without(a, readNode(V, a))
        from(root) == at(leafAddr(V, root, slotIn(root, k)))
    IN  from(readNode(V, own(V).root))

-----------------------------------------------------------------------------
(***************************************************************************)
(* The edits of the tree a call makes, one after another, until one of     *)
(* them fails.  The errors of deletions, and of edits marked "try", are    *)
(* ignored.                                                                *)
(***************************************************************************)
insert(k, val)   == [op |-> "put", k |-> k, val |-> val, try |-> FALSE]
remove(k)        == [op |-> "del", k |-> k, val |-> 0, try |-> TRUE]
trying(e)        == [e EXCEPT !.try = TRUE]
writeInodeItem(obj, in) == insert(key(obj, InodeItem, 0), in)

\* A DIR_INDEX gets its sequence number when its turn comes.
index(dir, item) == [op |-> "index", k |-> key(dir, DirIndex, 0), val |-> item, try |-> FALSE]

\* DIR_ITEM, DIR_INDEX, INODE_REF.
addDirEntry(dir, name, child) ==
    LET item == dirItem(name, child, "inode")
    IN  <<insert(key(dir, DirItem, nameHash(name)), item), index(dir, item),
          insert(key(child, InodeRef, dir), [name |-> name])>>

\* DIR_ITEM, the first DIR_INDEX with the name, INODE_REF.
removeDirEntry(V, dir, name, child) ==
    LET hits == SelectSeq(readDir(V, dir), LAMBDA e : e.val.name = name)
    IN  <<remove(key(dir, DirItem, nameHash(name)))>>
        \o (IF hits = <<>> THEN <<>> ELSE <<remove(key(dir, DirIndex, hits[1].off))>>)
        \o <<remove(key(child, InodeRef, dir))>>

\* writeExtentData: the extents of a file go, the new data is stored.  Extents
\* are at offset 0.
removeExtents(obj) == remove(key(obj, ExtentData, 0))
writeExtentData(obj, data) ==
    <<removeExtents(obj)>>
    \o (IF data = <<>> THEN <<>>
        ELSE <<[op |-> "store", k |-> key(obj, ExtentData, 0), val |-> data, try |-> FALSE]>>)

\* Mutant of nextSeq: the largest itself.
nextSeq_NotAbove(V, dir) ==
    IF dir \in DOMAIN own(V).dirSeq THEN own(V).dirSeq[dir]
    ELSE Sets!Max({0} \cup {e.off : e \in scanItems(V, dir, DirIndex)})

\* initDirSeq, nextDirSeq: one more than the largest in the tree, then counted
\* in memory.
nextSeq(V, dir) ==
    IF dir \in DOMAIN own(V).dirSeq THEN own(V).dirSeq[dir]
    ELSE Sets!Max({0} \cup {e.off + 1 : e \in scanItems(V, dir, DirIndex)})

\* What the edit inserts, and the volume it inserts it into.  Data up to
\* InlineMax is kept in the tree, longer data gets new space each time.
inserted(V, e) ==
    LET k1 == <<e.k[1], e.k[2], nextSeq(V, e.k[1])>>
        a  == own(V).allocPtr
    IN  CASE e.op = "put" -> [v |-> V, k |-> e.k, val |-> e.val]
          [] e.op = "index" ->
                 [v |-> [V EXCEPT !.vol[V.w].dirSeq = (e.k[1] :> k1[3] + 1) @@ @], k |-> k1, val |-> e.val]
          [] e.op = "store" /\ Len(e.val) <= InlineMax -> [v |-> V, k |-> e.k, val |-> inlineExt(e.val)]
          [] e.op = "store" /\ Len(e.val) > InlineMax ->
                 [v |-> writeNode(alloc(V), a, block(e.val)), k |-> e.k, val |-> regularExt(a, Len(e.val))]

edit(V, e) ==
    LET insertion(x) == insertItem(x.v, x.k, x.val)
    IN  IF e.op = "del" THEN did(deleteItem(V, e.k)) ELSE insertion(inserted(V, e))

\* All edits.
run(V, es) ==
    LET tried(r, e) == [r EXCEPT !.ok = @ \/ e.try]
        upTo[n \in 0..Len(es)] ==
            IF n = 0 THEN did(V)
            ELSE LET r == upTo[n - 1] IN IF r.ok THEN tried(edit(r.v, es[n]), es[n]) ELSE r
    IN  upTo[Len(es)]

-----------------------------------------------------------------------------
(***************************************************************************)
(* Path calls: the edits they make on a path whose parent is dir, whose    *)
(* object is obj (0: none), and whose inode is in.                         *)
(***************************************************************************)
newObj(V) == [V EXCEPT !.vol[V.w].nextObj = @ + 1]

\* createFile, Symlink: inode, data, name.  The name may exist already.
creation(dir, name, obj, mode, data) ==
    <<writeInodeItem(obj, inode(mode, 1, Len(data)))>> \o writeExtentData(obj, data)
    \o addDirEntry(dir, name, obj)

\* Mutant of overwriting: the size is only ever raised.
overwriting_NoShrink(obj, in, data) ==
    <<writeInodeItem(obj, [in EXCEPT !.size = IF Len(data) > @ THEN Len(data) ELSE @])>>
    \o writeExtentData(obj, data)

\* WriteFile on a file that exists.
overwriting(obj, in, data) ==
    <<writeInodeItem(obj, [in EXCEPT !.size = Len(data)])>> \o writeExtentData(obj, data)

mkdir(dir, name, obj) ==
    <<writeInodeItem(obj, inode("dir", 2, 0))>>
    \o addDirEntry(obj, Dot, obj) \o addDirEntry(obj, DotDot, dir) \o addDirEntry(dir, name, obj)

\* Mutant of removal: the inode goes with the first link.
removal_Eager(V, dir, name, obj, in) ==
    removeDirEntry(V, dir, name, obj) \o <<remove(key(obj, InodeItem, 0)), removeExtents(obj)>>

\* The name goes, and a link; the last link takes the inode and the extents.
removal(V, dir, name, obj, in) ==
    removeDirEntry(V, dir, name, obj)
    \o (IF in.nlink = 1 THEN <<remove(key(obj, InodeItem, 0)), removeExtents(obj)>>
        ELSE <<writeInodeItem(obj, [in EXCEPT !.nlink = @ - 1])>>)

\* Both errors are ignored.
truncation(obj, in) == <<trying(writeInodeItem(obj, [in EXCEPT !.size = 0])), removeExtents(obj)>>

\* The edits, if the call gets as far as making any.
runIf(cond, V, es) == IF cond THEN run(V, es) ELSE failed(V)

exists(in) == in.mode # "none"

writeFile(V, p, data) ==
    LET new(dir) == [ok |-> dir # 0, v |-> IF dir = 0 THEN V ELSE newObj(V),
                     es |-> creation(dir, Seqs!Last(p), own(V).nextObj, "reg", data)]
        old(obj, in) == [ok |-> exists(in), v |-> V, es |-> overwriting(obj, in, data)]
        named(obj) == IF obj = 0 THEN new(parent(V, p)) ELSE old(obj, readInodeItem(V, obj))
        done(c)    == runIf(c.ok, c.v, c.es)
    IN  done(named(lookupPath(V, p)))

symlink(V, target, p) ==
    LET inDir(dir) == runIf(dir # 0, IF dir = 0 THEN V ELSE newObj(V),
                            creation(dir, Seqs!Last(p), own(V).nextObj, "lnk", target))
    IN  inDir(parent(V, p))

mkdirAt(V, p) ==
    LET inDir(dir) == runIf(dir # 0, IF dir = 0 THEN V ELSE newObj(V),
                            mkdir(dir, Seqs!Last(p), own(V).nextObj))
    IN  inDir(parent(V, p))

mkdirAll(V, p) ==
    LET made(W, q) == IF lookupPath(W, q) # 0 THEN did(W) ELSE mkdirAt(W, q)
        upTo[k \in 0..Len(p)] ==
            IF k = 0 THEN did(V)
            ELSE LET r == upTo[k - 1] IN IF r.ok THEN made(r.v, SubSeq(p, 1, k)) ELSE r
    IN  upTo[Len(p)]

removeAt(V, p, allowDir) ==
    LET gone(dir, obj, in) ==
            runIf(dir # 0 /\ exists(in) /\ (isDir(in) => allowDir), V,
                  removal(V, dir, Seqs!Last(p), obj, in))
        found(obj) == gone(parent(V, p), obj, readInodeItem(V, obj))
    IN  found(lookupPath(V, p))

\* The paths RemoveAll comes to: the children as they were read at the beginning,
\* then the directory itself.  The outcome is that of the last; what is not there
\* is removed.
removeAll(V, p) ==
    LET inner(obj, in) ==
            IF ~isDir(in) THEN <<>>
            ELSE [i \in DOMAIN readDir(V, obj) |-> Append(p, readDir(V, obj)[i].val.name)]
        leaf1(W, q) == IF lookupPath(W, q) = 0 THEN did(W) ELSE removeAt(W, q, TRUE)
        each(ps) == LET upTo[k \in 0..Len(ps)] == IF k = 0 THEN did(V) ELSE leaf1(upTo[k - 1].v, ps[k])
                    IN  upTo[Len(ps)]
        top(obj) == each(Append(inner(obj, readInodeItem(V, obj)), p))
    IN  top(lookupPath(V, p))

\* The destination's entry goes, its inode keeps its link; the new entry is
\* added; then the first entry with the old name goes.
rename(V, o, n) ==
    LET cleared(newDir, dest) ==
            IF dest = 0 THEN <<>> ELSE removeDirEntry(V, newDir, Seqs!Last(n), dest)
        second(r, oldDir, obj, in) ==
            IF ~r.ok THEN r
            ELSE run(r.v, Append(removeDirEntry(r.v, oldDir, Seqs!Last(o), obj), writeInodeItem(obj, in)))
        moved(oldDir, newDir, obj, in) ==
            second(runIf(oldDir # 0 /\ newDir # 0 /\ exists(in), V,
                         cleared(newDir, lookupPath(V, n)) \o addDirEntry(newDir, Seqs!Last(n), obj)),
                   oldDir, obj, in)
        found(obj) == moved(parent(V, o), parent(V, n), obj, readInodeItem(V, obj))
    IN  found(lookupPath(V, o))

link(V, o, p) ==
    LET linked(obj, in, dir) ==
            runIf(exists(in) /\ ~isDir(in) /\ dir # 0, V,
                  Append(addDirEntry(dir, Seqs!Last(p), obj),
                         writeInodeItem(obj, [in EXCEPT !.nlink = @ + 1])))
        found(obj) == linked(obj, readInodeItem(V, obj), parent(V, p))
    IN  found(lookupPath(V, o))

\* Chmod, and Chown and Chtimes likewise.
chmod(V, p, perm) ==
    LET changed(obj) ==
            runIf(obj # 0, V, <<writeInodeItem(obj, [readInodeItem(V, obj) EXCEPT !.perm = perm])>>)
    IN  changed(lookupPathFollow(V, p))

\* A handle on obj, with a copy of its inode.
opened(V, obj, atEnd) ==
    LET with(in) == [ok |-> exists(in), v |-> V,
                     f  |-> [w |-> V.w, obj |-> obj, in |-> in, off |-> IF atEnd THEN in.size ELSE 0]]
    IN  with(readInodeItem(V, obj))

\* Create: createFile, and if that failed, truncate what is there.  An inode that
\* cannot be read is taken for one with all fields zero.
create(V, p) ==
    LET orZeros(in) == IF exists(in) THEN in ELSE inode("zero", 0, 0)
        cut(W, obj) == IF obj = 0 THEN failed(W)
                       ELSE run(W, truncation(obj, orZeros(readInodeItem(W, obj))))
        tried(c) == IF c.ok THEN c ELSE cut(c.v, lookupPath(c.v, p))
        made(dir) == tried(runIf(dir # 0, IF dir = 0 THEN V ELSE newObj(V),
                                 creation(dir, Seqs!Last(p), own(V).nextObj, "reg", <<>>)))
        end(r) == IF r.ok THEN opened(r.v, lookupPath(r.v, p), FALSE) ELSE r
    IN  end(made(parent(V, p)))

\* OpenFile for writing.
openFile(V, p, creat, trunc, excl, atEnd) ==
    LET old(obj, in) == [ok |-> exists(in) /\ ~excl, v |-> V, es |-> IF trunc THEN truncation(obj, in) ELSE <<>>]
        new(dir) == [ok |-> creat /\ dir # 0, v |-> IF creat /\ dir # 0 THEN newObj(V) ELSE V,
                     es |-> creation(dir, Seqs!Last(p), own(V).nextObj, "reg", <<>>)]
        named(obj) == IF obj = 0 THEN new(parent(V, p)) ELSE old(obj, readInodeItem(V, obj))
        edited(c)  == runIf(c.ok, c.v, c.es)
        end(r)     == IF r.ok THEN opened(r.v, lookupPath(r.v, p), atEnd) ELSE r
    IN  end(edited(named(lookupPath(V, p))))

splice(cur, off, d) ==
    [i \in 1..Sets!Max({Len(cur), off + Len(d)}) |->
        IF i > off /\ i <= off + Len(d) THEN d[i - off]
        ELSE IF i <= Len(cur) THEN cur[i] ELSE Zero]

\* btrfsWriteFile.Write: the content, read with the handle's copy of the inode, is
\* spliced and written back with that copy.  Errors are ignored.
writeAt(V, f, d) ==
    LET wrote(es, new) ==
            [v |-> run(V, [i \in DOMAIN es |-> trying(es[i])]).v,
             f |-> [f EXCEPT !.in.size = Len(new), !.off = @ + Len(d)]]
        written(new) == wrote(overwriting(f.obj, f.in, new), new)
    IN  written(splice(readFileData(V, f.obj, f.in.size), f.off, d))

-----------------------------------------------------------------------------
(***************************************************************************)
(* The calls.  Callers respect rules the driver does not enforce: what is  *)
(* opened or written is not a directory; a directory is not moved or made  *)
(* where paths of three names would come of it; and the subvolume is       *)
(* reached through OpenSubvol, not through the name of its link.           *)
(*                                                                         *)
(* owed is what a file's content should be, as far as that is known: after *)
(* a write through a handle whose copy of the inode is behind, or whose    *)
(* data was read from the disk before it had got there, it is not.         *)
(***************************************************************************)
ready(call, w) ==
    /\ calls < caller.calls /\ call \in caller.uses /\ v.flush = "no"
    /\ w \in DOMAIN v.vol
    /\ v.vol[w].allocPtr + 5 <= MaxAddr

by(w) == [v EXCEPT !.w = w]

isDirectory(w, p) == isDir(readInodeItem(by(w), lookupPath(by(w), p)))
target(V, p) == <<V.w, parent(V, p), Seqs!Last(p)>>

tell(V, obj, data) == [V EXCEPT !.owed = (<<V.w, obj>> :> data) @@ @]
forget(V, obj) == [V EXCEPT !.owed = Funs!Restrict(@, DOMAIN @ \ {<<V.w, obj>>})]
told(r, obj, data) == IF r.ok THEN tell(r.v, obj, data) ELSE forget(r.v, obj)

\* The outcome of a call, the names it was about and the objects it may write.
returns(call, ok, V, about, objs) ==
    /\ v' = V
    /\ calls' = calls + 1
    /\ UNCHANGED caller
    /\ ret' = [call |-> call, ok |-> ok, about |-> about, objs |-> objs]

WriteFile(w, p, d) ==
    LET wrote(obj, r) ==
            returns("WriteFile", r.ok, told(r, obj, d), {target(by(w), p)}, {<<w, obj>>})
        named(old) == wrote(IF old = 0 THEN v.vol[w].nextObj ELSE old, writeFile(by(w), p, d))
    IN  /\ ready("WriteFile", w) /\ ~isDirectory(w, p)
        /\ named(lookupPath(by(w), p))
        /\ UNCHANGED handles

Symlink(w, t, p) ==
    LET linked(r) == returns("Symlink", r.ok, told(r, v.vol[w].nextObj, t), {target(by(w), p)}, {})
    IN  /\ ready("Symlink", w)
        /\ linked(symlink(by(w), t, p))
        /\ UNCHANGED handles

\* The calls that write no data.
plain(call, r, about) == returns(call, r.ok, r.v, about, {}) /\ UNCHANGED handles

Mkdir(w, p)    == ready("Mkdir", w) /\ plain("Mkdir", mkdirAt(by(w), p), {target(by(w), p)})
MkdirAll(w, p) == /\ ready("MkdirAll", w)
                  /\ plain("MkdirAll", mkdirAll(by(w), p),
                           {target(by(w), SubSeq(p, 1, k)) : k \in DOMAIN p})
Remove(w, p)   == ready("Remove", w) /\ plain("Remove", removeAt(by(w), p, FALSE), {target(by(w), p)})

RemoveAll(w, p) ==
    /\ ready("RemoveAll", w)
    /\ plain("RemoveAll", removeAll(by(w), p),
             {target(by(w), q) : q \in {p} \cup {Append(p, n) : n \in Names}})

Rename(w, o, p) ==
    /\ ready("Rename", w)
    /\ isDirectory(w, o) => Len(p) = 1
    /\ plain("Rename", rename(by(w), o, p), {target(by(w), q) : q \in {o, p}})

Link(w, o, p) == ready("Link", w) /\ plain("Link", link(by(w), o, p), {target(by(w), p)})
Chmod(w, p)   == ready("Chmod", w) /\ plain("Chmod", chmod(by(w), p, 1), {})

\* A handle, if there is one.  A file that is opened with size 0 holds nothing.
opens(call, w, r, p) ==
    \/ /\ ~r.ok
       /\ returns(call, FALSE, r.v, {target(by(w), p)}, {})
       /\ UNCHANGED handles
    \/ /\ r.ok
       /\ Len(handles) < MaxHandles
       /\ handles' = Append(handles, r.f)
       /\ returns(call, TRUE, IF r.f.in.size = 0 THEN tell(r.v, r.f.obj, <<>>) ELSE r.v,
                  {target(by(w), p)}, {<<w, r.f.obj>>})

\* Create of a name that exists makes a second file of that name and opens the
\* first one.
Create(w, p) == /\ ready("Create", w) /\ ~isDirectory(w, p)
                /\ opens("Create", w, create(by(w), p), p)

OpenFile(w, p, creat, trunc, excl, atEnd) ==
    /\ ready("OpenFile", w) /\ ~isDirectory(w, p)
    /\ opens("OpenFile", w, openFile(by(w), p, creat, trunc, excl, atEnd), p)

\* Data that lies where readFileData looks for it.
settled(V, obj) ==
    \A e \in scanItems(V, obj, ExtentData) :
        e.val.at = 0 \/ (V.shift = 0 /\ e.val.at \notin DOMAIN V.dirty)

\* What the file should hold after the write: known if it was before, and the
\* handle is not behind.
owedAfter(W, V, f, d, in) ==
    IF <<f.w, f.obj>> \in DOMAIN V.owed /\ in = f.in /\ settled(V, f.obj)
    THEN tell(W, f.obj, splice(V.owed[<<f.w, f.obj>>], f.off, d))
    ELSE forget(W, f.obj)

\* A copy of the inode with another link count goes into the tree.
marked(V, f, in) == [V EXCEPT !.harm = @ \cup (IF in.nlink # f.in.nlink THEN {"links"} ELSE {})]

Write(h, d) ==
    LET f == handles[h]
        done(r, in) == /\ returns("Write", TRUE, marked(owedAfter(r.v, by(f.w), f, d, in), f, in),
                                  {}, {<<f.w, f.obj>>})
                       /\ handles' = [handles EXCEPT ![h] = r.f]
    IN  /\ ready("Write", f.w) /\ f.off + Len(d) <= MaxLen
        /\ done(writeAt(by(f.w), f, d), readInodeItem(by(f.w), f.obj))

Seek(h, off) ==
    /\ ready("Seek", handles[h].w) /\ off # handles[h].off
    /\ handles' = [handles EXCEPT ![h].off = off]
    /\ returns("Seek", TRUE, v, {}, {})

-----------------------------------------------------------------------------
(***************************************************************************)
(* Opening and flushing.                                                   *)
(***************************************************************************)

\* scanMaxObjID, at least the root directory's.
maxObjID(lvs) ==
    Sets!Max({Root} \cup UNION {{k[1] : k \in DOMAIN lvs[i].items} :
                                i \in {j \in DOMAIN lvs : lvs[j].kind = "leaf"}})

openTree(V, w, root) ==
    LET W == [V EXCEPT !.vol = (w :> volume(root, V.end, 0)) @@ @, !.w = w]
    IN  [W EXCEPT !.vol[w].nextObj = maxObjID(leaves(W)) + 1, !.w = "main"]

\* The subvolume's allocator starts where the chunks end, as the volume's does;
\* the cache and the chunks are shared.  The tree is the one the root tree names.
OpenSubvol ==
    /\ ready("OpenSubvol", "main") /\ "sub" \notin DOMAIN v.vol
    /\ returns("OpenSubvol", TRUE, openTree(v, "sub", readNode(v, RootTree).sub), {}, {})
    /\ UNCHANGED handles

\* updateRootItem: the root tree gets the main tree's root; no other.
updateRootItem(V) ==
    LET patched(r) == IF r.fs = V.vol["main"].root THEN V
                      ELSE writeNode(V, RootTree, roots(V.vol["main"].root, r.sub))
    IN  patched(readNode(V, RootTree))

\* The disk with all of the cache written to it.
written(V) == [a \in DOMAIN V.disk |-> IF a \in DOMAIN V.dirty THEN V.dirty[a] ELSE V.disk[a]]

\* Unmount of either volume flushes both.  old and goal are the disks it starts
\* from and should end with.
Unmount(w) ==
    /\ ready("Unmount", w)
    /\ LET begun(V) == [V EXCEPT !.flush = "nodes", !.old = V.disk, !.goal = written(V)]
       IN  v' = begun(updateRootItem(v))
    /\ calls' = calls + 1
    /\ ret' = [call |-> "flush", ok |-> FALSE, about |-> {}, objs |-> {}]
    /\ UNCHANGED <<handles, caller>>

\* Mutant of flushed: the node leaves the cache unwritten.
flushed_Dropped(V, phys) == [V EXCEPT !.dirty = drop(@, phys)]

flushed(V, phys) ==
    [V EXCEPT !.disk[phys] = V.dirty[phys], !.dirty = drop(@, phys)]

\* The next node in ascending order.
FlushNode ==
    /\ v.flush = "nodes" /\ DOMAIN v.dirty # {}
    /\ v' = flushed(v, Sets!Min(DOMAIN v.dirty))
    /\ UNCHANGED <<handles, caller, calls, ret>>

flushEnds(ok) ==
    /\ v' = [v EXCEPT !.flush = "no", !.old = IF ok THEN v.goal ELSE @]
    /\ ret' = [call |-> "Unmount", ok |-> ok, about |-> {}, objs |-> {}]
    /\ UNCHANGED <<handles, caller, calls>>

\* The superblock after the last node.
FlushSuperblock == v.flush = "nodes" /\ DOMAIN v.dirty = {} /\ flushEnds(TRUE)

\* A write fails: the rest stays in the cache.
FlushFails == v.flush = "nodes" /\ "fail" \in caller.uses /\ flushEnds(FALSE)

\* Open on what a disk holds.
reopened(V, disk) ==
    LET W == [V EXCEPT !.disk = disk, !.dirty = Empty, !.end = FirstFree, !.vol = Empty,
                       !.flush = "no", !.old = disk, !.goal = disk, !.mount = @ + 1]
    IN  openTree(W, "main", W.disk[logToPhys(W, RootTree)].fs)

\* The process ends, at any moment, and the image is opened again.
Reopen ==
    /\ calls < caller.calls /\ "Reopen" \in caller.uses
    /\ returns("Reopen", TRUE,
               [reopened(v, v.disk) EXCEPT !.owed = IF DOMAIN v.dirty = {} THEN @ ELSE Empty], {}, {})
    /\ handles' = <<>>

Finished ==
    /\ calls = caller.calls \/ \E w \in DOMAIN v.vol : v.vol[w].allocPtr + 5 > MaxAddr
    /\ v.flush = "no"
    /\ UNCHANGED vars

Next ==
    \/ \E w \in DOMAIN v.vol :
          \/ \E p \in caller.paths :
                \/ \E d \in caller.data : WriteFile(w, p, d)
                \/ Mkdir(w, p) \/ MkdirAll(w, p) \/ Remove(w, p) \/ RemoveAll(w, p) \/ Create(w, p)
                \/ \E n \in Names : Symlink(w, <<n>>, p)
                \/ \E q \in caller.paths : Rename(w, q, p) \/ Link(w, q, p)
                \/ Chmod(w, p)
                \/ \E creat, trunc, excl, atEnd \in BOOLEAN : OpenFile(w, p, creat, trunc, excl, atEnd)
          \/ Unmount(w)
    \/ \E h \in 1..Len(handles) : \/ \E d \in caller.data : Write(h, d)
                                  \/ \E off \in 0..MaxLen : Seek(h, off)
    \/ OpenSubvol
    \/ FlushNode \/ FlushSuperblock \/ FlushFails \/ Reopen
    \/ Finished

Spec == Init /\ [][Next]_vars

-----------------------------------------------------------------------------
(***************************************************************************)
(* Properties.                                                             *)
(***************************************************************************)
objects(V) == Root..(own(V).nextObj - 1)
dirs(V) == {o \in objects(V) : isDir(readInodeItem(V, o))}

\* As long as no leaf below the root had to split and no address was given twice: a
\* file whose content is known reads back as that content, through leaf splits that
\* leave old copies of items behind, handles, both volumes and reopening; data
\* too long for the tree as soon as it is flushed, if the chunk lies at its
\* logical address (readFileData reads there, past the cache).
ContentsRead ==
    LET reads(V, obj, in) ==
            (exists(in) /\ settled(V, obj)) => readFileData(V, obj, in.size) = V.owed[<<V.w, obj>>]
        known(V, obj) == reads(V, obj, readInodeItem(V, obj))
    IN  v.harm \cap {"split", "reuse", "shared"} = {} =>
            \A x \in DOMAIN v.owed : x[1] \in DOMAIN v.vol => known(by(x[1]), x[2])

\* The names of a directory with the objects they stand for.
named(V, dir) == {e \in scanItems(V, dir, DirIndex) : e.val.name \in Names}

\* No leaf holds items that belong to the next one.
tidy(V) ==
    LET over(root) == root.kind # "internal"
                      \/ \A k \in DOMAIN readNode(V, root.ptrs[1].at).items : below(k, root.ptrs[2].key)
    IN  over(readNode(V, own(V).root))

\* The entries of all directories of a tree, as <<directory, sequence number, object>>.
entries(V) == UNION {{<<d, e.off, e.val.child>> : e \in named(V, d)} : d \in dirs(V)}

\* As long as nothing was harmed, and where a split has left no old copies of
\* items in the left leaf: every name leads to an inode that has at least as
\* many links as names, through Link, Remove, Rename over a name that exists,
\* second files of one name (Create), and handles that write their inode back.
LinksCoverNames ==
    v.harm = {} => \A w \in DOMAIN v.vol :
        LET linked(V, es) == \A x \in es :
                readInodeItem(V, x[3]).nlink >= Cardinality({y \in es : y[3] = x[3]})
        IN  tidy(by(w)) => linked(by(w), entries(by(w)))

\* The object keeps its inode and content.
keeps(V, W, obj, in, is) ==
    /\ is.size = in.size /\ exists(is) = exists(in)
    /\ readFileData(W, obj, is.size) = readFileData(V, obj, in.size)

same(V, W, obj, is, objs) ==
    /\ is = obj
    /\ \/ obj = 0 \/ <<V.w, obj>> \in objs \/ ~tidy(V)
       \/ keeps(V, W, obj, readInodeItem(V, obj), readInodeItem(W, obj))

\* As long as no leaf below the root had to split and no address was given twice: what
\* every other name of either volume stands for stays as it was, when
\* leaves split, names are duplicated, or removed names turn up again in the old
\* copies a split has left behind.  So do the contents, unless there are such
\* copies: then the removal of such a name takes the file from its new name.
OthersUntouched ==
    [][(calls' > calls /\ ret'.call # "Reopen" /\ v'.harm \cap {"split", "reuse", "shared"} = {})
       => \A w \in DOMAIN v.vol : \A d \in dirs(by(w)), n \in Names :
             \/ <<w, d, n>> \in ret'.about
             \/ same(by(w), by(w)', lookupInDir(by(w), d, n), lookupInDir(by(w)', d, n), ret'.objs)]_vars

\* What a path shows: the object, its inode, its content up to a length.
shows(V, p, max) ==
    LET of(obj, in) == <<obj, in, IF in.size <= max THEN readFileData(V, obj, in.size) ELSE <<>> >>
        at(obj)     == of(obj, readInodeItem(V, obj))
    IN  at(lookupPath(V, p))
view(V, max) == [p \in caller.paths |-> shows(V, p, max)]

\* While the main tree is the one leaf it was formatted with and no address has
\* been handed out by both volumes: when everything has
\* been flushed, the reopened image shows what was there, data included; otherwise,
\* when Unmount was interrupted or failed in particular, the names, inodes and
\* inline data from before or from after all of it, although nodes are
\* overwritten in place and before the data they point to (flush).
ReopenFaithful ==
    [][(calls' > calls /\ ret'.call = "Reopen" /\ v.vol["main"].root = FsTree /\ "shared" \notin v.harm)
       => /\ (v.old = v.goal /\ DOMAIN v.dirty = {}) => view(v', MaxLen) = view(by("main"), MaxLen)
          /\ view(v', InlineMax) \in {view(reopened(v, v.old), InlineMax),
                                      view(reopened(v, v.goal), InlineMax)}]_vars
=============================================================================
