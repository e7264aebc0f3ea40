----------------------------- MODULE Ext4Volume -----------------------------
(***************************************************************************)
(* A mounted ext4 volume as its callers use it (ext4/write.go,             *)
(* ext4/read.go): path lookup, directories, files, links and open handles, *)
(* on top of the allocators of Ext4Groups.                                 *)
(*                                                                         *)
(* Every method holds v.mu from beginning to end, so a call is one step.   *)
(* Between calls live the handles, each with a copy of its inode.  Writes  *)
(* go to memory and cannot fail; what can fail is the allocation of a      *)
(* block or an inode, at any point of a call.  Ext4Flush has the way to    *)
(* the disk, Ext4Extents files with more extents than an inode holds.      *)
(*                                                                         *)
(* Files are written in whole blocks.  A directory block has DirCap        *)
(* places: names of up to four bytes all take twelve, so that "the first   *)
(* entry with enough slack" is the first free place of the block.          *)
(* Symbolic links are the short ones kept in the inode, with absolute      *)
(* targets.                                                                *)
(***************************************************************************)
EXTENDS Ext4Groups, Sequences

Seqs == INSTANCE SequencesExt

CONSTANTS Names,       \* file names
          DirCap,      \* entries per directory block
          MaxBlk,      \* bound on blocks per file; at most 4, so that extents stay inline
          MaxFollow,   \* symbolic links followed: 40
          MaxHandles,  \* bound on open handles
          Callers      \* what callers may use: the methods, and a bound on the calls

Root == 2
RootBlock == 1                 \* block 0 is the superblock's

Paths == {<<n>> : n \in Names} \cup {<<d, n>> : d, n \in Names}
Dirs  == {<<>>} \cup {<<n>> : n \in Names}

ASSUME VolumeAssumption ==
    /\ "." \notin Names /\ ".." \notin Names
    /\ DirCap \in Nat /\ DirCap >= 2
    /\ MaxBlk \in 1..4
    /\ BlocksPerGroup >= 2 /\ InodesPerGroup >= 2   \* the root directory is in group 0
    /\ MaxFollow \in Nat
    /\ MaxHandles \in Nat
    /\ \A c \in Callers : c.calls \in Nat

VARIABLES v,        \* the volume: [node, blk, al]; behind: the inodes whose link count a
                    \* handle has put back to what it was; over: MaxBlk is exceeded
          handles,  \* open *ext4File
          status,   \* "ok", "stuck" (waits for its own lock), "panic"
          caller,   \* the caller of this behaviour
          calls,    \* number of calls so far
          ret       \* the last call and its outcome

vars == <<v, handles, status, caller, calls, ret>>

Hole == 0
NoExtents == [l \in 0..(MaxBlk - 1) |-> Hole]
NoInode == [mode |-> "none", perm |-> 0, links |-> 0, size |-> 0, ext |-> NoExtents, tgt |-> <<>>]

newInode(mode, links) == [NoInode EXCEPT !.mode = mode, !.links = links]

Free == [name |-> "", ino |-> 0]
entry(name, ino) == [name |-> name, ino |-> ino]
EmptyBlock == [k \in 1..DirCap |-> Free]

\* A file system with an empty root directory.
Init ==
    /\ v = [node |-> [n \in Inodes |->
                         IF n = Root
                         THEN [newInode("dir", 2) EXCEPT !.size = 1, !.ext[0] = RootBlock]
                         ELSE NoInode],
            blk  |-> [b \in Blocks |->
                         IF b = RootBlock
                         THEN [EmptyBlock EXCEPT ![1] = entry(".", Root), ![2] = entry("..", Root)]
                         ELSE EmptyBlock],
            al   |-> [bmap   |-> [g \in Groups |-> IF g = 0 THEN {0, RootBlock} ELSE {}],
                      gfree  |-> [g \in Groups |-> BlocksPerGroup - (IF g = 0 THEN 2 ELSE 0)],
                      imap   |-> [g \in Groups |-> IF g = 0 THEN {0, 1} ELSE {}],
                      gifree |-> [g \in Groups |-> InodesPerGroup - (IF g = 0 THEN 2 ELSE 0)],
                      dirs   |-> [g \in Groups |-> IF g = 0 THEN 1 ELSE 0],
                      sfree  |-> NumGroups * BlocksPerGroup - 2,
                      sifree |-> NumGroups * InodesPerGroup - 2],
            behind |-> {}, over |-> FALSE]
    /\ handles = <<>>
    /\ status = "ok"
    /\ caller \in Callers
    /\ calls = 0
    /\ ret = [call |-> "none", path |-> <<>>, ok |-> TRUE, about |-> {}, blocks |-> 0]

-----------------------------------------------------------------------------
(***************************************************************************)
(* Reading: readDir, lookupPath, lookupPathFollow.  Inode 0 is "not found".*)
(***************************************************************************)
readDir(V, in) ==
    Seqs!FlattenSeq([i \in 1..in.size |->
                   SelectSeq(V.blk[in.ext[i - 1]], LAMBDA e : e.ino # 0)])

\* The places of a directory inode, in the order they are searched.
places(V, in, P(_)) ==
    {x \in (0..(in.size - 1)) \X (1..DirCap) : P(V.blk[in.ext[x[1]]][x[2]])}

firstPlace(S) ==
    CHOOSE x \in S : \A y \in S : x[1] < y[1] \/ (x[1] = y[1] /\ x[2] <= y[2])

placesNamed(V, in, name) == places(V, in, LAMBDA e : e.ino # 0 /\ e.name = name)

entryAt(V, in, x) == V.blk[in.ext[x[1]]][x[2]]

\* The first entry of the name that readDir returns.
find(V, dir, name) ==
    LET hits == placesNamed(V, V.node[dir], name)
    IN  IF hits = {} THEN 0 ELSE entryAt(V, V.node[dir], firstPlace(hits)).ino

isDir(V, ino) == ino # 0 /\ V.node[ino].mode = "dir"

lookupPath(V, p) ==
    LET at[k \in 0..Len(p)] ==
            IF k = 0 THEN Root
            ELSE LET dir == at[k - 1] IN IF isDir(V, dir) THEN find(V, dir, p[k]) ELSE 0
    IN  at[Len(p)]

\* A link of size 0 has the empty target, which is relative: its own directory.
linkTarget(in, p) == IF in.size = 0 THEN Seqs!Front(p) ELSE in.tgt

lookupPathFollow(V, p) ==
    LET resolved(n, q, Onward(_)) ==
            IF n = 0 \/ V.node[n].mode # "lnk" THEN n ELSE Onward(linkTarget(V.node[n], q))
        at[left \in 0..MaxFollow] ==
            [q \in Dirs \cup Paths |->
                resolved(lookupPath(V, q), q, LAMBDA t : IF left = 0 THEN 0 ELSE at[left - 1][t])]
    IN  at[MaxFollow][p]

parent(V, p) == lookupPathFollow(V, Seqs!Front(p))

-----------------------------------------------------------------------------
(***************************************************************************)
(* Writing.  Each operator returns the volume and whether it succeeded; on *)
(* failure the volume is as the early return leaves it.                    *)
(***************************************************************************)
did(V)    == [ok |-> TRUE,  v |-> V]
failed(V) == [ok |-> FALSE, v |-> V]

\* The outcome r of one part of a call, and the part that follows it.
then(r, Rest(_)) == IF r.ok THEN Rest(r.v) ELSE failed(r.v)

writeInode(V, num, in) == [V EXCEPT !.node[num] = in]

\* appendExtentToInode while the extents fit into the inode.
appendExtent(in, log, phys) == [in EXCEPT !.ext[log] = phys]

\* Mutant of dirBlock: the new block replaces the directory's last one.
dirBlock_OverLast(V, dir, r, e) ==
    LET in   == V.node[dir]
        last == IF in.size = 0 THEN 0 ELSE in.size - 1
    IN  [V EXCEPT !.al = r.a,
                  !.blk[r.blk] = [EmptyBlock EXCEPT ![1] = e],
                  !.node[dir] = [appendExtent(in, last, r.blk) EXCEPT !.size = last + 1]]

\* The directory with one more block, the one allocated, for the entry.  A call
\* that needs more than MaxBlk of them is not taken (the guard of `returned').
dirBlock(V, dir, r, e) ==
    LET in == V.node[dir]
    IN  IF in.size >= MaxBlk THEN [V EXCEPT !.over = TRUE]
        ELSE [V EXCEPT !.al = r.a,
                       !.blk[r.blk] = [EmptyBlock EXCEPT ![1] = e],
                       !.node[dir] = [appendExtent(in, in.size, r.blk) EXCEPT !.size = @ + 1]]

addDirEntry(V, dir, name, ino) ==
    LET in   == V.node[dir]
        free == places(V, in, LAMBDA e : e.ino = 0)
        x    == firstPlace(free)
    IN  IF free # {}
        THEN did([V EXCEPT !.blk[in.ext[x[1]]][x[2]] = entry(name, ino)])
        ELSE IF ~canAllocBlock(V.al) THEN failed(V)
        ELSE did(dirBlock(V, dir, allocBlock(V.al, inodeBlockGroup(dir)), entry(name, ino)))

removeDirEntry(V, dir, name) ==
    LET in   == V.node[dir]
        hits == placesNamed(V, in, name)
        x    == firstPlace(hits)
    IN  IF hits = {} THEN failed(V)
        ELSE did([V EXCEPT !.blk[in.ext[x[1]]][x[2]].ino = 0])

\* Mutant of mapBlock: the inode's block is entered without being allocated.
mapBlock_NoAlloc(V, num, in, r) == [V EXCEPT !.node[num] = in]

\* The inode `in', which has got the block r, is written back.
mapBlock(V, num, in, r) == [V EXCEPT !.al = r.a, !.node[num] = in]

\* One block of writeFileRange; s.in is the copy of the inode.
writeBlock(s, num, log) ==
    LET withBlock(r) ==
            LET in == appendExtent(s.in, log, r.blk)
            IN  [ok |-> TRUE, v |-> mapBlock(s.v, num, in, r), in |-> in, done |-> s.done + 1]
    IN  IF s.in.mode = "lnk" THEN [s EXCEPT !.ok = FALSE]
        ELSE IF s.in.ext[log] # Hole THEN [s EXCEPT !.done = @ + 1]
        ELSE IF ~canAllocBlock(s.v.al) THEN [s EXCEPT !.ok = FALSE]
        ELSE withBlock(allocBlock(s.v.al, inodeBlockGroup(num)))

\* writeFileRange: n blocks from block off on, on a copy of the inode.  The
\* size is brought up to date only when all of them were written.
writeFileRange(V, num, in, off, n) ==
    LET step[k \in 0..n] ==
            IF k = 0 THEN [ok |-> TRUE, v |-> V, in |-> in, done |-> 0]
            ELSE LET s == step[k - 1] IN IF s.ok THEN writeBlock(s, num, off + k - 1) ELSE s
        sized(end) ==
            LET in3 == [end.in EXCEPT !.size = off + n]
            IN  IF end.ok /\ n > 0 /\ off + n > end.in.size
                THEN [end EXCEPT !.v = writeInode(@, num, in3), !.in = in3]
                ELSE end
    IN  sized(step[n])

\* allocInode in the directory's group, the writing of the new inode, and the
\* rest of the call with its number.
newNode(V, dir, in, Rest(_, _)) ==
    LET made(r) == Rest([V EXCEPT !.al = r.a, !.node[r.ino] = in], r.ino)
    IN  IF dir = 0 \/ ~canAllocInode(V.al) THEN failed(V)
        ELSE made(allocInode(V.al, inodeBlockGroup(dir), in.mode = "dir"))

\* createFile reads the parent's inode first and writes that copy back last.
createFile(V, p, n) ==
    LET in == newInode("reg", 1)
        inDir(dir) ==
            newNode(V, dir, in, LAMBDA W, num :
                then(writeFileRange(W, num, in, 0, n), LAMBDA X :
                then(addDirEntry(X, dir, Seqs!Last(p), num), LAMBDA Y :
                     did(writeInode(Y, dir, V.node[dir])))))
    IN  inDir(parent(V, p))

\* Mutant of writeFile: a file that exists is not cut.
writeFile_NotCut(V, p, n) ==
    LET over(num) == IF num = 0 THEN createFile(V, p, n)
                     ELSE then(writeFileRange(V, num, V.node[num], 0, n), did)
    IN  over(lookupPath(V, p))

\* A file that exists is cut to size 0 and keeps its blocks.
writeFile(V, p, n) ==
    LET cut(num, in) == then(writeFileRange(writeInode(V, num, in), num, in, 0, n), did)
        named(num)   == IF num = 0 THEN createFile(V, p, n)
                        ELSE cut(num, [V.node[num] EXCEPT !.size = 0])
    IN  named(lookupPath(V, p))

mkdir(V, p) ==
    LET inDir(dir) ==
            newNode(V, dir, newInode("dir", 2), LAMBDA W, num :
                then(addDirEntry(W, num, ".", num), LAMBDA X :
                then(addDirEntry(X, num, "..", dir), LAMBDA Y :
                then(addDirEntry(Y, dir, Seqs!Last(p), num), LAMBDA Z :
                     did([Z EXCEPT !.node[dir].links = @ + 1])))))
    IN  inDir(parent(V, p))

mkdirAll(V, p) ==
    LET upTo[k \in 0..Len(p)] ==
            IF k = 0 THEN did(V)
            ELSE LET q == SubSeq(p, 1, k)
                 IN  then(upTo[k - 1], LAMBDA W : IF lookupPath(W, q) # 0 THEN did(W) ELSE mkdir(W, q))
    IN  upTo[Len(p)]

decremented(in) == [in EXCEPT !.links = (@ - 1) % 65536]

\* The inode is freed with its last link; its blocks are not.
unlinked(V, num) ==
    LET in == decremented(V.node[num])
    IN  [V EXCEPT !.node[num] = in,
                  !.al = IF in.links = 0 THEN freeInode(V.al, num) ELSE V.al]

remove(V, p, allowDir) ==
    LET gone(dir, num) ==
            IF dir = 0 \/ num = 0 \/ (isDir(V, num) /\ ~allowDir) THEN failed(V)
            ELSE then(removeDirEntry(V, dir, Seqs!Last(p)), LAMBDA W : did(unlinked(W, num)))
    IN  gone(parent(V, p), lookupPath(V, p))

children(V, dir) == SelectSeq(readDir(V, V.node[dir]), LAMBDA e : e.name \in Names)

\* The directory named by the moved inode's ".." after a move.
reparented(V, num, newDir) ==
    IF find(V, num, "..") = 0 THEN V
    ELSE addDirEntry(removeDirEntry(V, num, "..").v, num, "..", newDir).v

\* The destination's entry goes, its inode keeps its link; the new entry is
\* added; then the first entry with the old name goes.
rename(V, o, n) ==
    LET moved(W, oldDir, newDir, num) ==
            IF oldDir # newDir /\ V.node[num].mode = "dir" THEN reparented(W, num, newDir) ELSE W
        renamed(oldDir, newDir, num, dest) ==
            IF oldDir = 0 \/ newDir = 0 \/ num = 0 THEN failed(V)
            ELSE IF dest # 0 /\ isDir(V, dest) /\ Len(readDir(V, V.node[dest])) > 2 THEN failed(V)
            ELSE then(did(IF dest # 0 THEN removeDirEntry(V, newDir, Seqs!Last(n)).v ELSE V), LAMBDA W :
                 then(addDirEntry(W, newDir, Seqs!Last(n), num), LAMBDA X :
                 then(removeDirEntry(X, oldDir, Seqs!Last(o)), LAMBDA Y :
                      did(writeInode(moved(Y, oldDir, newDir, num), num, V.node[num])))))
    IN  renamed(parent(V, o), parent(V, n), lookupPath(V, o), lookupPath(V, n))

symlink(V, target, p) ==
    LET inDir(dir) ==
            newNode(V, dir, [newInode("lnk", 1) EXCEPT !.size = 1, !.tgt = target], LAMBDA W, num :
                addDirEntry(W, dir, Seqs!Last(p), num))
    IN  inDir(parent(V, p))

\* Mutant of oneMoreLink: the count is left as it was.
oneMoreLink_NoCount(V, num, in) == writeInode(V, num, in)

oneMoreLink(V, num, in) == writeInode(V, num, [in EXCEPT !.links = @ + 1])

\* link: the inode is read before the entry is added.
link(V, o, p) ==
    LET linked(num, dir) ==
            IF num = 0 \/ isDir(V, num) \/ dir = 0 THEN failed(V)
            ELSE then(addDirEntry(V, dir, Seqs!Last(p), num), LAMBDA W :
                      did(oneMoreLink(W, num, V.node[num])))
    IN  linked(lookupPath(V, o), parent(V, p))

-----------------------------------------------------------------------------
(***************************************************************************)
(* The calls.  Callers respect rules the driver does not enforce: the      *)
(* parent in a path is a directory if it exists; a path opened or written  *)
(* as a file is not a directory; and nothing is written through a handle   *)
(* that has picked up the inode of a directory.                            *)
(***************************************************************************)
ready(call) == status = "ok" /\ calls < caller.calls /\ call \in caller.uses

dirOrNone(dir) == dir = 0 \/ isDir(v, dir)
parentOK(p) == dirOrNone(parent(v, p))
fileOK(p)   == parentOK(p) /\ ~isDir(v, lookupPath(v, p))

\* The directory entry a path stands for, in the volume V.
target(V, p) == <<parent(V, p), Seqs!Last(p)>>

\* A call by path: its outcome, the entries it was about, and the blocks it was
\* given to write.
returned(call, p, n, r, about) ==
    /\ ~r.v.over
    /\ v' = r.v
    /\ calls' = calls + 1
    /\ UNCHANGED caller
    /\ ret' = [call |-> call, path |-> p, ok |-> r.ok, about |-> about, blocks |-> n]
returns(call, p, r, about) == returned(call, p, 0, r, about)

quiet == UNCHANGED <<handles, status>>

WriteFile(p, n) ==
    /\ ready("WriteFile") /\ fileOK(p)
    /\ returned("WriteFile", p, n, writeFile(v, p, n), {target(v, p)})
    /\ quiet

Mkdir(p) ==
    /\ ready("Mkdir") /\ parentOK(p)
    /\ returns("Mkdir", p, mkdir(v, p), {target(v, p)})
    /\ quiet

MkdirAll(p) ==
    /\ ready("MkdirAll") /\ \A k \in 1..Len(p) : parentOK(SubSeq(p, 1, k))
    /\ returns("MkdirAll", p, mkdirAll(v, p), {target(v, <<p[1]>>), target(v, p)})
    /\ quiet

Remove(p) ==
    /\ ready("Remove") /\ parentOK(p)
    /\ returns("Remove", p, remove(v, p, FALSE), {target(v, p)})
    /\ quiet

\* RemoveAll of something that is gone succeeds.  On a directory with children
\* it calls itself, which waits for the lock it holds.
RemoveAll(p) ==
    LET selfCall(num) == isDir(v, num) /\ children(v, num) # <<>>
        cases(num) ==
            \/ /\ selfCall(num)
               /\ status' = "stuck"
               /\ UNCHANGED <<v, handles, caller, calls, ret>>
            \/ /\ ~selfCall(num)
               /\ returns("RemoveAll", p, IF num = 0 THEN did(v) ELSE remove(v, p, TRUE),
                          {target(v, p)})
               /\ quiet
    IN  ready("RemoveAll") /\ parentOK(p) /\ cases(lookupPath(v, p))

Rename(o, n) ==
    /\ ready("Rename") /\ parentOK(o) /\ parentOK(n)
    /\ returns("Rename", n, rename(v, o, n), {target(v, o), target(v, n)})
    /\ quiet

Symlink(tgt, p) ==
    /\ ready("Symlink") /\ parentOK(p)
    /\ returns("Symlink", p, symlink(v, tgt, p), {target(v, p)})
    /\ quiet

Link(o, p) ==
    /\ ready("Link") /\ parentOK(p)
    /\ returns("Link", p, link(v, o, p), {target(v, p)})
    /\ quiet

\* Chmod, and Chown and Chtimes likewise: follow links, read, change, write.
Chmod(p, perm) ==
    LET changed(num) == IF num = 0 THEN failed(v) ELSE did([v EXCEPT !.node[num].perm = perm])
    IN  /\ ready("Chmod")
        /\ returns("Chmod", p, changed(lookupPathFollow(v, p)), {})
        /\ quiet

\* A new handle, or the panic of readInode(0) when the file just created is not
\* found.
opens(call, p, V, num, cut, atEnd) ==
    LET in == IF cut THEN [V.node[num] EXCEPT !.size = 0] ELSE V.node[num]
    IN  \/ /\ num = 0
           /\ ~V.over
           /\ v' = V
           /\ status' = "panic"
           /\ UNCHANGED <<handles, caller, calls, ret>>
        \/ /\ num # 0
           /\ Len(handles) < MaxHandles
           /\ handles' = Append(handles, [num |-> num, in |-> in,
                                          off |-> IF atEnd THEN in.size ELSE 0])
           /\ returns(call, p, did(writeInode(V, num, in)), {target(v, p)})
           /\ UNCHANGED status

\* Create: createFile, and if that failed, truncate what is there.
Create(p) ==
    LET cases(c, num) ==
            \/ /\ num = 0
               /\ returns("Create", p, failed(c.v), {target(v, p)})
               /\ quiet
            \/ /\ num # 0
               /\ opens("Create", p, c.v, num, ~c.ok, FALSE)
        created(c) == cases(c, lookupPath(c.v, p))
    IN  ready("Create") /\ fileOK(p) /\ created(createFile(v, p, 0))

\* OpenFile for writing, with O_CREATE or without.
OpenFile(p, create, trunc, excl, append) ==
    LET cases(num, c) ==
            \/ /\ num # 0 /\ ~excl
               /\ opens("OpenFile", p, v, num, trunc, append)
            \/ /\ num = 0 /\ create /\ c.ok
               /\ opens("OpenFile", p, c.v, lookupPath(c.v, p), trunc, append)
            \/ /\ IF num = 0 THEN ~create \/ ~c.ok ELSE excl
               /\ returns("OpenFile", p, failed(IF num = 0 /\ create THEN c.v ELSE v),
                          {target(v, p)})
               /\ quiet
    IN  ready("OpenFile") /\ fileOK(p) /\ cases(lookupPath(v, p), createFile(v, p, 0))

\* ext4File.Write: the copy of the inode is used, then refreshed.
Write(h, n) ==
    LET f == handles[h]
        written(w) ==
            /\ v' = [w.v EXCEPT !.behind = @ \cup IF w.v.node[f.num].links # v.node[f.num].links
                                                  THEN {f.num} ELSE {}]
            /\ handles' = [handles EXCEPT ![h] = [num |-> f.num, in |-> w.v.node[f.num],
                                                  off |-> f.off + w.done]]
            /\ ret' = [call |-> "Write", path |-> <<>>, ok |-> w.ok, about |-> {}, blocks |-> n]
    IN  /\ ready("Write") /\ f.in.mode # "dir"
        /\ f.off + n <= MaxBlk
        /\ written(writeFileRange(v, f.num, f.in, f.off, n))
        /\ calls' = calls + 1
        /\ UNCHANGED <<status, caller>>

Seek(h, off) ==
    /\ ready("Seek")
    /\ handles' = [handles EXCEPT ![h].off = off]
    /\ calls' = calls + 1
    /\ ret' = [call |-> "Seek", path |-> <<>>, ok |-> TRUE, about |-> {}, blocks |-> 0]
    /\ UNCHANGED <<v, status, caller>>

\* The callers have stopped, or one waits for ever.
Finished ==
    /\ calls = caller.calls \/ status # "ok"
    /\ UNCHANGED vars

Next ==
    \/ \E p \in Paths : \/ \E n \in 0..1 : WriteFile(p, n)
                        \/ Mkdir(p) \/ MkdirAll(p) \/ Remove(p) \/ RemoveAll(p) \/ Create(p)
                        \/ \E t \in Dirs : Symlink(t, p)
                        \/ \E q \in Paths : Rename(q, p) \/ Link(q, p)
                        \/ Chmod(p, 1)
                        \/ \E create, trunc, excl, append \in BOOLEAN :
                              OpenFile(p, create, trunc, excl, append)
    \/ \E h \in 1..Len(handles) : \/ \E n \in 1..2 : Write(h, n)
                                  \/ \E off \in 0..(MaxBlk - 1) : Seek(h, off)
    \/ Finished

Spec == Init /\ [][Next]_vars

-----------------------------------------------------------------------------
(***************************************************************************)
(* Properties.                                                             *)
(***************************************************************************)

\* The blocks an inode maps, as <<inode, logical>> pairs.
mapped == {x \in Inodes \X (0..(MaxBlk - 1)) : v.node[x[1]].ext[x[2]] # Hole}

\* No block belongs to two files, or twice to one: whatever handles write back
\* old copies of their inodes, whatever call runs out of blocks half way, and
\* although Rename, WriteFile and Remove forget blocks without freeing them.
\* Every mapped block is marked in the bitmap, so none can be handed out again.
NoSharedBlock ==
    \A x \in mapped :
        LET b == v.node[x[1]].ext[x[2]]
        IN  /\ blockUsed(v.al, b) /\ b # 0
            /\ \A y \in mapped : v.node[y[1]].ext[y[2]] = b => x = y

usedDirs == {n \in Inodes : inodeUsed(v.al, n) /\ v.node[n].mode = "dir"}

\* The places of all directories that name the inode, other than "." and "..".
namesOf(n) ==
    {y \in usedDirs \X ((0..(MaxBlk - 1)) \X (1..DirCap)) :
        y[2] \in places(v, v.node[y[1]], LAMBDA e : e.ino = n /\ e.name \in Names)}

\* Every name leads to an inode in use that has at least as many links as names:
\* through Link, Rename over an existing name, duplicate names, handles with old
\* copies of the inode and calls that fail half way, Remove never frees an inode
\* that another name stands for.  Except for an inode whose link count a
\* handle's Write has put back (ext4File.Write writes its whole copy).
LinksCoverNames ==
    \A n \in Inodes \ v.behind :
        /\ Cardinality(namesOf(n)) <= v.node[n].links
        /\ namesOf(n) # {} => inodeUsed(v.al, n)

\* A call that is about some names leaves what every other name in every
\* directory stands for as it was, even when the directory grows, its entries
\* are merged or duplicated, or the call fails half way.  Except that a handle
\* whose file is gone may write its copy of the inode over a directory that has
\* got the number since: that is a file then, and its names are lost.
OthersUntouched ==
    [][\A d \in usedDirs, n \in Names :
          <<d, n>> \in ret'.about \/ status' # "ok" \/ v'.node[d].mode # "dir"
          \/ find(v', d, n) = find(v, d, n)]_vars

\* The name is new and the directory has no place for it.
grows(V, p) ==
    lookupPath(V, p) = 0 /\ places(V, V.node[parent(V, p)], LAMBDA e : e.ino = 0) = {}

\* The inode is that of a file of n blocks.
holds(V, num, n) ==
    num # 0 /\ V.node[num].size = n /\ \A l \in 0..(n - 1) : V.node[num].ext[l] # Hole

\* "WriteFile writes data to the named file, creating or truncating it"
\* (docs/v2.md): a WriteFile that returns nil has left, under that name, what
\* it was given and no more, whatever handles, links and second files of the
\* name there are.  Not so where the directory had to grow for the name:
\* createFile then puts back its old copy of the directory's inode, and the name
\* is gone.  Nor below a symbolic link, which is followed to find the directory
\* and not to find the file.
WriteFileStores ==
    [][(ret'.call = "WriteFile" /\ ret'.ok /\ calls' > calls
        /\ ~grows(v, ret'.path) /\ isDir(v, lookupPath(v, Seqs!Front(ret'.path))))
       => holds(v', lookupPath(v', ret'.path), ret'.blocks)]_vars
=============================================================================
