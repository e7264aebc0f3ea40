------------------------------ MODULE Builder ------------------------------
(***************************************************************************)
(* Builder (builder.go): queueing partitions, laying them out, writing the *)
(* protective MBR and the two copies of the GPT, re-attaching the result,  *)
(* and handing out raw sections of single partitions to mkfs.              *)
(*                                                                         *)
(* Commit is modelled write by write: a write may fail, leaving what it    *)
(* was writing partly written, and the process may die between two writes. *)
(* Commit may be called again, after success or failure, with more         *)
(* partitions queued.                                                      *)
(***************************************************************************)
EXTENDS PartitionTable, FiniteSets

CONSTANTS DiskSizes,     \* file sizes NewBuilder is given, in bytes
          Sizes,         \* sizes AddPartition is given, in bytes; 0 = fill the disk
          MaxParts,      \* bound on AddPartition
          NumEntries,    \* 128 in the code
          OpensUncommitted  \* whether callers OpenRaw a partition added since Commit

(***************************************************************************)
(* A disk below 67 sectors has no room for the five tables side by side.   *)
(* Negative sizes are not meaningful arguments of AddPartition.            *)
(***************************************************************************)
ASSUME BuilderAssumption ==
    /\ SectorSize = 512
    /\ DiskSizes \subseteq {s \in Nat : s >= 67 * SectorSize}
    /\ Sizes \subseteq Nat
    /\ MaxParts \in Nat
    /\ NumEntries \in Nat \ {0}
    /\ OpensUncommitted \in BOOLEAN

VARIABLES diskSize,  \* Builder.diskSize
          parts,     \* Builder.partitions: StartByte and SizeBytes by Index
          pc,        \* where Commit is; "idle" between calls
          i, cursor, \* the layout loop of Commit
          disk,      \* the five tables on the file
          committed, \* Builder.committed: the re-attached partitions, or NoImage
          fileOpen,  \* Builder.f has not been closed
          raws,      \* the open sectionRWS
          laidOut,   \* how many partitions the last successful Commit wrote
          erased     \* Detach has truncated the builder's own file since that Commit

vars == <<diskSize, parts, pc, i, cursor, disk, committed, fileOpen, raws, laidOut, erased>>

NoImage == [parts |-> <<>>, isGPT |-> FALSE, err |-> TRUE]

UnusedEntry == [used |-> FALSE, first |-> 0, last |-> 0]
NoEntries   == [e \in 1..NumEntries |-> UnusedEntry]
Overwritten == [used |-> FALSE, first |-> -1, last |-> -1]

\* A file that holds no table: new, or truncated to nothing and extended again.
BlankDisk == [mbr |-> FALSE, hdr1 |-> FALSE, ents1 |-> NoEntries,
              hdr2 |-> FALSE, ents2 |-> NoEntries]

Init ==
    /\ diskSize \in DiskSizes
    /\ parts = <<>>
    /\ pc = "idle" /\ i = 1 /\ cursor = 0
    /\ disk = BlankDisk
    /\ committed = NoImage
    /\ fileOpen = TRUE
    /\ raws = {}
    /\ laidOut = 0
    /\ erased = FALSE

AddPartition(size) ==
    /\ pc = "idle"
    /\ Len(parts) < MaxParts
    /\ parts' = Append(parts, [start |-> 0, size |-> size])
    /\ UNCHANGED <<diskSize, pc, i, cursor, disk, committed, fileOpen, raws, laidOut, erased>>

-----------------------------------------------------------------------------
(***************************************************************************)
(* Commit.                                                                 *)
(***************************************************************************)
totalSectors == diskSize \div SectorSize
firstUsable  == 34
lastUsable   == totalSectors - 34 - 1

\* Mutant of goDiv: rounds towards minus infinity.
goDiv_Floor(a, b) == a \div b

\* Go's integer division truncates.
goDiv(a, b) == IF a >= 0 THEN a \div b ELSE -((-a) \div b)

\* SizeBytes before and after it is rounded up to whole sectors.
requested(p, c) == IF p.size = 0 THEN (lastUsable - c + 1) * SectorSize ELSE p.size

sectorsOf(p, c) == goDiv(requested(p, c) + SectorSize - 1, SectorSize)

placed(p, c) == [start |-> c * SectorSize, size |-> sectorsOf(p, c) * SectorSize]

exceeds(p, c) == c + sectorsOf(p, c) - 1 > lastUsable

\* Mutant of BeginCommit: a second Commit goes on where the first one ended.
BeginCommit_KeepsCursor ==
    /\ pc = "idle"
    /\ pc' = "extents"
    /\ i' = 1
    /\ cursor' = IF cursor = 0 THEN firstUsable ELSE cursor
    /\ UNCHANGED <<diskSize, parts, disk, committed, fileOpen, raws, laidOut, erased>>

BeginCommit ==
    /\ pc = "idle"
    /\ pc' = "extents"
    /\ i' = 1
    /\ cursor' = firstUsable
    /\ UNCHANGED <<diskSize, parts, disk, committed, fileOpen, raws, laidOut, erased>>

\* Mutant of AssignExtent: steps over every second partition.
AssignExtent_SkipsOne ==
    /\ pc = "extents"
    /\ i <= Len(parts)
    /\ parts' = [parts EXCEPT ![i] = placed(@, cursor)]
    /\ IF exceeds(parts[i], cursor)
       THEN pc' = "idle" /\ UNCHANGED <<i, cursor>>
       ELSE /\ pc' = pc
            /\ i' = i + 2
            /\ cursor' = cursor + sectorsOf(parts[i], cursor)
    /\ UNCHANGED <<diskSize, disk, committed, fileOpen, raws, laidOut, erased>>

\* One iteration of the layout loop.  The size is stored before the check, so a
\* partition that does not fit keeps what it was given.
AssignExtent ==
    /\ pc = "extents"
    /\ i <= Len(parts)
    /\ parts' = [parts EXCEPT ![i] = placed(@, cursor)]
    /\ IF exceeds(parts[i], cursor)
       THEN pc' = "idle" /\ UNCHANGED <<i, cursor>>
       ELSE /\ pc' = pc
            /\ i' = i + 1
            /\ cursor' = cursor + sectorsOf(parts[i], cursor)
    /\ UNCHANGED <<diskSize, disk, committed, fileOpen, raws, laidOut, erased>>

ExtentsAssigned ==
    /\ pc = "extents"
    /\ i > Len(parts)
    /\ pc' = "mbr"
    /\ UNCHANGED <<diskSize, parts, i, cursor, disk, committed, fileOpen, raws, laidOut, erased>>

entryOf(p) ==
    [used  |-> TRUE,
     first |-> p.start \div SectorSize,
     last  |-> p.start \div SectorSize + p.size \div SectorSize - 1]

newEntries ==
    [e \in 1..NumEntries |-> IF e <= Len(parts) THEN entryOf(parts[e]) ELSE UnusedEntry]

\* An array of entries the write of which stopped after n of them.
torn(old, n) == [e \in 1..NumEntries |-> IF e <= n THEN newEntries[e] ELSE old[e]]

\* A write of one sector: done, or failed with the sector old or new.
WriteMBR ==
    /\ pc = "mbr"
    /\ \/ /\ fileOpen
          /\ disk' = [disk EXCEPT !.mbr = TRUE]
          /\ pc' \in {"hdr1", "idle"}
       \/ /\ UNCHANGED disk
          /\ pc' = "idle"
    /\ UNCHANGED <<diskSize, parts, i, cursor, committed, fileOpen, raws, laidOut, erased>>

\* The entry array has room for 128 partitions; one more is a slice out of range.
BuildEntriesPanics ==
    /\ pc = "hdr1"
    /\ Len(parts) > NumEntries
    /\ pc' = "panicked"
    /\ UNCHANGED <<diskSize, parts, i, cursor, disk, committed, fileOpen, raws, laidOut, erased>>

WritePrimaryHeader ==
    /\ pc = "hdr1"
    /\ Len(parts) <= NumEntries
    /\ \/ /\ disk' = [disk EXCEPT !.hdr1 = TRUE]
          /\ pc' \in {"ents1", "idle"}
       \/ /\ UNCHANGED disk
          /\ pc' = "idle"
    /\ UNCHANGED <<diskSize, parts, i, cursor, committed, fileOpen, raws, laidOut, erased>>

WritePrimaryEntries ==
    /\ pc = "ents1"
    /\ \/ /\ disk' = [disk EXCEPT !.ents1 = newEntries]
          /\ pc' = "ents2"
       \/ /\ \E n \in 0..NumEntries : disk' = [disk EXCEPT !.ents1 = torn(@, n)]
          /\ pc' = "idle"
    /\ UNCHANGED <<diskSize, parts, i, cursor, committed, fileOpen, raws, laidOut, erased>>

WriteSecondaryEntries ==
    /\ pc = "ents2"
    /\ \/ /\ disk' = [disk EXCEPT !.ents2 = newEntries]
          /\ pc' = "hdr2"
       \/ /\ \E n \in 0..NumEntries : disk' = [disk EXCEPT !.ents2 = torn(@, n)]
          /\ pc' = "idle"
    /\ UNCHANGED <<diskSize, parts, i, cursor, committed, fileOpen, raws, laidOut, erased>>

WriteSecondaryHeader ==
    /\ pc = "hdr2"
    /\ \/ /\ disk' = [disk EXCEPT !.hdr2 = TRUE]
          /\ pc' \in {"attach", "idle"}
       \/ /\ UNCHANGED disk
          /\ pc' = "idle"
    /\ UNCHANGED <<diskSize, parts, i, cursor, committed, fileOpen, raws, laidOut, erased>>

\* The file as Attach's parsers see it.
protectiveMBR ==
    <<[type |-> MbrProtective, start |-> 1, count |-> totalSectors - 1],
      EmptyMbrEntry, EmptyMbrEntry, EmptyMbrEntry>>
blankMBR == <<EmptyMbrEntry, EmptyMbrEntry, EmptyMbrEntry, EmptyMbrEntry>>

onDisk == [sig     |-> disk.mbr,
           mbr     |-> IF disk.mbr THEN protectiveMBR ELSE blankMBR,
           hdr     |-> disk.hdr1,
           entries |-> disk.ents1]

attached == attachParts(onDisk, diskSize)

ReAttach ==
    /\ pc = "attach"
    /\ \/ /\ ~attached.err
          /\ committed' = attached
          /\ laidOut' = Len(parts)
          /\ erased' = FALSE
       \/ UNCHANGED <<committed, laidOut, erased>>   \* the open or a read failed
    /\ pc' = "idle"
    /\ UNCHANGED <<diskSize, parts, i, cursor, disk, fileOpen, raws>>

-----------------------------------------------------------------------------
(***************************************************************************)
(* Raw sections, Detach and process death.                                 *)
(***************************************************************************)

\* OpenRaw asks only whether some Commit has succeeded.
OpenRaw(n) ==
    /\ pc = "idle"
    /\ committed # NoImage
    /\ n \in 1..Len(parts)
    /\ n <= laidOut \/ OpensUncommitted
    /\ raws' = raws \cup {[idx |-> n, base |-> parts[n].start, size |-> parts[n].size]}
    /\ UNCHANGED <<diskSize, parts, pc, i, cursor, disk, committed, fileOpen, laidOut, erased>>

\* Mutant of rawFits: the position is not counted.
rawFits_IgnoresPos(s, pos, len) == len <= s.size

rawFits(s, pos, len) == pos + len <= s.size

overlaps(lo, hi, lba, n) == lo < (lba + n) * SectorSize /\ lba * SectorSize < hi

\* sectionRWS.Write after a Seek to pos: bytes [lo, hi) of the file are replaced.
RawWrite(s, pos, len) ==
    LET lo == s.base + pos
        hi == s.base + pos + len
        hits(lba, n) == len > 0 /\ overlaps(lo, hi, lba, n)
        kept(ents, hit) == IF hit THEN [e \in 1..NumEntries |-> Overwritten] ELSE ents
    IN  /\ pc = "idle"
        /\ fileOpen
        /\ rawFits(s, pos, len)
        /\ disk' = [mbr   |-> disk.mbr  /\ ~hits(0, 1),
                    hdr1  |-> disk.hdr1 /\ ~hits(1, 1),
                    ents1 |-> kept(disk.ents1, hits(2, 32)),
                    ents2 |-> kept(disk.ents2, hits(totalSectors - 33, 32)),
                    hdr2  |-> disk.hdr2 /\ ~hits(totalSectors - 1, 1)]
        /\ UNCHANGED <<diskSize, parts, pc, i, cursor, committed, fileOpen, raws, laidOut, erased>>

\* The path Detach is given: none, the file the builder was made on, another one.
OutPaths == {"inPlace", "ownFile", "otherFile"}

\* Before a Commit, Detach closes the builder's file whatever the path.  After
\* one it goes to Image.Detach, which closes the image's own descriptor; the
\* builder's stays open.  Given the path of the file itself, os.Create empties
\* the file the regions are then copied from, so that zeros are copied over
\* zeros.  An Unmount that fails, or os.Create itself, leaves the file alone.
Detach(out) ==
    /\ pc = "idle"
    /\ fileOpen' = (fileOpen /\ committed # NoImage)
    /\ \/ /\ committed # NoImage /\ out = "ownFile"
          /\ disk' = BlankDisk
          /\ erased' = TRUE
       \/ UNCHANGED <<disk, erased>>
    /\ UNCHANGED <<diskSize, parts, pc, i, cursor, committed, raws, laidOut>>

\* The process dies; the file keeps what has been written.
Die ==
    /\ pc # "dead"
    /\ pc' = "dead"
    /\ UNCHANGED <<diskSize, parts, i, cursor, disk, committed, fileOpen, raws, laidOut, erased>>

Ended == pc = "dead" /\ UNCHANGED vars

Commit == \/ BeginCommit \/ AssignExtent \/ ExtentsAssigned \/ WriteMBR
          \/ BuildEntriesPanics \/ WritePrimaryHeader \/ WritePrimaryEntries
          \/ WriteSecondaryEntries \/ WriteSecondaryHeader \/ ReAttach

Next ==
    \/ \E size \in Sizes : AddPartition(size)
    \/ Commit
    \/ \E n \in 1..MaxParts : OpenRaw(n)
    \/ \E s \in raws, pos, len \in Sizes : RawWrite(s, pos, len)
    \/ \E out \in OutPaths : Detach(out)
    \/ Die
    \/ Ended

Spec == Init /\ [][Next]_vars

-----------------------------------------------------------------------------
(***************************************************************************)
(* Properties.                                                             *)
(***************************************************************************)

Entry == [used : BOOLEAN, first : Int, last : Int]

TypeOK ==
    /\ diskSize \in DiskSizes
    /\ parts \in Seq([start : Int, size : Int])
    /\ pc \in {"idle", "extents", "mbr", "hdr1", "ents1", "ents2", "hdr2",
               "attach", "panicked", "dead"}
    /\ i \in 1..(Len(parts) + 1)
    /\ cursor \in Int
    /\ disk \in [mbr : BOOLEAN, hdr1 : BOOLEAN, ents1 : [1..NumEntries -> Entry],
                 hdr2 : BOOLEAN, ents2 : [1..NumEntries -> Entry]]
    /\ raws \subseteq [idx : Nat, base : Int, size : Int]
    /\ fileOpen \in BOOLEAN
    /\ laidOut \in 0..Len(parts)
    /\ erased \in BOOLEAN

end(p) == p.start + p.size

\* The partitions of a successful Commit lie in the usable area (behind the
\* primary GPT, in front of the backup one) and do not overlap, whatever sizes
\* were asked for, and remain so through later, possibly failing, Commits.
CommittedDisjoint ==
    /\ \A n \in 1..laidOut :
          /\ parts[n].size >= 0
          /\ firstUsable * SectorSize <= parts[n].start
          /\ end(parts[n]) <= (lastUsable + 1) * SectorSize
    /\ \A m, n \in 1..laidOut : m < n => end(parts[m]) <= parts[n].start

\* A partition that was committed once never moves and never changes its size:
\* file systems made on it, mounted volumes and raw sections stay valid.
CommittedNeverMoves ==
    [][/\ laidOut <= laidOut'
       /\ \A n \in 1..laidOut : parts'[n] = parts[n]]_vars

committedInTable(t) ==
    \A n \in 1..laidOut :
        \E j \in DOMAIN t.parts : t.parts[j] = [idx   |-> n,
                                                start |-> parts[n].start,
                                                size  |-> parts[n].size]

\* Once a Commit has succeeded, the file can be attached at every later moment
\* and both copies of its table hold all committed partitions: not a failed or
\* interrupted re-Commit, not a torn entry array, not a write through a raw
\* section, not a Detach in place or to another path loses one.  A Detach to
\* the builder's own path does lose them: it empties the file, and the property
\* claims nothing from then on until a Commit succeeds again.
TableSurvives ==
    laidOut > 0 /\ ~erased =>
        /\ ~attached.err /\ attached.isGPT /\ committedInTable(attached)
        /\ disk.hdr2
        /\ \A n \in 1..laidOut : disk.ents2[n] = entryOf(parts[n])

=============================================================================
