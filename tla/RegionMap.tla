----------------------------- MODULE RegionMap -----------------------------
(***************************************************************************)
(* buildRegions (region.go): the map of a whole disk image that Attach     *)
(* computes from the partition list, that Mount looks partitions up in and *)
(* that Detach copies region by region when it writes a new image.         *)
(*                                                                         *)
(* The function is modelled as the loop it is: sort, boot region, one step *)
(* per partition, tail.  Its inputs are whatever the two parsers accept,   *)
(* which does not exclude partitions that overlap, that run past the end   *)
(* of the file, or that have a size of zero or less.                       *)
(***************************************************************************)
EXTENDS Integers, Sequences

CONSTANTS SectorSize,  \* 512 in the code
          Inputs       \* the (parts, fileSize, isGPT) buildRegions is called with

Partition == [idx : Nat, start : Int, size : Int]

ASSUME RegionMapAssumption ==
    /\ SectorSize \in Nat \ {0}
    /\ Inputs \subseteq [parts : Seq(Partition), size : Nat, isGPT : BOOLEAN]

VARIABLES in,       \* the arguments
          spans,    \* the sorted (start, end, pIdx) list
          cursor,
          k,        \* number of spans already emitted
          regions,  \* the result so far
          pc

vars == <<in, spans, cursor, k, regions, pc>>

Kinds  == {"boot", "partition", "gap", "backup"}
Span   == [start : Int, end : Int, pIdx : Nat]
Region == [kind : Kinds, start : Int, end : Int, pIdx : Nat]

boot(e)       == [kind |-> "boot",      start |-> 0, end |-> e, pIdx |-> 0]
gap(s, e)     == [kind |-> "gap",       start |-> s, end |-> e, pIdx |-> 0]
part(s)       == [kind |-> "partition", start |-> s.start, end |-> s.end, pIdx |-> s.pIdx]
backup(s, e)  == [kind |-> "backup",    start |-> s, end |-> e, pIdx |-> 0]

spanOf(p) == [start |-> p.start, end |-> p.start + p.size, pIdx |-> p.idx]

\* sort.Slice is not stable: any ordering of equal starts may come out.
sortings(parts) ==
    {[i \in DOMAIN parts |-> spanOf(parts[f[i]])] :
        f \in {g \in [DOMAIN parts -> DOMAIN parts] :
                  /\ \A i, j \in DOMAIN parts : g[i] = g[j] => i = j
                  /\ \A i, j \in DOMAIN parts :
                        i <= j => parts[g[i]].start <= parts[g[j]].start}}

Init ==
    /\ in \in Inputs
    /\ spans = <<>> /\ cursor = 0 /\ k = 0 /\ regions = <<>>
    /\ pc = "sort"

SortSpans ==
    /\ pc = "sort"
    /\ spans' \in sortings(in.parts)
    /\ pc' = "boot"
    /\ UNCHANGED <<in, cursor, k, regions>>

\* GPT reserves 34 sectors; a first partition that starts earlier cuts it short.
bootLimit(ss, isGPT) ==
    LET limit == (IF isGPT THEN 34 ELSE 1) * SectorSize
    IN  IF ss # <<>> /\ ss[1].start < limit THEN ss[1].start ELSE limit

EmitBoot ==
    /\ pc = "boot"
    /\ LET bootEnd == bootLimit(spans, in.isGPT)
       IN  /\ cursor' = bootEnd
           /\ regions' = IF bootEnd > 0 THEN <<boot(bootEnd)>> ELSE <<>>
    /\ pc' = "spans"
    /\ UNCHANGED <<in, spans, k>>

\* Mutant of fillTo: a gap of one sector is taken for alignment and dropped.
fillTo_IgnoresSmall(start) ==
    IF start > cursor + SectorSize THEN Append(regions, gap(cursor, start)) ELSE regions

\* The regions so far, with a gap up to `start' if there is one.
fillTo(start) ==
    IF start > cursor THEN Append(regions, gap(cursor, start)) ELSE regions

\* Mutant of EmitSpan: the loop steps over every second partition.
EmitSpan_SkipsOne ==
    /\ pc = "spans"
    /\ k < Len(spans)
    /\ LET s == spans[k + 1]
       IN  /\ regions' = Append(fillTo(s.start), part(s))
           /\ cursor' = s.end
    /\ k' = k + 2
    /\ UNCHANGED <<in, spans, pc>>

EmitSpan ==
    /\ pc = "spans"
    /\ k < Len(spans)
    /\ LET s == spans[k + 1]
       IN  /\ regions' = Append(fillTo(s.start), part(s))
           /\ cursor' = s.end
    /\ k' = k + 1
    /\ UNCHANGED <<in, spans, pc>>

\* Mutant of tailRegions: the backup region takes in the 32 sectors of entries.
tailRegions_WholeBackup ==
    IF in.isGPT /\ in.size > 0
    THEN Append(fillTo(in.size - 33 * SectorSize),
                backup(in.size - 33 * SectorSize, in.size))
    ELSE fillTo(in.size)

tailRegions ==
    IF in.isGPT /\ in.size > 0
    THEN Append(fillTo(in.size - SectorSize), backup(in.size - SectorSize, in.size))
    ELSE fillTo(in.size)

EmitTail ==
    /\ pc = "spans"
    /\ k = Len(spans)
    /\ regions' = tailRegions
    /\ pc' = "done"
    /\ UNCHANGED <<in, spans, cursor, k>>

Done == pc = "done" /\ UNCHANGED vars

Next == SortSpans \/ EmitBoot \/ EmitSpan \/ EmitTail \/ Done

Spec == Init /\ [][Next]_vars

-----------------------------------------------------------------------------
(***************************************************************************)
(* Properties.                                                             *)
(***************************************************************************)

TypeOK ==
    /\ in \in [parts : Seq(Partition), size : Nat, isGPT : BOOLEAN]
    /\ spans \in Seq(Span)
    /\ cursor \in Int
    /\ k \in 0..Len(spans)
    /\ regions \in Seq(Region)
    /\ pc \in {"sort", "boot", "spans", "done"}

covers(b) == \E i \in 1..Len(regions) : regions[i].start <= b /\ b < regions[i].end

\* Every byte of the image is in some region of the finished map, whatever the
\* partition table says (overlaps, a nested or an empty partition, one that
\* runs past the end): Detach's region-by-region copy to a new file leaves no
\* byte of the source behind (detach.go, the copyRange loop).
CopiesEveryByte ==
    pc = "done" => \A b \in 0..(in.size - 1) : covers(b)

\* The tables mkfs tools write: disjoint partitions between the reserved areas.
tailStart == IF in.isGPT THEN in.size - SectorSize ELSE in.size

wellFormed ==
    /\ \A i \in DOMAIN spans : spans[i].start <= spans[i].end /\ 0 <= spans[i].start
    /\ \A i \in DOMAIN spans : spans[i].end <= tailStart
    /\ \A i, j \in DOMAIN spans : i < j => spans[i].end <= spans[j].start
    /\ bootLimit(spans, in.isGPT) <= tailStart

adjacent(i) == regions[i].end = regions[i + 1].start

\* For such a table the map is a tiling: it starts at byte 0, each region begins
\* where the one before ends, and the last one ends with the file, so that
\* every byte is copied exactly once and belongs to exactly one partition.
Tiling ==
    (pc = "done" /\ wellFormed /\ in.size > 0) =>
        /\ regions # <<>>
        /\ regions[1].start = 0
        /\ regions[Len(regions)].end = in.size
        /\ \A i \in 1..(Len(regions) - 1) : adjacent(i)
=============================================================================
