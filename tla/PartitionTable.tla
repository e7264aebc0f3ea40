--------------------------- MODULE PartitionTable ---------------------------
(***************************************************************************)
(* What Attach reads of a disk image before it knows its partitions: the   *)
(* two partition-table parsers (partition/gpt, partition/mbr) and the      *)
(* decision Attach takes between them.                                     *)
(*                                                                         *)
(* A partition-table image is a record                                     *)
(*   sig     sector 0 ends in 55 AA                                        *)
(*   mbr     the four MBR entries [type, start, count], LBAs in sectors    *)
(*   hdr     the sector at LBA 1 begins with "EFI PART"                    *)
(*   entries the GPT entry array the primary header points at: a sequence  *)
(*           of [used, first, last], `used' being a non-zero type GUID     *)
(* GUIDs, names and CRCs are left out: no parser looks at a CRC, and no    *)
(* decision depends on a name or on which non-zero GUID an entry has.      *)
(***************************************************************************)
EXTENDS Integers, Sequences, FiniteSets

CONSTANT SectorSize    \* 512 in every package; kept symbolic

ASSUME SectorSizeAssumption == SectorSize \in Nat \ {0}

\* LBAs before the first usable one: MBR, header, 32 sectors of entries.
GptReserved == 34

\* Partition types the code distinguishes: unused, GPT protective, any other.
MbrEmpty      == 0
MbrProtective == 238   \* 0xEE
MbrLinux      == 131   \* stands for every other type byte

MbrEntries == 4        \* mbr.maxEntries
EmptyMbrEntry == [type |-> MbrEmpty, start |-> 0, count |-> 0]

\* What a parser returns: a list of partitions, or an error.
Parsed(parts) == [err |-> FALSE, parts |-> parts]
ParseError    == [err |-> TRUE,  parts |-> <<>>]

\* The slots a parser has kept, in the order its loop meets them.
rank(slots, n) == Cardinality({m \in slots : m <= n})
inOrder(slots) == [k \in 1..Cardinality(slots) |-> CHOOSE n \in slots : rank(slots, n) = k]

(***************************************************************************)
(* gpt.Parse.  A short read of the MBR, the header or the entry array (at  *)
(* its standard place, LBA 2 to 33) is an error.  "No GPT" and "a GPT      *)
(* without partitions" are both the empty list, as both are a nil slice in *)
(* the code.  An entry keeps its slot number as its index.                 *)
(* EndLBA-StartLBA+1 is unsigned in the code and converted to int64        *)
(* afterwards, which is the signed difference.                             *)
(***************************************************************************)
hasProtective(img) == \E i \in 1..MbrEntries : img.mbr[i].type = MbrProtective

gptPartition(e, i) ==
    [idx   |-> i,
     start |-> e.first * SectorSize,
     size  |-> (e.last - e.first + 1) * SectorSize]

gptParse(img, size) ==
    IF size < SectorSize   THEN ParseError
    ELSE IF ~hasProtective(img) THEN Parsed(<<>>)
    ELSE IF ~img.hdr \/ size < GptReserved * SectorSize THEN ParseError
    ELSE LET slots == inOrder({i \in DOMAIN img.entries : img.entries[i].used})
         IN  Parsed([k \in DOMAIN slots |->
                        gptPartition(img.entries[slots[k]], slots[k])])

(***************************************************************************)
(* mbr.Parse.  Entries are read in order; a protective entry reached before*)
(* the end discards the ones already collected.  Only the START of an      *)
(* entry is checked against the size of the disk.                          *)
(***************************************************************************)
mbrPartition(e, i) ==
    [idx |-> i, start |-> e.start * SectorSize, size |-> e.count * SectorSize]

mbrSkips(e, diskSize) ==
    \/ e.type = MbrEmpty
    \/ e.count = 0
    \/ diskSize > 0 /\ e.start * SectorSize >= diskSize

mbrSaysGPT(img) ==
    \E i \in 1..MbrEntries : img.mbr[i].type = MbrProtective /\ img.mbr[i].count # 0

mbrParse(img, diskSize) ==
    IF ~img.sig \/ mbrSaysGPT(img) THEN Parsed(<<>>)
    ELSE LET kept == inOrder({i \in 1..MbrEntries : ~mbrSkips(img.mbr[i], diskSize)})
         IN  Parsed([k \in DOMAIN kept |->
                        mbrPartition(img.mbr[kept[k]], kept[k])])

(***************************************************************************)
(* Attach: GPT first, then MBR, then the whole image as one partition.     *)
(* isGPT records that the GPT parser found at least one partition.         *)
(***************************************************************************)
wholeDisk(size) == <<[idx |-> 1, start |-> 0, size |-> size]>>

attachParts(img, size) ==
    LET g == gptParse(img, size)
        m == mbrParse(img, size)
    IN  IF g.err                THEN [err |-> TRUE,  isGPT |-> FALSE, parts |-> <<>>]
        ELSE IF g.parts # <<>>  THEN [err |-> FALSE, isGPT |-> TRUE,  parts |-> g.parts]
        ELSE IF m.parts # <<>>  THEN [err |-> FALSE, isGPT |-> FALSE, parts |-> m.parts]
        ELSE                         [err |-> FALSE, isGPT |-> FALSE, parts |-> wholeDisk(size)]

=============================================================================
