---------------------------- MODULE MCRegionMap ----------------------------
(***************************************************************************)
(* buildRegions on what Attach's parsers return for small MBR and GPT      *)
(* images, damaged and careless ones included.                             *)
(***************************************************************************)
EXTENDS RegionMap

PT == INSTANCE PartitionTable

MbrEntry == {PT!EmptyMbrEntry} \cup
            [type : {PT!MbrLinux}, start : {0, 1, 2, 4}, count : {1, 3}]

MbrImages == {[sig |-> TRUE, hdr |-> FALSE, entries |-> <<>>,
               mbr |-> <<a, b, c, PT!EmptyMbrEntry>>] : a, b, c \in MbrEntry}

ProtectiveMbr == <<[type |-> PT!MbrProtective, start |-> 1, count |-> 80],
                   PT!EmptyMbrEntry, PT!EmptyMbrEntry, PT!EmptyMbrEntry>>

\* One entry ends before it starts; one starts inside the reserved area.
GptEntry == {[used |-> FALSE, first |-> 0, last |-> 0]} \cup
            [used : {TRUE}, first : {33, 34, 36}, last : {33, 35, 37, 44}]

GptImages == {[sig |-> TRUE, hdr |-> TRUE, entries |-> <<a, b>>,
               mbr |-> ProtectiveMbr] : a, b \in GptEntry}

\* File sizes in bytes, one of them not a whole number of sectors.
MbrSizes == {2, 8, 13}
GptSizes == {78, 83}

attached(images, sizes) ==
    {[parts |-> a.parts, size |-> s, isGPT |-> a.isGPT] :
        <<a, s>> \in {<<r, z>> \in
            {<<PT!attachParts(i, z), z>> : i \in images, z \in sizes} : ~r.err}}

MCInputs == attached(MbrImages, MbrSizes) \cup attached(GptImages, GptSizes)
=============================================================================
