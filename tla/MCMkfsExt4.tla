------------------------------ MODULE MCMkfsExt4 ------------------------------
(* Real geometry: sizes at and around the edges of groups. *)
EXTENDS MkfsExt4

group == blocksPerGroup * blockSize

\* The smallest volume and one that ends inside a block, one group and one
\* with the first block of a second, a second and a third group that just do
\* or do not hold their own tables, ratios for which the inode table reaches
\* its largest size, and enough groups for every kind of backup.
MCInputs ==
    ({16 * 1024, 16 * 1024 + 3, group - 4, group, group + 4, 10 * group} \X {1, 16})
        \cup {<<group + 4 * k, 16>> : k \in 289 .. 295}
        \cup {<<2 * group + 4 * k, 64>> : k \in 86 .. 89}
        \cup {<<50 * group, 16>>}
=============================================================================
