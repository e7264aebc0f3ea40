--------------------------- MODULE MCExt4Extents ---------------------------
(***************************************************************************)
(* Ext4Extents for TLC: two groups, the file's own with most blocks free   *)
(* or with few, so that the tree grows through both groups until the disk  *)
(* is full.                                                                *)
(***************************************************************************)
EXTENDS Ext4Extents

bitmaps(first, second) == [g \in Groups |-> IF g = 0 THEN first ELSE second]

MCUsedBlocks == {bitmaps({0, 1, 2}, {}), bitmaps({0, 1, 2, 4}, {0, 2, 5})}
MCUsedInodes == {bitmaps({0}, {})}
=============================================================================
