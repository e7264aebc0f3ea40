--------------------------- MODULE MCExt4Flush ---------------------------
(***************************************************************************)
(* One block group: a bitmap, the inode table with two inodes, two data    *)
(* blocks.                                                                 *)
(***************************************************************************)
EXTENDS Ext4Flush

MCMetaBlocks == {1}
MCDataBlocks == {3, 4}
MCInodeCells == {101, 102}
===========================================================================
