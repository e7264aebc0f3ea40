---------------------------- MODULE MCExt4Volume ----------------------------
(***************************************************************************)
(* Ext4Volume for TLC.  File names are interchangeable.                    *)
(***************************************************************************)
EXTENDS Ext4Volume, TLC

NameSymmetry == Permutations(Names)

\* By path: every method three times, and four times with links of one kind.
\* Through handles that are never closed, with hard links beside them, until the
\* disk is full, and on inodes that have become directories.
MCCallers ==
    {[uses  |-> {"WriteFile", "Mkdir", "MkdirAll", "Remove", "RemoveAll", "Rename",
                 "Symlink", "Link"},
      calls |-> 3],
     [uses  |-> {"WriteFile", "Mkdir", "Remove", "RemoveAll", "Rename", "Link"}, calls |-> 4],
     [uses  |-> {"WriteFile", "Remove", "Rename", "Symlink"}, calls |-> 4],
     [uses  |-> {"WriteFile", "Mkdir", "Remove", "Create", "OpenFile", "Chmod", "Write", "Seek"},
      calls |-> 4],
     [uses  |-> {"Remove", "Link", "Create", "Write"}, calls |-> 5],
     [uses  |-> {"Remove", "Create", "OpenFile", "Write", "Seek"}, calls |-> 5],
     [uses  |-> {"Create", "Remove", "Mkdir", "WriteFile", "Write"}, calls |-> 5]}
=============================================================================
