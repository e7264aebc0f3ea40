---------------------------- MODULE MCBtrfsVolume ----------------------------
(***************************************************************************)
(* BtrfsVolume for TLC.                                                    *)
(***************************************************************************)
EXTENDS BtrfsVolume

CONSTANTS n1, n2

Flat == {<<n1>>, <<n2>>}
Deep == Flat \cup {<<n1, n2>>, <<n2, n1>>}
Small == {<<>>, <<11>>}
Big   == {<<11>>, <<12, 13>>}

\* Two files while the leaf splits;
\* longer, with a leaf that splits later; directories and links; handles and
\* Unmount; volume and subvolume, reopened, with leaves that split soon; failing
\* and interrupted flushes with the chunk elsewhere and at its logical address.
MCCallers ==
    {[uses |-> {"WriteFile", "Create", "Remove", "Rename", "Link", "Chmod"}, paths |-> Flat,
      data |-> Small, calls |-> 4, cap |-> 8, shift |-> 0],
     [uses |-> {"WriteFile", "Remove", "Rename"}, paths |-> Flat,
      data |-> {<<11>>}, calls |-> 6, cap |-> 9, shift |-> 0],
     [uses |-> {"WriteFile", "Mkdir", "MkdirAll", "Remove", "RemoveAll", "Rename", "Symlink"}, paths |-> Deep,
      data |-> {<<11>>}, calls |-> 3, cap |-> 40, shift |-> 0],
     [uses |-> {"Remove", "OpenFile", "Write", "Seek", "Link", "Unmount"}, paths |-> {<<n1>>},
      data |-> Big, calls |-> 5, cap |-> 40, shift |-> 0],
     [uses |-> {"WriteFile", "Remove", "OpenSubvol", "Unmount", "Reopen"}, paths |-> {<<n1>>},
      data |-> {<<11>>}, calls |-> 6, cap |-> 5, shift |-> 0],
     [uses |-> {"WriteFile", "Remove", "Unmount", "Reopen", "fail"}, paths |-> {<<n1>>},
      data |-> Big, calls |-> 5, cap |-> 40, shift |-> 1],
     [uses |-> {"WriteFile", "Remove", "Unmount", "Reopen", "fail"}, paths |-> Flat,
      data |-> Big, calls |-> 5, cap |-> 40, shift |-> 0]}
=============================================================================
