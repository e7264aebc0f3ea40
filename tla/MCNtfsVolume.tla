---------------------------- MODULE MCNtfsVolume ----------------------------
(***************************************************************************)
(* NtfsVolume for TLC.                                                     *)
(***************************************************************************)
EXTENDS NtfsVolume

CONSTANT Third                 \* a name only some callers use

Two == Names \ {Third}
NameSymmetry == Permutations(Two)

MCContents == {[id |-> "x", n |-> 1], [id |-> "y", n |-> 2]}

\* By path, in directories that never spill: every method three times with
\* failing writes, the main ones four times without.  In a directory that spills
\* with the second name.  Through handles on one name, and on two, so that a
\* record is freed and given away while a handle has it.  With Unmount and death,
\* and a $BITMAP with room for one file's record.  No call makes more than nine
\* writes.
MCCallers ==
    {[uses |-> {"WriteFile", "Mkdir", "MkdirAll", "Remove", "RemoveAll", "Symlink", "Chmod"},
      names |-> Two, depth |-> 2, calls |-> 3, io |-> {1, 9}, rootCap |-> 4, mftRoom |-> 24],
     [uses |-> {"WriteFile", "Mkdir", "Rename", "Link"},
      names |-> Two, depth |-> 2, calls |-> 3, io |-> {1, 2, 9}, rootCap |-> 4, mftRoom |-> 24],
     [uses |-> {"WriteFile", "Mkdir", "Remove", "RemoveAll", "Rename"},
      names |-> Two, depth |-> 2, calls |-> 4, io |-> {9}, rootCap |-> 4, mftRoom |-> 24],
     [uses |-> {"WriteFile", "Link", "Remove"},
      names |-> Names, depth |-> 1, calls |-> 4, io |-> {3, 9}, rootCap |-> 1, mftRoom |-> 24],
     [uses |-> {"WriteFile", "Remove", "OpenFile", "Write", "Close"},
      names |-> {Third}, depth |-> 1, calls |-> 6, io |-> {1, 9}, rootCap |-> 2, mftRoom |-> 24],
     [uses |-> {"WriteFile", "Mkdir", "Remove", "OpenFile", "Write", "Close"},
      names |-> Two, depth |-> 1, calls |-> 5, io |-> {1, 9}, rootCap |-> 2, mftRoom |-> 24],
     [uses |-> {"WriteFile", "Remove", "Unmount", "Reopen"},
      names |-> Two, depth |-> 1, calls |-> 4, io |-> {0, 1, 2, 9}, rootCap |-> 2, mftRoom |-> 13]}
=============================================================================
