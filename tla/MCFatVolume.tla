---------------------------- MODULE MCFatVolume ----------------------------
(***************************************************************************)
(* FatVolume for TLC.  Names that are alike in length are interchangeable. *)
(***************************************************************************)
EXTENDS FatVolume, TLC

ShortNames == Names \ LongNames
NameSymmetry == Permutations(LongNames) \cup Permutations(ShortNames)

\* By path with short names: every method three times, the main ones four
\* times; and through handles, with a long name and a short one, without
\* removing anything.
MCCallers ==
    {[uses  |-> {"WriteFile", "Mkdir", "MkdirAll", "Remove", "RemoveAll", "Rename", "Chtimes"},
      names |-> ShortNames,
      calls |-> 3],
     [uses  |-> {"WriteFile", "Mkdir", "Remove", "RemoveAll", "Rename"},
      names |-> ShortNames,
      calls |-> 4]}
    \cup
    {[uses  |-> {"WriteFile", "Mkdir", "Create", "OpenFile", "Write", "Seek", "Close"},
      names |-> {s} \cup LongNames,
      calls |-> 4] : s \in ShortNames}
=============================================================================
