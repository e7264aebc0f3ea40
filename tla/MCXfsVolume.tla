---------------------------- MODULE MCXfsVolume ----------------------------
(***************************************************************************)
(* XfsVolume for TLC.                                                      *)
(***************************************************************************)
EXTENDS XfsVolume

\* A log replayed, flushed and replayed again, the whole of it or without its first two
\* records, and the same with one record more; calls after a short log, reopened; handles;
\* flushes that fail or are interrupted.  In the last group of the fourth caller the free
\* list ends further than blocks are free.
MCCallers ==
    {[free |-> 1, fllast |-> <<1, 1>>, missed |-> m, records |-> 4, logged |-> {2, 3},
      uses |-> {"Unmount", "Open", "fail"}, data |-> {<<>>}, calls |-> 2] : m \in {0, 2}}
    \cup
    {[free |-> 1, fllast |-> <<1, 1>>, missed |-> 0, records |-> 5, logged |-> {3},
      uses |-> {"Unmount", "Open"}, data |-> {<<>>}, calls |-> 0],
     [free |-> 1, fllast |-> <<1, 1>>, missed |-> 0, records |-> 2, logged |-> {2},
      uses |-> {"WriteFile", "Chmod", "Unmount", "Open"}, data |-> {<<31, 32, 33>>}, calls |-> 5],
     [free |-> 2, fllast |-> <<2, 3>>, missed |-> 0, records |-> 1, logged |-> {},
      uses |-> {"WriteFile", "OpenFile", "Write", "Seek", "Chmod"}, data |-> {<<31>>, <<31, 32>>}, calls |-> 4],
     [free |-> 3, fllast |-> <<1, 3>>, missed |-> 0, records |-> 3, logged |-> {2, 3},
      uses |-> {"WriteFile", "Unmount", "Open", "fail"}, data |-> {<<31, 32, 33>>}, calls |-> 3]}
=============================================================================
