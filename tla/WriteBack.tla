----------------------------- MODULE WriteBack -----------------------------
(***************************************************************************)
(* What a volume promises about durability: updates accumulate in memory,  *)
(* Unmount carries them to the disk, in any order and possibly only in     *)
(* part, and reports success only when the disk holds all of them.  An     *)
(* Unmount that fails loses nothing and can be called again.  A crash      *)
(* falls back to the disk.                                                 *)
(***************************************************************************)
CONSTANTS Cells, Updates

VARIABLES mem,         \* the updates the user has made, by cell
          disk,        \* the ones that are durable
          unmounting

vars == <<mem, disk, unmounting>>

Init ==
    /\ mem = [c \in Cells |-> {}]
    /\ disk = mem
    /\ unmounting = FALSE

Update(c, u) ==
    /\ ~unmounting
    /\ mem' = [mem EXCEPT ![c] = @ \cup {u}]
    /\ UNCHANGED <<disk, unmounting>>

Begin ==
    /\ ~unmounting
    /\ unmounting' = TRUE
    /\ UNCHANGED <<mem, disk>>

writes(S) == disk' = [c \in Cells |-> IF c \in S THEN mem[c] ELSE disk[c]]

Persist(S) ==
    /\ unmounting
    /\ writes(S)
    /\ UNCHANGED <<mem, unmounting>>

Succeed ==
    /\ unmounting
    /\ disk = mem
    /\ unmounting' = FALSE
    /\ UNCHANGED <<mem, disk>>

Fail(S) ==
    /\ unmounting
    /\ writes(S)
    /\ unmounting' = FALSE
    /\ UNCHANGED mem

Crash ==
    /\ mem' = disk
    /\ unmounting' = FALSE
    /\ UNCHANGED disk

Next ==
    \/ \E c \in Cells, u \in Updates : Update(c, u)
    \/ Begin \/ Succeed \/ Crash
    \/ \E S \in SUBSET Cells : Persist(S) \/ Fail(S)

Spec == Init /\ [][Next]_vars
=============================================================================
