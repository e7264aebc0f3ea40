----------------------------- MODULE MCBuilder -----------------------------
(***************************************************************************)
(* Disks around the smallest that can hold a partition (69 sectors), one   *)
(* of them not a whole number of sectors; sizes that fill the disk, that   *)
(* need rounding, that fit exactly and that do not fit.                    *)
(***************************************************************************)
EXTENDS Builder

MCDiskSizes == {67 * 512, 69 * 512, 71 * 512 + 100}
MCSizes     == {0, 1, 512, 1300}
=============================================================================
