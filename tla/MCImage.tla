------------------------------ MODULE MCImage ------------------------------
(***************************************************************************)
(* A partition of each kind; a third volume lets one be mounted twice.     *)
(***************************************************************************)
EXTENDS Image

OneOfEach == <<"cached", "btrfs", "fat">>
AllCached == <<"cached", "cached">>
=============================================================================
