------------------------------- MODULE MCDisk -------------------------------
(* Three sectors of two words, the last half past the end of the disk; two *)
(* slots, so that sectors 0 and 2, which differ, evict each other.         *)
EXTENDS Disk, TLC
MCGates == {32, 33, 34, 46}
MCContent == 0 :> 0 @@ 1 :> 1 @@ 2 :> 1 @@ 3 :> 0 @@ 4 :> 1
MCOffset == 0 .. 5
=============================================================================
