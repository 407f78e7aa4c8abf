------------------------------ MODULE MCCache -------------------------------
(* Five blocks in two groups of two lines: group 0 has three blocks for    *)
(* two lines, so fills evict; accesses of one and two bytes, the latter    *)
(* crossing a line at every odd address.                                   *)
EXTENDS Cache
MCByte == {0, 1}
=============================================================================
