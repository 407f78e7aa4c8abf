------------------------------- MODULE MCEcho -------------------------------
(* A letter's press, which is printed, and its release, which is not.      *)
EXTENDS Echo
CONSTANTS press, release
MCGates == {32, 33, 34, 46}
=============================================================================
