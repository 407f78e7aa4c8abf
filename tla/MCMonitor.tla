----------------------------- MODULE MCMonitor ------------------------------
(* Four one-byte instructions, two ordinary ones around a BREAK_POINT of   *)
(* the guest's own and a trap; three slots for four places to stop at and  *)
(* an expression to watch, so that the pool runs out.                      *)
EXTENDS Monitor, TLC
MCAddr == 0 .. 3
MCProgram == 0 :> "op" @@ 1 :> "INT3" @@ 2 :> "trap" @@ 3 :> "op"
=============================================================================
