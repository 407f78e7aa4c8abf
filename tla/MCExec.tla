------------------------------- MODULE MCExec -------------------------------
(* One key, one waiting event, two instructions per command, two frames on *)
(* the guest's stack: every order of clock, window, prompt and guest.      *)
EXTENDS Exec
MCGates == {32, 33, 34, 46}
=============================================================================
