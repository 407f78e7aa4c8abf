------------------------------ MODULE MCI8259 -------------------------------
(* The emulator thread, which raises the timer (0), the keyboard (1) and   *)
(* the disk (14), and two audio threads, which raise the audio line (2).   *)
EXTENDS I8259
CONSTANTS a1, a2
MCLines == [t \in Thread |-> IF t = Cpu THEN {0, 1, 14} ELSE {2}]
=============================================================================
