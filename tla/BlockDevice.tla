----------------------------- MODULE BlockDevice -----------------------------
(* What ide_read promises its callers: one request at a time, answered with *)
(* what the disk holds there; past the disk's end the answer is any value.  *)
EXTENDS Integers

CONSTANTS Size,
          Content,  \* [0 .. Size - 1 -> Word]: the disk
          Word,
          Nothing   \* no request, no answer yet

VARIABLES pending, result

vars == <<pending, result>>

Holds(a) == IF a < Size THEN {Content[a]} ELSE Word

Init == pending = Nothing /\ result = Nothing

Request == pending = Nothing /\ pending' \in Nat /\ UNCHANGED result

Answer ==
    /\ pending # Nothing
    /\ result' \in Holds(pending)
    /\ pending' = Nothing

Next == Request \/ Answer

Spec == Init /\ [][Next]_vars
=============================================================================
