------------------------------ MODULE MCTyping ------------------------------
EXTENDS Typing
MCGates == {32, 33, 34, 46}
=============================================================================
