------------------------------- MODULE Chain --------------------------------
(***************************************************************************)
(* Singly linked lists in a pool: next maps every element of the pool to   *)
(* the one behind it or to NULL.                                           *)
(***************************************************************************)

CONSTANT NULL

\* S holds what a walk along next from first comes through.
Contains(next, first, S) ==
    /\ first \in S \cup {NULL}
    /\ \A p \in S : next[p] \in S \cup {NULL}

\* The elements a walk from first comes through: the least such set.
Reached(next, first) ==
    LET containing == {S \in SUBSET DOMAIN next : Contains(next, first, S)}
    IN  {p \in DOMAIN next : \A S \in containing : p \in S}

\* The walk comes to an end.
Ends(next, first) == first = NULL \/ \E p \in Reached(next, first) : next[p] = NULL

\* The first of the elements H of a list: the others are behind it.
FirstOf(next, H) ==
    IF H = {} THEN NULL ELSE CHOOSE p \in H : H \subseteq Reached(next, p)

-----------------------------------------------------------------------------
\* first is the head of a proper list of the elements S: no element has two
\* others before it, none is before the first, and one is the last.
IsList(next, first, S) ==
    /\ S \subseteq DOMAIN next
    /\ Contains(next, first, S)
    /\ \A T \in SUBSET S : Contains(next, first, T) => T = S
    /\ \A p \in S : next[p] # first
    /\ \A p, q \in S : next[p] = next[q] => p = q
    /\ S # {} => \E p \in S : next[p] = NULL
=============================================================================
