------------------------------ MODULE MCMemory ------------------------------
(* Five frames of two lines, two of them video memory, with a line below   *)
(* the screen; five pages, the last beyond the segment limit.  The tables: *)
(* neighbouring pages in neighbouring frames; pages of RAM between pages of *)
(* video memory, one of them holding the table; the middle page missing.   *)
(* The addresses are page ends, line ends and the table.                   *)
EXTENDS Memory, TLC
MCTable(a, b, c, d, e) == 0 :> a @@ 1 :> b @@ 2 :> c @@ 3 :> d @@ 4 :> e
MCTables == {MCTable(1, 2, 3, 4, 1), MCTable(1, 4, 2, 1, 3), MCTable(1, 2, 0, 3, 4)}
MCWords == [len \in {1, 2, 4} |-> {[k \in 0 .. len - 1 |->
                                        CASE k = 0 -> 4 [] k = 1 -> 2 [] k = 2 -> 0 [] OTHER -> 3]}]
MCAddress == {1, 7, 13, 14, 15, 19, 22, 23, 29, 31, 32}
=============================================================================
