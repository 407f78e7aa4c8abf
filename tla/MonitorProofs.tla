---------------------------- MODULE MonitorProofs ---------------------------
(***************************************************************************)
(* The monitor for any program, any size of the pool, any expressions.     *)
(***************************************************************************)
EXTENDS Monitor, ChainProofs

-----------------------------------------------------------------------------
(* The invariant.                                                          *)

Links(b) == [p \in NO |-> b[p].next]

\* The pool b with U in use and the rest free: two lists that end.
PoolIs(b, h, f, U) ==
    /\ b \in [NO -> BP]
    /\ U \subseteq NO
    /\ IsList(Links(b), h, U)
    /\ IsList(Links(b), f, NO \ U)
    /\ \A p \in NO : b[p].in_use <=> p \in U

\* A slot in use says what stops the program, and what it needs to do so.
SlotsAre(b, U) ==
    \A p \in U :
        /\ b[p].type \in {"BREAKPOINT", "WATCHPOINT"}
        /\ b[p].type = "BREAKPOINT" => b[p].addr \in Addr /\ b[p].ori_byte \in Opcode
        /\ b[p].type = "WATCHPOINT" => b[p].addr \in Expr /\ b[p].old_val \in Value

Breaks(b, U, a) == {p \in U : b[p].type = "BREAKPOINT" /\ b[p].addr = a}

\* One breakpoint per address, which hides the program's byte; no other byte
\* of the code m is changed.
CodeIs(b, U, m) ==
    \A a \in Addr :
        /\ \A p, q \in Breaks(b, U, a) : p = q
        /\ \A p \in Breaks(b, U, a) : b[p].ori_byte = Program[a]
        /\ m[a] # Program[a] => m[a] = "INT3" /\ Breaks(b, U, a) # {}

Control ==
    /\ mem \in [Addr -> Opcode] /\ value \in [Expr -> Value]
    /\ nemu_state \in {"READY", "RUN", "BREAK", "STOP"}
    /\ n \in 0 .. MaxInstr /\ hit_break_rerun \in BOOLEAN
    /\ at \in {"ui", "inst", "intr", "exit", "closed", "aborted"}
    /\ at = "inst" => n > 0

MonitorInv ==
    /\ PoolIs(bp_list, head, free_, Nodes(head))
    /\ SlotsAre(bp_list, Nodes(head))
    /\ Control
    /\ WatchedChangePauses
    /\ ~Duplicates => eip \in Addr /\ CodeIs(bp_list, Nodes(head), mem)
-----------------------------------------------------------------------------
(* The pool.                                                               *)

LEMMA NullNotNode == NULL \notin NO
BY MonitorAssumption DEF NO

\* What a pool is good for: its lists have the elements a walk finds.
LEMMA PoolFacts ==
    ASSUME NEW b, NEW h, NEW f, NEW U, PoolIs(b, h, f, U)
    PROVE  /\ Links(b) \in [NO -> NO \cup {NULL}]
           /\ \A p \in NO : Links(b)[p] = b[p].next
           /\ Reached(Links(b), h) = U /\ Ends(Links(b), h)
           /\ Reached(Links(b), f) = NO \ U /\ Ends(Links(b), f)
           /\ h \in U \cup {NULL} /\ f \in (NO \ U) \cup {NULL}
           /\ h = NULL <=> U = {}
<1>1. b \in [NO -> BP] /\ U \subseteq NO
  BY DEF PoolIs
<1>2. Links(b) \in [NO -> NO \cup {NULL}] /\ \A p \in NO : Links(b)[p] = b[p].next
  BY <1>1 DEF Links, BP
<1>3. IsList(Links(b), h, U) /\ IsList(Links(b), f, NO \ U)
  BY DEF PoolIs
<1>4. Reached(Links(b), h) = U /\ Ends(Links(b), h)
  BY <1>3, ListIsReached
<1>5. Reached(Links(b), f) = NO \ U /\ Ends(Links(b), f)
  BY <1>3, ListIsReached
<1>6. h = NULL <=> U = {}
  BY <1>1, <1>3, NullNotNode, EmptyOnly
<1>7. h \in U \cup {NULL} /\ f \in (NO \ U) \cup {NULL}
  BY <1>3 DEF IsList, Contains
<1>8. QED
  BY <1>2, <1>4, <1>5, <1>6, <1>7

\* The first of some nodes in use is one of them.
LEMMA FirstInUse ==
    ASSUME NEW b, NEW h, NEW f, NEW U, PoolIs(b, h, f, U), NEW H \in SUBSET U
    PROVE  /\ H = {} => FirstOf(Links(b), H) = NULL
           /\ H # {} => FirstOf(Links(b), H) \in H
BY PoolFacts, NullNotNode, FirstIsOne DEF PoolIs

\* The pool as init_bp_list leaves it.
LEMMA InitialPool ==
    ASSUME NEW b, b = [i \in NO |-> Blank(IF i = NR_BP - 1 THEN NULL ELSE i + 1)]
    PROVE  PoolIs(b, NULL, 0, {})
<1>1. ASSUME NEW i \in NO
      PROVE  (IF i = NR_BP - 1 THEN NULL ELSE i + 1) \in NO \cup {NULL}
  BY MonitorAssumption DEF NO
<1>2. b \in [NO -> BP]
  BY <1>1 DEF Blank, BP
<1>3. Links(b) = [i \in NO |-> IF i = NR_BP - 1 THEN NULL ELSE i + 1]
  BY DEF Links, Blank
<1>4. Links(b) \in [NO -> NO \cup {NULL}]
  BY <1>1, <1>3
<1> DEFINE l == Links(b)
<1>5. \A i \in NO : i < NR_BP - 1 => l[i] = i + 1
  BY <1>3 DEF NO
<1>6. IsList(l, 0, NO)
  <2>1. NR_BP - 1 \in Nat /\ NO = 0 .. NR_BP - 1 /\ l[NR_BP - 1] = NULL
    BY <1>3, MonitorAssumption DEF NO
  <2>2. QED
    BY <1>4, <1>5, <2>1, NullNotNode, NumberedList
<1>7. IsList(l, NULL, {})
  BY EmptyList
<1>8. \A p \in NO : b[p].in_use = FALSE
  BY DEF Blank
<1>9. NO \ {} = NO
  OBVIOUS
<1>10. QED
  BY <1>2, <1>6, <1>7, <1>8, <1>9 DEF PoolIs

\* new_BP takes the head of the free list and puts it before the list in use.
LEMMA PoolAfterNew ==
    ASSUME NEW b, NEW h, NEW f, NEW U, PoolIs(b, h, f, U), f # NULL,
           NEW c \in [NO -> BP], c[f].in_use, c[f].next = h,
           \A p \in NO \ {f} : c[p] = b[p]
    PROVE  f \in NO \ U /\ PoolIs(c, f, b[f].next, U \cup {f})
<1>1. b \in [NO -> BP] /\ U \subseteq NO /\ f \in NO \ U /\ h \in NO \cup {NULL}
  BY PoolFacts DEF PoolIs
<1>4. /\ Links(c) \in [NO -> NO \cup {NULL}] /\ Links(c)[f] = h
      /\ \A p \in NO \ {f} : Links(c)[p] = Links(b)[p]
      /\ Links(b) \in [NO -> NO \cup {NULL}] /\ Links(b)[f] = b[f].next
  BY <1>1 DEF Links, BP
<1>5. IsList(Links(c), f, U \cup {f})
  <2>1. IsList(Links(b), h, U) /\ f \in NO /\ f \notin U
    BY <1>1 DEF PoolIs
  <2>2. \A p \in U : Links(c)[p] = Links(b)[p]
    BY <1>1, <1>4
  <2>3. Links(b) \in [NO -> NO \cup {NULL}] /\ Links(c) \in [NO -> NO \cup {NULL}]
        /\ U \in SUBSET NO /\ Links(c)[f] = h
    BY <1>1, <1>4
  <2>4. QED
    BY <2>1, <2>2, <2>3, NullNotNode, PushedList
<1>6. IsList(Links(c), b[f].next, (NO \ U) \ {f})
  <2>1. IsList(Links(b), f, NO \ U) /\ NO \ U \in SUBSET NO
    BY DEF PoolIs
  <2>2. QED
    BY <1>1, <1>4, <2>1, NullNotNode, PoppedList
<1>7. (NO \ U) \ {f} = NO \ (U \cup {f})
  OBVIOUS
<1>8. \A p \in NO : c[p].in_use <=> p \in U \cup {f}
  BY <1>1 DEF PoolIs
<1>9. QED
  BY <1>1, <1>5, <1>6, <1>7, <1>8 DEF PoolIs

\* Slots that differ in their links alone.
SameUse(x, y) == /\ x.in_use = y.in_use /\ x.type = y.type /\ x.addr = y.addr
                 /\ x.ori_byte = y.ori_byte /\ x.old_val = y.old_val

LEMMA OnlyLinked ==
    ASSUME NEW x \in BP, NEW y
    PROVE  [x EXCEPT !.next = y].next = y /\ SameUse([x EXCEPT !.next = y], x)
BY DEF BP, SameUse

\* The node before p, which delete_breakpoint looks for, and its absence.
LEMMA PrevNode ==
    ASSUME NEW b, NEW h, NEW f, NEW U, PoolIs(b, h, f, U), NEW p \in U,
           NEW prev, prev = FirstOf(Links(b), {q \in U : b[q].next = p})
    PROVE  /\ prev # NULL => prev \in U /\ b[prev].next = p /\ prev # p
           /\ prev = NULL => p = h
<1> DEFINE H == {q \in U : b[q].next = p}
           l == Links(b)
<1>1. b \in [NO -> BP] /\ U \subseteq NO /\ IsList(l, h, U)
  BY DEF PoolIs
<1>2. l \in [NO -> NO \cup {NULL}] /\ (\A q \in NO : l[q] = b[q].next)
  BY PoolFacts
<1>3. (H = {} => prev = NULL) /\ (H # {} => prev \in H)
  BY FirstInUse
<1>4. prev # NULL => prev \in U /\ b[prev].next = p /\ prev # p
  <2>1. prev # NULL => prev \in H
    BY <1>3
  <2>2. l[p] # p
    BY <1>1, <1>2, NullNotNode, NoLoop
  <2>3. QED
    BY <2>1, <2>2, <1>1, <1>2
<1>5. prev = NULL => p = h
  <2>1. SUFFICES ASSUME prev = NULL, p # h PROVE FALSE
    OBVIOUS
  <2>2. PICK q \in U : q # p /\ l[q] = p
    BY <1>1, <1>2, <2>1, NullNotNode, Predecessor
  <2>3. q \in H
    BY <2>2, <1>1, <1>2
  <2>4. QED
    BY <2>1, <2>3, <1>1, <1>3, NullNotNode
<1>6. QED
  BY <1>4, <1>5

LEMMA LinksOf ==
    ASSUME NEW c \in [NO -> BP]
    PROVE  Links(c) \in [NO -> NO \cup {NULL}] /\ \A q \in NO : Links(c)[q] = c[q].next
BY DEF Links, BP

\* free_BP puts p, which is out of the list in use, before the free list.
LEMMA PoolAfterFree ==
    ASSUME NEW b, NEW h, NEW f, NEW U, PoolIs(b, h, f, U), NEW p \in U,
           NEW c \in [NO -> BP], c[p] = Blank(f),
           \A q \in NO \ U : c[q] = b[q], \A q \in U \ {p} : SameUse(c[q], b[q]),
           NEW g, IsList(Links(c), g, U \ {p})
    PROVE  PoolIs(c, g, p, U \ {p})
<1> DEFINE l == Links(b)
           k == Links(c)
<1>1. b \in [NO -> BP] /\ U \subseteq NO /\ IsList(l, f, NO \ U)
  BY DEF PoolIs
<1>2. /\ l \in [NO -> NO \cup {NULL}] /\ \A q \in NO : l[q] = b[q].next
      /\ k \in [NO -> NO \cup {NULL}] /\ \A q \in NO : k[q] = c[q].next
  BY <1>1, LinksOf
<1>3. Blank(f).next = f /\ Blank(f).in_use = FALSE
  BY DEF Blank
<1>4. IsList(k, p, NO \ (U \ {p}))
  <2>1. p \in NO /\ p \notin NO \ U /\ NO \ U \in SUBSET NO
    BY <1>1
  <2>2. k[p] = f /\ \A q \in NO \ U : k[q] = l[q]
    BY <2>1, <1>2, <1>3
  <2>3. IsList(k, p, (NO \ U) \cup {p})
    BY <2>1, <2>2, <1>1, <1>2, NullNotNode, PushedList
  <2>4. (NO \ U) \cup {p} = NO \ (U \ {p})
    BY <1>1
  <2>5. QED
    BY <2>3, <2>4
<1>5. \A q \in NO : c[q].in_use <=> q \in U \ {p}
  <2>1. \A q \in NO : b[q].in_use <=> q \in U
    BY DEF PoolIs
  <2>2. \A q \in NO \ {p} : c[q].in_use = b[q].in_use
    BY DEF SameUse
  <2>3. QED
    BY <2>1, <2>2, <1>3
<1>6. QED
  BY <1>1, <1>4, <1>5 DEF PoolIs

\* delete_breakpoint, of the head.
LEMMA PoolAfterPop ==
    ASSUME NEW b, NEW h, NEW f, NEW U, PoolIs(b, h, f, U), h \in U,
           NEW c \in [NO -> BP], c[h] = Blank(f), \A q \in NO \ {h} : c[q] = b[q]
    PROVE  PoolIs(c, b[h].next, h, U \ {h})
<1>1. b \in [NO -> BP] /\ U \in SUBSET NO /\ IsList(Links(b), h, U)
  BY DEF PoolIs
<1>2. /\ Links(b) \in [NO -> NO \cup {NULL}] /\ \A q \in NO : Links(b)[q] = b[q].next
      /\ Links(c) \in [NO -> NO \cup {NULL}] /\ \A q \in NO : Links(c)[q] = c[q].next
  BY <1>1, LinksOf
<1>3. \A q \in U \ {h} : Links(c)[q] = Links(b)[q]
  BY <1>1, <1>2
<1>4. IsList(Links(c), Links(b)[h], U \ {h})
  BY <1>1, <1>2, <1>3, NullNotNode, PoppedList
<1>5. Links(b)[h] = b[h].next
  BY <1>1, <1>2
<1>6. (\A q \in NO \ U : c[q] = b[q]) /\ \A q \in U \ {h} : SameUse(c[q], b[q])
  BY <1>1 DEF SameUse
<1>7. QED
  BY <1>4, <1>5, <1>6, PoolAfterFree

\* delete_breakpoint, of the node after prev.
LEMMA PoolAfterUnlink ==
    ASSUME NEW b, NEW h, NEW f, NEW U, PoolIs(b, h, f, U), NEW p \in U,
           NEW prev \in U, b[prev].next = p, prev # p,
           NEW c \in [NO -> BP], c[p] = Blank(f), \A q \in NO \ {p, prev} : c[q] = b[q],
           c[prev].next = b[p].next, SameUse(c[prev], b[prev])
    PROVE  PoolIs(c, h, p, U \ {p})
<1>1. b \in [NO -> BP] /\ U \in SUBSET NO /\ IsList(Links(b), h, U)
  BY DEF PoolIs
<1>2. /\ Links(b) \in [NO -> NO \cup {NULL}] /\ \A q \in NO : Links(b)[q] = b[q].next
      /\ Links(c) \in [NO -> NO \cup {NULL}] /\ \A q \in NO : Links(c)[q] = c[q].next
  BY <1>1, LinksOf
<1>3. \A q \in U \ {p, prev} : Links(c)[q] = Links(b)[q]
  BY <1>1, <1>2
<1>4. Links(b)[prev] = p /\ Links(c)[prev] = Links(b)[p]
  BY <1>1, <1>2
<1>5. IsList(Links(c), h, U \ {p})
  BY <1>1, <1>2, <1>3, <1>4, NullNotNode, UnlinkedList
<1>6. (\A q \in NO \ U : c[q] = b[q]) /\ \A q \in U \ {p} : SameUse(c[q], b[q])
  BY <1>1 DEF SameUse
<1>7. QED
  BY <1>5, <1>6, PoolAfterFree

\* free_BP over the whole list in use, from its end.
LEMMA PoolAfterDeleteAll ==
    ASSUME NEW b, NEW h, NEW f, NEW U, PoolIs(b, h, f, U), h # NULL,
           NEW c, c = [p \in NO |-> IF p \notin U THEN b[p]
                                    ELSE Blank(IF b[p].next = NULL THEN f ELSE b[p].next)]
    PROVE  PoolIs(c, NULL, h, {})
<1> DEFINE l == Links(b)
           k == Links(c)
<1>1. b \in [NO -> BP] /\ U \in SUBSET NO /\ IsList(l, h, U) /\ IsList(l, f, NO \ U)
  BY DEF PoolIs
<1>2. /\ l \in [NO -> NO \cup {NULL}] /\ \A q \in NO : l[q] = b[q].next
      /\ f \in NO \cup {NULL} /\ U # {}
  BY PoolFacts
<1>3. \A p \in NO : (IF b[p].next = NULL THEN f ELSE b[p].next) \in NO \cup {NULL}
  BY <1>1, <1>2
<1>4. \A x \in NO \cup {NULL} : Blank(x) \in BP /\ Blank(x).next = x /\ Blank(x).in_use = FALSE
  BY DEF Blank, BP
<1>5. c \in [NO -> BP]
  BY <1>1, <1>2, <1>3, <1>4
<1>6. k \in [NO -> NO \cup {NULL}] /\ \A q \in NO : k[q] = c[q].next
  BY <1>5 DEF Links, BP
<1>7. ASSUME NEW q \in U PROVE k[q] = IF l[q] = NULL THEN f ELSE l[q]
  <2>1. q \in NO /\ l[q] = b[q].next /\ k[q] = c[q].next
    BY <1>1, <1>2, <1>6
  <2>2. c[q] = Blank(IF b[q].next = NULL THEN f ELSE b[q].next)
    BY <2>1
  <2>3. c[q].next = IF b[q].next = NULL THEN f ELSE b[q].next
    BY <2>1, <2>2, <1>3, <1>4
  <2>4. QED
    BY <2>1, <2>3
<1>8. \A q \in NO \ U : k[q] = l[q]
  BY <1>2, <1>6
<1>9. IsList(k, h, U \cup (NO \ U))
  <2> DEFINE R == NO \ U
  <2>1. R \in SUBSET NO /\ U \cap R = {} /\ IsList(l, f, R) /\ \A q \in R : k[q] = l[q]
    BY <1>1, <1>8
  <2>2. \A q \in U : k[q] = IF l[q] = NULL THEN f ELSE l[q]
    BY <1>7
  <2> HIDE DEF R, l, k
  <2>3. IsList(k, h, U \cup R)
    BY <2>1, <2>2, <1>1, <1>2, <1>6, NullNotNode, SplicedList
  <2>4. QED
    BY <2>3 DEF R
<1>10. U \cup (NO \ U) = NO /\ NO \ {} = NO
  BY <1>1
<1>11. IsList(k, NULL, {})
  BY EmptyList
<1>12. \A p \in NO : c[p].in_use = FALSE
  <2>1. \A q \in NO \ U : b[q].in_use = FALSE
    BY <1>1, Zenon DEF PoolIs, BP
  <2>2. QED
    BY <2>1, <1>1, <1>2, <1>4
<1>13. QED
  BY <1>5, <1>9, <1>10, <1>11, <1>12 DEF PoolIs

\* What does not change links or in_use.
LEMMA PoolStays ==
    ASSUME NEW b, NEW h, NEW f, NEW U, PoolIs(b, h, f, U),
           NEW c \in [NO -> BP],
           \A p \in NO : c[p].next = b[p].next /\ c[p].in_use = b[p].in_use
    PROVE  PoolIs(c, h, f, U)
<1>1. Links(c) = Links(b)
  BY DEF Links
<1>2. QED
  BY <1>1 DEF PoolIs

-----------------------------------------------------------------------------
(* The invariant before and after a step.                                  *)

\* The invariant, with U for the nodes in use.
LEMMA InUse ==
    ASSUME MonitorInv, NEW U, U = Nodes(head)
    PROVE  /\ PoolIs(bp_list, head, free_, U) /\ SlotsAre(bp_list, U)
           /\ bp_list \in [NO -> BP] /\ U \in SUBSET NO
           /\ head \in U \cup {NULL} /\ free_ \in (NO \ U) \cup {NULL}
           /\ ~Duplicates => eip \in Addr /\ CodeIs(bp_list, U, mem)
<1>1. PoolIs(bp_list, head, free_, U)
  BY DEF MonitorInv
<1>2. head \in U \cup {NULL} /\ free_ \in (NO \ U) \cup {NULL}
  BY <1>1, PoolFacts
<1>3. QED
  BY <1>1, <1>2 DEF MonitorInv, PoolIs

\* It is enough to know it of the nodes V that are in use after the step.
LEMMA InUseNext ==
    ASSUME NEW V, PoolIs(bp_list', head', free_', V)
    PROVE  /\ Nodes(head)' = V
           /\ /\ SlotsAre(bp_list', V)
              /\ Control'
              /\ at' = "intr" => \A p \in V : bp_list'[p].type = "WATCHPOINT" =>
                                     value'[bp_list'[p].addr] = bp_list'[p].old_val
              /\ ~Duplicates => eip' \in Addr /\ CodeIs(bp_list', V, mem')
              => MonitorInv'
<1>1. Nodes(head)' = V
  <2>1. next' = Links(bp_list')
    BY DEF next, Links
  <2>2. Reached(Links(bp_list'), head') = V
    BY PoolFacts
  <2>3. QED
    BY <2>1, <2>2 DEF Nodes
<1>2. QED
  BY <1>1 DEF MonitorInv, WatchedChangePauses

\* find_breakpoint finds one if there is one.
LEMMA FindBreakpoint ==
    ASSUME PoolIs(bp_list, head, free_, Nodes(head)), NEW a
    PROVE  /\ Breaks(bp_list, Nodes(head), a) = {} => find_breakpoint(a) = NULL
           /\ Breaks(bp_list, Nodes(head), a) # {} =>
                 find_breakpoint(a) \in Breaks(bp_list, Nodes(head), a)
           /\ find_breakpoint(a) = NULL <=> Breaks(bp_list, Nodes(head), a) = {}
           /\ Nodes(head) \subseteq NO
<1> DEFINE H == Breaks(bp_list, Nodes(head), a)
<1>1. find_breakpoint(a) = FirstOf(Links(bp_list), H)
  <2>1. {p \in Breakpoints : bp_list[p].addr = a} = H
    BY DEF Breakpoints, Breaks
  <2>2. next = Links(bp_list)
    BY DEF next, Links
  <2>3. QED
    BY <2>1, <2>2 DEF find_breakpoint
<1>2. H \in SUBSET Nodes(head) /\ Nodes(head) \subseteq NO
  BY DEF Breaks, PoolIs
<1>3. (H = {} => FirstOf(Links(bp_list), H) = NULL) /\ (H # {} => FirstOf(Links(bp_list), H) \in H)
  BY <1>2, FirstInUse
<1>4. QED
  BY <1>1, <1>2, <1>3, NullNotNode

\* The same after a step, to which the lemma above does not apply.
LEMMA FindBreakpointNext ==
    ASSUME NEW V, PoolIs(bp_list', head', free_', V), NEW a, find_breakpoint(a)' # NULL
    PROVE  Breaks(bp_list', V, a) # {}
<1> DEFINE H == Breaks(bp_list', V, a)
<1>1. find_breakpoint(a)' = FirstOf(Links(bp_list'), H)
  <2>1. Nodes(head)' = V
    BY InUseNext
  <2>2. {p \in Breakpoints : bp_list[p].addr = a}' = H
    BY <2>1 DEF Breakpoints, Breaks
  <2>3. next' = Links(bp_list')
    BY DEF next, Links
  <2>4. QED
    BY <2>2, <2>3 DEF find_breakpoint
<1>2. H \in SUBSET V
  BY DEF Breaks
<1>3. H = {} => FirstOf(Links(bp_list'), H) = NULL
  BY <1>2, FirstInUse
<1>4. QED
  BY <1>1, <1>3

\* scan_watchpoint finds a watchpoint that has changed, if there is one.
LEMMA ScanWatchpoint ==
    ASSUME PoolIs(bp_list, head, free_, Nodes(head)), NEW v
    PROVE  LET wp == scan_watchpoint(v)
           IN  /\ wp # NULL => wp \in Watchpoints /\ v[bp_list[wp].addr] # bp_list[wp].old_val
               /\ wp = NULL => \A p \in Watchpoints : v[bp_list[p].addr] = bp_list[p].old_val
               /\ Watchpoints \subseteq Nodes(head)
<1> DEFINE H == {p \in Watchpoints : v[bp_list[p].addr] # bp_list[p].old_val}
<1>1. scan_watchpoint(v) = FirstOf(Links(bp_list), H)
  BY DEF scan_watchpoint, next, Links
<1>2. H \in SUBSET Nodes(head) /\ Watchpoints \subseteq Nodes(head) /\ Nodes(head) \subseteq NO
  BY DEF Watchpoints, PoolIs
<1>3. (H = {} => FirstOf(Links(bp_list), H) = NULL) /\ (H # {} => FirstOf(Links(bp_list), H) \in H)
  BY <1>2, FirstInUse
<1>4. QED
  BY <1>1, <1>2, <1>3, NullNotNode

-----------------------------------------------------------------------------
(* The commands.                                                           *)

LEMMA InitInv == Init => MonitorInv
<1> SUFFICES ASSUME Init PROVE MonitorInv
  OBVIOUS
<1>1. PoolIs(bp_list, NULL, 0, {}) /\ head = NULL /\ free_ = 0
  BY InitialPool DEF Init
<1>2. Nodes(head) = {}
  BY <1>1, PoolFacts DEF Nodes, next, Links
<1>3. SlotsAre(bp_list, {})
  BY DEF SlotsAre
<1>4. CodeIs(bp_list, {}, mem)
  BY DEF Init, CodeIs, Breaks
<1>5. Control
  <2>1. mem \in [Addr -> Opcode] /\ n \in 0 .. MaxInstr
    BY MonitorAssumption DEF Init
  <2>2. QED
    BY <2>1, Zenon DEF Init, Control
<1>6. WatchedChangePauses
  BY DEF Init, WatchedChangePauses
<1>7. QED
  BY <1>1, <1>2, <1>3, <1>4, <1>5, <1>6 DEF MonitorInv, Init

\* A slot taken for a new breakpoint, with the byte of the code it hides.
LEMMA CodeAfterBreak ==
    ASSUME NEW b, NEW U, NEW m \in [Addr -> Opcode], CodeIs(b, U, m),
           NEW a \in Addr, Breaks(b, U, a) = {},
           NEW f, f \notin U, NEW c, \A p \in U : c[p] = b[p],
           c[f].type = "BREAKPOINT", c[f].addr = a, c[f].ori_byte = m[a]
    PROVE  CodeIs(c, U \cup {f}, [m EXCEPT ![a] = "INT3"])
<1>1. Breaks(c, U \cup {f}, a) = {f}
  BY DEF Breaks
<1>2. \A x \in Addr \ {a} : Breaks(c, U \cup {f}, x) = Breaks(b, U, x)
  BY DEF Breaks
<1>3. m[a] = Program[a]
  BY DEF CodeIs
<1>4. \A x \in Addr \ {a} : \A p \in Breaks(b, U, x) : c[p] = b[p]
  BY DEF Breaks
<1> DEFINE d == [m EXCEPT ![a] = "INT3"]
<1>5. d[a] = "INT3" /\ \A x \in Addr \ {a} : d[x] = m[x]
  OBVIOUS
<1>6. ASSUME NEW x \in Addr
      PROVE  /\ \A p, q \in Breaks(c, U \cup {f}, x) : p = q
             /\ \A p \in Breaks(c, U \cup {f}, x) : c[p].ori_byte = Program[x]
             /\ d[x] # Program[x] => d[x] = "INT3" /\ Breaks(c, U \cup {f}, x) # {}
  <2>1. CASE x = a
    BY <2>1, <1>1, <1>3, <1>5
  <2>2. CASE x # a
    <3>1. Breaks(c, U \cup {f}, x) = Breaks(b, U, x) /\ d[x] = m[x]
      BY <2>2, <1>2, <1>5
    <3>2. CodeIs(b, U, m)!(x)
      BY DEF CodeIs
    <3>3. QED
      BY <2>2, <3>1, <3>2, <1>4
  <2>3. QED
    BY <2>1, <2>2
<1>7. QED
  BY <1>6 DEF CodeIs

\* Slots that keep what they say, and one that is not a breakpoint.
LEMMA CodeAfterWatch ==
    ASSUME NEW b, NEW U, NEW m, CodeIs(b, U, m),
           NEW f, f \notin U, NEW c, \A p \in U : c[p] = b[p], c[f].type = "WATCHPOINT"
    PROVE  CodeIs(c, U \cup {f}, m)
<1>1. \A x : Breaks(c, U \cup {f}, x) = Breaks(b, U, x)
  BY DEF Breaks
<1>2. \A x : \A p \in Breaks(b, U, x) : c[p] = b[p]
  BY DEF Breaks
<1>3. ASSUME NEW x \in Addr
      PROVE  /\ \A p, q \in Breaks(c, U \cup {f}, x) : p = q
             /\ \A p \in Breaks(c, U \cup {f}, x) : c[p].ori_byte = Program[x]
             /\ m[x] # Program[x] => m[x] = "INT3" /\ Breaks(c, U \cup {f}, x) # {}
  <2>1. Breaks(c, U \cup {f}, x) = Breaks(b, U, x)
    BY <1>1
  <2>2. CodeIs(b, U, m)!(x)
    BY DEF CodeIs
  <2>3. QED
    BY <2>1, <2>2, <1>2
<1>4. QED
  BY <1>3 DEF CodeIs

LEMMA SetBreakpoint ==
    ASSUME MonitorInv, NEW a \in Addr, cmd_b(a)
    PROVE  MonitorInv'
<1> DEFINE U == Nodes(head)
           s == [in_use |-> TRUE, type |-> "BREAKPOINT", addr |-> a,
                 ori_byte |-> mem[a], old_val |-> NULL, next |-> head]
<1>1. /\ PoolIs(bp_list, head, free_, U) /\ SlotsAre(bp_list, U)
      /\ bp_list \in [NO -> BP] /\ U \in SUBSET NO
      /\ ~Duplicates => eip \in Addr /\ CodeIs(bp_list, U, mem)
  BY InUse
<1>2. Control /\ mem \in [Addr -> Opcode]
  BY DEF MonitorInv, Control
<1>3. CASE free_ = NULL
  <2>1. bp_list' = bp_list /\ head' = head /\ free_' = free_ /\ mem' = mem /\ at' = "aborted"
        /\ value' = value /\ eip' = eip /\ nemu_state' = nemu_state /\ n' = n
        /\ hit_break_rerun' = hit_break_rerun
    BY <1>3 DEF cmd_b, pool_vars
  <2>2. Control'
    BY <2>1, <1>2 DEF Control
  <2>3. QED
    BY <2>1, <2>2, <1>1, InUseNext
<1>4. CASE free_ # NULL
  <2>1. /\ bp_list' = [bp_list EXCEPT ![free_] = s]
        /\ head' = free_ /\ free_' = bp_list[free_].next
        /\ mem' = [mem EXCEPT ![a] = "INT3"] /\ at' = at /\ at = "ui"
        /\ value' = value /\ eip' = eip /\ nemu_state' = nemu_state /\ n' = n
        /\ hit_break_rerun' = hit_break_rerun
        /\ Duplicates \/ \A p \in Breakpoints : bp_list[p].addr # a
    BY <1>4 DEF cmd_b, new_BP
  <2>2. s \in BP /\ s.in_use /\ s.next = head
    BY <1>1, <1>2, PoolFacts DEF BP
  <2>3. free_ \in NO \ U /\ PoolIs(bp_list', head', free_', U \cup {free_})
    <3>1. free_ \in NO
      BY <1>1, <1>4, PoolFacts
    <3> HIDE DEF s
    <3>2. bp_list' \in [NO -> BP] /\ bp_list'[free_] = s
          /\ \A p \in NO \ {free_} : bp_list'[p] = bp_list[p]
      BY <3>1, <2>1, <2>2, <1>1
    <3>3. bp_list'[free_].in_use /\ bp_list'[free_].next = head
      BY <3>2, <2>2
    <3>4. free_ \in NO \ U /\ PoolIs(bp_list', free_, bp_list[free_].next, U \cup {free_})
      BY <3>2, <3>3, <1>1, <1>4, PoolAfterNew
    <3>5. QED
      BY <3>4, <2>1
  <2>4. /\ \A p \in U : bp_list'[p] = bp_list[p]
        /\ bp_list'[free_].type = "BREAKPOINT" /\ bp_list'[free_].addr = a
        /\ bp_list'[free_].ori_byte = mem[a]
    BY <2>1, <2>3, <1>1
  <2>5. SlotsAre(bp_list', U \cup {free_})
    BY <2>4, <1>1, <1>2 DEF SlotsAre
  <2>6. Control'
    BY <2>1, <1>2 DEF Control, Opcode
  <2>7. ASSUME ~Duplicates PROVE eip' \in Addr /\ CodeIs(bp_list', U \cup {free_}, mem')
    <3>1. Breaks(bp_list, U, a) = {}
      BY <2>1, <2>7 DEF Breakpoints, Breaks
    <3>2. QED
      BY <3>1, <2>1, <2>3, <2>4, <2>7, <1>1, <1>2, CodeAfterBreak
  <2>8. QED
    BY <2>1, <2>3, <2>5, <2>6, <2>7, InUseNext
<1>5. QED
  BY <1>3, <1>4

LEMMA SetWatchpoint ==
    ASSUME MonitorInv, NEW e \in Expr, cmd_w(e)
    PROVE  MonitorInv'
<1> DEFINE U == Nodes(head)
           s == [in_use |-> TRUE, type |-> "WATCHPOINT", addr |-> e,
                 ori_byte |-> NULL, old_val |-> value[e], next |-> head]
<1>1. /\ PoolIs(bp_list, head, free_, U) /\ SlotsAre(bp_list, U)
      /\ bp_list \in [NO -> BP] /\ U \in SUBSET NO
      /\ ~Duplicates => eip \in Addr /\ CodeIs(bp_list, U, mem)
  BY InUse
<1>2. Control /\ value \in [Expr -> Value]
  BY DEF MonitorInv, Control
<1>3. CASE free_ = NULL
  <2>1. bp_list' = bp_list /\ head' = head /\ free_' = free_ /\ mem' = mem /\ at' = "aborted"
        /\ value' = value /\ eip' = eip /\ nemu_state' = nemu_state /\ n' = n
        /\ hit_break_rerun' = hit_break_rerun
    BY <1>3 DEF cmd_w, pool_vars
  <2>2. Control'
    BY <2>1, <1>2 DEF Control
  <2>3. QED
    BY <2>1, <2>2, <1>1, InUseNext
<1>4. CASE free_ # NULL
  <2>1. /\ bp_list' = [bp_list EXCEPT ![free_] = s]
        /\ head' = free_ /\ free_' = bp_list[free_].next
        /\ mem' = mem /\ at' = at /\ at = "ui"
        /\ value' = value /\ eip' = eip /\ nemu_state' = nemu_state /\ n' = n
        /\ hit_break_rerun' = hit_break_rerun
    BY <1>4 DEF cmd_w, new_BP
  <2>2. s \in BP /\ s.in_use /\ s.next = head
    BY <1>1, <1>2, PoolFacts DEF BP
  <2>3. free_ \in NO \ U /\ PoolIs(bp_list', head', free_', U \cup {free_})
    <3>1. free_ \in NO
      BY <1>1, <1>4, PoolFacts
    <3> HIDE DEF s
    <3>2. bp_list' \in [NO -> BP] /\ bp_list'[free_] = s
          /\ \A p \in NO \ {free_} : bp_list'[p] = bp_list[p]
      BY <3>1, <2>1, <2>2, <1>1
    <3>3. bp_list'[free_].in_use /\ bp_list'[free_].next = head
      BY <3>2, <2>2
    <3>4. free_ \in NO \ U /\ PoolIs(bp_list', free_, bp_list[free_].next, U \cup {free_})
      BY <3>2, <3>3, <1>1, <1>4, PoolAfterNew
    <3>5. QED
      BY <3>4, <2>1
  <2>4. /\ \A p \in U : bp_list'[p] = bp_list[p]
        /\ bp_list'[free_].type = "WATCHPOINT" /\ bp_list'[free_].addr = e
        /\ bp_list'[free_].old_val = value[e]
    BY <2>1, <2>3, <1>1
  <2>5. SlotsAre(bp_list', U \cup {free_})
    BY <2>4, <1>1, <1>2 DEF SlotsAre
  <2>6. Control'
    BY <2>1, <1>2 DEF Control
  <2>7. ~Duplicates => eip' \in Addr /\ CodeIs(bp_list', U \cup {free_}, mem')
    BY <2>1, <2>3, <2>4, <1>1, CodeAfterWatch
  <2>8. QED
    BY <2>1, <2>3, <2>5, <2>6, <2>7, InUseNext
<1>5. QED
  BY <1>3, <1>4

\* CodeIs looks at what the slots in use say, not at links or old values.
SameBreak(x, y) == x.type = y.type /\ x.addr = y.addr /\ x.ori_byte = y.ori_byte

LEMMA CodeSame ==
    ASSUME NEW b, NEW U, NEW m, CodeIs(b, U, m),
           NEW c, \A p \in U : SameBreak(c[p], b[p])
    PROVE  CodeIs(c, U, m)
<1>1. \A x : Breaks(c, U, x) = Breaks(b, U, x)
  BY DEF Breaks, SameBreak
<1>2. \A x : \A p \in Breaks(b, U, x) : c[p].ori_byte = b[p].ori_byte
  BY DEF Breaks, SameBreak
<1>3. ASSUME NEW x \in Addr
      PROVE  /\ \A p, q \in Breaks(c, U, x) : p = q
             /\ \A p \in Breaks(c, U, x) : c[p].ori_byte = Program[x]
             /\ m[x] # Program[x] => m[x] = "INT3" /\ Breaks(c, U, x) # {}
  <2>1. Breaks(c, U, x) = Breaks(b, U, x)
    BY <1>1
  <2>2. CodeIs(b, U, m)!(x)
    BY DEF CodeIs
  <2>3. QED
    BY <2>1, <2>2, <1>2
<1>4. QED
  BY <1>3 DEF CodeIs

\* What putting back the byte of a breakpoint does to the code: hitting it.
LEMMA CodeAfterHit ==
    ASSUME NEW b, NEW U, NEW m \in [Addr -> Opcode], CodeIs(b, U, m),
           NEW a \in Addr, NEW p \in Breaks(b, U, a)
    PROVE  CodeIs(b, U, [m EXCEPT ![a] = b[p].ori_byte])
<1> DEFINE d == [m EXCEPT ![a] = b[p].ori_byte]
<1>1. d[a] = b[p].ori_byte /\ \A x \in Addr \ {a} : d[x] = m[x]
  OBVIOUS
<1>2. ASSUME NEW x \in Addr
      PROVE  /\ \A q, r \in Breaks(b, U, x) : q = r
             /\ \A q \in Breaks(b, U, x) : b[q].ori_byte = Program[x]
             /\ d[x] # Program[x] => d[x] = "INT3" /\ Breaks(b, U, x) # {}
  <2>1. CodeIs(b, U, m)!(x)
    BY DEF CodeIs
  <2>2. QED
    BY <1>1, <2>1
<1>3. QED
  BY <1>2 DEF CodeIs

\* The breakpoint p taken out of the list, its byte put back.
LEMMA CodeAfterDelete ==
    ASSUME NEW b, NEW U, NEW m \in [Addr -> Opcode], CodeIs(b, U, m),
           NEW a \in Addr, NEW p \in Breaks(b, U, a),
           NEW c, \A q \in U \ {p} : SameBreak(c[q], b[q])
    PROVE  CodeIs(c, U \ {p}, [m EXCEPT ![a] = b[p].ori_byte])
<1> DEFINE d == [m EXCEPT ![a] = b[p].ori_byte]
<1>1. d[a] = b[p].ori_byte /\ \A x \in Addr \ {a} : d[x] = m[x]
  OBVIOUS
<1>2. \A x : Breaks(c, U \ {p}, x) = Breaks(b, U, x) \ {p}
  BY DEF Breaks, SameBreak
<1>3. \A x : \A q \in Breaks(b, U, x) \ {p} : c[q].ori_byte = b[q].ori_byte
  BY DEF Breaks, SameBreak
<1>4. \A x \in Addr \ {a} : p \notin Breaks(b, U, x)
  BY DEF Breaks
<1>5. ASSUME NEW x \in Addr
      PROVE  /\ \A q, r \in Breaks(c, U \ {p}, x) : q = r
             /\ \A q \in Breaks(c, U \ {p}, x) : c[q].ori_byte = Program[x]
             /\ d[x] # Program[x] => d[x] = "INT3" /\ Breaks(c, U \ {p}, x) # {}
  <2>1. CodeIs(b, U, m)!(x)
    BY DEF CodeIs
  <2>2. Breaks(c, U \ {p}, x) = Breaks(b, U, x) \ {p}
    BY <1>2
  <2>3. CASE x = a
    BY <2>1, <2>2, <2>3, <1>1, <1>3
  <2>4. CASE x # a
    BY <2>1, <2>2, <2>4, <1>1, <1>3, <1>4
  <2>5. QED
    BY <2>3, <2>4
<1>6. QED
  BY <1>5 DEF CodeIs

\* A slot that is not a breakpoint taken out of the list.
LEMMA CodeAfterUnwatch ==
    ASSUME NEW b, NEW U, NEW m, CodeIs(b, U, m), NEW p \in U, b[p].type # "BREAKPOINT",
           NEW c, \A q \in U \ {p} : SameBreak(c[q], b[q])
    PROVE  CodeIs(c, U \ {p}, m)
<1>1. \A x : Breaks(b, U \ {p}, x) = Breaks(b, U, x)
  BY DEF Breaks
<1>2. CodeIs(b, U \ {p}, m)
  BY <1>1 DEF CodeIs
<1>3. QED
  BY <1>2, CodeSame

\* resume_breakpoints arms the breakpoints in the list.
LEMMA CodeAfterResume ==
    ASSUME NEW b, NEW U, NEW m \in [Addr -> Opcode], CodeIs(b, U, m),
           NEW d, d = [a \in Addr |-> IF Breaks(b, U, a) # {} THEN "INT3" ELSE m[a]]
    PROVE  CodeIs(b, U, d)
<1>1. ASSUME NEW x \in Addr
      PROVE  /\ \A q, r \in Breaks(b, U, x) : q = r
             /\ \A q \in Breaks(b, U, x) : b[q].ori_byte = Program[x]
             /\ d[x] # Program[x] => d[x] = "INT3" /\ Breaks(b, U, x) # {}
  <2>1. CodeIs(b, U, m)!(x)
    BY DEF CodeIs
  <2>2. QED
    BY <2>1
<1>2. QED
  BY <1>1 DEF CodeIs

LEMMA DeletedOne ==
    ASSUME MonitorInv, NEW p \in NO, cmd_d(p)
    PROVE  /\ MonitorInv'
           /\ Nodes(head)' = Nodes(head) \ {p}
           /\ \A q \in Nodes(head) \ {p} : SameUse(bp_list'[q], bp_list[q])
<1> DEFINE U == Nodes(head)
           prev == FirstOf(Links(bp_list), {q \in U : bp_list[q].next = p})
           unlinked == IF prev = NULL THEN bp_list
                       ELSE [bp_list EXCEPT ![prev].next = bp_list[p].next]
<1>1. /\ PoolIs(bp_list, head, free_, U) /\ SlotsAre(bp_list, U)
      /\ bp_list \in [NO -> BP] /\ U \in SUBSET NO
      /\ ~Duplicates => eip \in Addr /\ CodeIs(bp_list, U, mem)
  BY InUse
<1>2. Control /\ mem \in [Addr -> Opcode]
  BY DEF MonitorInv, Control
<1>3. next = Links(bp_list)
  BY DEF next, Links
<1>4. /\ at = "ui" /\ at' = at /\ p \in U /\ free_' = p /\ mem' = Restored(mem, p)
      /\ head' = IF prev = NULL THEN bp_list[p].next ELSE head
      /\ bp_list' = [unlinked EXCEPT ![p] = Blank(free_)]
      /\ value' = value /\ eip' = eip /\ nemu_state' = nemu_state /\ n' = n
      /\ hit_break_rerun' = hit_break_rerun
  BY <1>3 DEF cmd_d, exec_vars
<1>5. PoolIs(bp_list', head', free_', U \ {p}) /\ \A q \in U \ {p} : SameUse(bp_list'[q], bp_list[q])
  <2>1. /\ prev # NULL => prev \in U /\ bp_list[prev].next = p /\ prev # p
        /\ prev = NULL => p = head
    BY <1>1, <1>4, PrevNode
  <2> HIDE DEF prev
  <2>2. bp_list[p] \in BP /\ bp_list[p].next \in NO \cup {NULL} /\ Blank(free_) \in BP
    BY <1>1, PoolFacts DEF BP, Blank
  <2>3. unlinked \in [NO -> BP]
    BY <2>1, <2>2, <1>1 DEF BP
  <2>4. /\ bp_list' \in [NO -> BP] /\ bp_list'[p] = Blank(free_)
        /\ \A q \in NO \ {p} : bp_list'[q] = unlinked[q]
    BY <2>2, <2>3, <1>4
  <2>5. \A q \in NO \ {p, prev} : bp_list'[q] = bp_list[q]
    BY <2>1, <2>4, <1>1
  <2>6. prev # NULL => bp_list'[prev].next = bp_list[p].next /\ SameUse(bp_list'[prev], bp_list[prev])
    <3>1. SUFFICES ASSUME prev # NULL
                   PROVE  /\ bp_list'[prev].next = bp_list[p].next
                          /\ SameUse(bp_list'[prev], bp_list[prev])
      OBVIOUS
    <3>2. bp_list'[prev] = [bp_list[prev] EXCEPT !.next = bp_list[p].next] /\ bp_list[prev] \in BP
      BY <2>1, <2>4, <3>1, <1>1
    <3>3. /\ [bp_list[prev] EXCEPT !.next = bp_list[p].next].next = bp_list[p].next
          /\ SameUse([bp_list[prev] EXCEPT !.next = bp_list[p].next], bp_list[prev])
      BY <3>2, OnlyLinked, Zenon
    <3>4. QED
      BY <3>2, <3>3, Zenon
  <2>7. CASE prev = NULL
    <3>1. \A q \in NO \ {head} : bp_list'[q] = bp_list[q]
      BY <2>1, <2>5, <2>7, NullNotNode
    <3>2. PoolIs(bp_list', bp_list[head].next, head, U \ {head})
      BY <3>1, <2>1, <2>4, <2>7, <1>1, <1>4, PoolAfterPop
    <3>3. QED
      BY <3>1, <3>2, <2>1, <2>7, <1>1, <1>4 DEF SameUse
  <2>8. CASE prev # NULL
    <3>1. PoolIs(bp_list', head, p, U \ {p})
      BY <2>1, <2>4, <2>5, <2>6, <2>8, <1>1, <1>4, PoolAfterUnlink
    <3>2. \A q \in U \ {p} : SameUse(bp_list'[q], bp_list[q])
      BY <2>5, <2>6, <2>8, <1>1 DEF SameUse
    <3>3. QED
      BY <3>1, <3>2, <2>8, <1>4
  <2>9. QED
    BY <2>7, <2>8
<1>6. SlotsAre(bp_list', U \ {p})
  BY <1>1, <1>5 DEF SlotsAre, SameUse
<1>7. \A q \in U \ {p} : SameBreak(bp_list'[q], bp_list[q])
  BY <1>5 DEF SameUse, SameBreak
<1>8. ASSUME bp_list[p].type = "BREAKPOINT" PROVE MonitorInv'
  <2>1. bp_list[p].addr \in Addr /\ bp_list[p].ori_byte \in Opcode
        /\ p \in Breaks(bp_list, U, bp_list[p].addr)
    BY <1>1, <1>4, <1>8 DEF SlotsAre, Breaks
  <2>2. mem' = [mem EXCEPT ![bp_list[p].addr] = bp_list[p].ori_byte]
    BY <1>4, <1>8 DEF Restored
  <2>3. Control'
    BY <2>1, <2>2, <1>2, <1>4 DEF Control
  <2>4. ASSUME ~Duplicates PROVE eip' \in Addr /\ CodeIs(bp_list', U \ {p}, mem')
    <3>1. CodeIs(bp_list', U \ {p}, [mem EXCEPT ![bp_list[p].addr] = bp_list[p].ori_byte])
      BY <2>1, <2>4, <1>1, <1>2, <1>7, CodeAfterDelete
    <3>2. QED
      BY <3>1, <2>2, <2>4, <1>1, <1>4
  <2>5. QED
    BY <2>3, <2>4, <1>4, <1>5, <1>6, InUseNext
<1>9. ASSUME bp_list[p].type # "BREAKPOINT" PROVE MonitorInv'
  <2>1. mem' = mem
    BY <1>4, <1>9 DEF Restored
  <2>2. Control'
    BY <2>1, <1>2, <1>4 DEF Control
  <2>3. ~Duplicates => eip' \in Addr /\ CodeIs(bp_list', U \ {p}, mem')
    BY <2>1, <1>1, <1>4, <1>7, <1>9, CodeAfterUnwatch
  <2>4. QED
    BY <2>2, <2>3, <1>4, <1>5, <1>6, InUseNext
<1>10. Nodes(head)' = U \ {p}
  BY <1>5, InUseNext
<1>11. MonitorInv'
  BY <1>8, <1>9
<1>12. QED
  BY <1>5, <1>10, <1>11

LEMMA DeleteAll ==
    ASSUME MonitorInv, delete_all_breakpoint
    PROVE  MonitorInv'
<1> DEFINE U == Nodes(head)
<1>1. /\ PoolIs(bp_list, head, free_, U) /\ SlotsAre(bp_list, U)
      /\ bp_list \in [NO -> BP] /\ U \in SUBSET NO
      /\ ~Duplicates => eip \in Addr /\ CodeIs(bp_list, U, mem)
  BY InUse
<1>2. Control /\ mem \in [Addr -> Opcode]
  BY DEF MonitorInv, Control
<1>3. /\ at = "ui" /\ at' = at /\ head # NULL /\ head' = NULL /\ free_' = head
      /\ bp_list' = [p \in NO |-> IF p \notin U THEN bp_list[p]
                        ELSE Blank(IF bp_list[p].next = NULL THEN free_ ELSE bp_list[p].next)]
      /\ mem' = [a \in Addr |-> IF find_breakpoint(a) = NULL THEN mem[a]
                                ELSE bp_list[find_breakpoint(a)].ori_byte]
      /\ value' = value /\ eip' = eip /\ nemu_state' = nemu_state /\ n' = n
      /\ hit_break_rerun' = hit_break_rerun
  BY DEF delete_all_breakpoint, exec_vars
<1>4. PoolIs(bp_list', head', free_', {})
  BY <1>1, <1>3, PoolAfterDeleteAll
<1>5. SlotsAre(bp_list', {})
  BY DEF SlotsAre
<1>6. \A a \in Addr : find_breakpoint(a) # NULL => find_breakpoint(a) \in Breaks(bp_list, U, a)
  BY <1>1, FindBreakpoint
<1>7. mem' \in [Addr -> Opcode]
  <2>1. \A a \in Addr : find_breakpoint(a) # NULL =>
            bp_list[find_breakpoint(a)].ori_byte \in Opcode
    BY <1>1, <1>6 DEF SlotsAre, Breaks
  <2>2. QED
    BY <2>1, <1>2, <1>3
<1>8. Control'
  BY <1>2, <1>3, <1>7 DEF Control
<1>9. ASSUME ~Duplicates PROVE CodeIs(bp_list', {}, mem')
  <2>1. ASSUME NEW a \in Addr PROVE mem'[a] = Program[a]
    <3>1. CodeIs(bp_list, U, mem)!(a)
      BY <1>1, <1>9 DEF CodeIs
    <3>2. find_breakpoint(a) = NULL => Breaks(bp_list, U, a) = {}
      BY <1>1, FindBreakpoint
    <3>3. QED
      BY <3>1, <3>2, <1>3, <1>6
  <2>2. QED
    BY <2>1 DEF CodeIs, Breaks
<1>10. QED
  BY <1>1, <1>3, <1>4, <1>5, <1>8, <1>9, InUseNext

-----------------------------------------------------------------------------
(* exec.                                                                   *)

\* What an instruction does to the code: m after resume_breakpoints, and then
\* the byte under a breakpoint that was hit at address x.
LEMMA CodeAfterInst ==
    ASSUME MonitorInv, NEW x, NEW hit \in BOOLEAN
    PROVE  LET U  == Nodes(head)
               m  == IF hit_break_rerun THEN resume_breakpoints(mem) ELSE mem
               bp == IF hit THEN find_breakpoint(x) ELSE NULL
               d  == IF bp = NULL THEN m ELSE [m EXCEPT ![x] = bp_list[bp].ori_byte]
           IN  /\ bp # NULL => x \in Addr /\ bp \in Breaks(bp_list, U, x)
               /\ d \in [Addr -> Opcode]
               /\ ~Duplicates => CodeIs(bp_list, U, d)
               /\ \A a \in Addr : mem[a] = "INT3" /\ d[a] # "INT3" => bp # NULL /\ a = x
<1> DEFINE U  == Nodes(head)
           m  == IF hit_break_rerun THEN resume_breakpoints(mem) ELSE mem
           bp == IF hit THEN find_breakpoint(x) ELSE NULL
           d  == IF bp = NULL THEN m ELSE [m EXCEPT ![x] = bp_list[bp].ori_byte]
<1>1. /\ PoolIs(bp_list, head, free_, U) /\ SlotsAre(bp_list, U)
      /\ ~Duplicates => CodeIs(bp_list, U, mem)
  BY InUse
<1>2. mem \in [Addr -> Opcode]
  BY DEF MonitorInv, Control
<1>3. resume_breakpoints(mem) = [a \in Addr |-> IF Breaks(bp_list, U, a) # {} THEN "INT3" ELSE mem[a]]
  <2>1. \A a : (\E p \in Breakpoints : bp_list[p].addr = a) <=> Breaks(bp_list, U, a) # {}
    BY DEF Breakpoints, Breaks
  <2>2. QED
    BY <2>1 DEF resume_breakpoints
<1>4. m \in [Addr -> Opcode] /\ \A a \in Addr : mem[a] = "INT3" => m[a] = "INT3"
  BY <1>2, <1>3 DEF Opcode
<1>5. ~Duplicates => CodeIs(bp_list, U, m)
  <2>1. ASSUME ~Duplicates PROVE CodeIs(bp_list, U, resume_breakpoints(mem))
    BY <1>1, <1>2, <1>3, <2>1, CodeAfterResume
  <2>2. QED
    BY <2>1, <1>1
<1>6. ASSUME bp # NULL
      PROVE  bp \in Breaks(bp_list, U, x) /\ x \in Addr /\ bp_list[bp].ori_byte \in Opcode
  <2>1. bp = find_breakpoint(x)
    BY <1>6
  <2>2. bp \in Breaks(bp_list, U, x)
    BY <2>1, <1>1, <1>6, FindBreakpoint
  <2>3. QED
    BY <2>2, <1>1 DEF SlotsAre, Breaks
<1> HIDE DEF U, m, bp
<1>7. d \in [Addr -> Opcode]
  BY <1>4, <1>6
<1>8. ASSUME ~Duplicates PROVE CodeIs(bp_list, U, d)
  <2>1. CASE bp = NULL
    BY <2>1, <1>5, <1>8
  <2>2. CASE bp # NULL
    <3>1. CodeIs(bp_list, U, [m EXCEPT ![x] = bp_list[bp].ori_byte])
      BY <2>2, <1>4, <1>5, <1>6, <1>8, CodeAfterHit
    <3>2. QED
      BY <3>1, <2>2
  <2>3. QED
    BY <2>1, <2>2
<1>9. \A a \in Addr : mem[a] = "INT3" /\ d[a] # "INT3" => bp # NULL /\ a = x
  BY <1>4
<1>10. QED
  BY <1>6, <1>7, <1>8, <1>9 DEF U, m, bp

\* What follows any instruction, which left the state s and the next address e.
LEMMA AfterAnyInst ==
    ASSUME MonitorInv, at = "inst", NEW s \in {"RUN", "BREAK", "STOP"}, NEW e,
           NEW v \in [Expr -> Value], AfterInst(s, e, v),
           ~Duplicates => e \in Addr \/ (s = "BREAK" /\ find_breakpoint(e - 1) # NULL)
    PROVE  /\ MonitorInv'
           /\ nemu_state' # s => \E p \in Watchpoints :
                  /\ bp_list'[p].old_val = value'[bp_list[p].addr]
                  /\ bp_list'[p].old_val # bp_list[p].old_val
           /\ \A a \in Addr : mem[a] = "INT3" /\ mem'[a] # "INT3" =>
                  s = "BREAK" /\ a = e - 1 /\ eip' = e - 1
<1> DEFINE U  == Nodes(head)
           m  == IF hit_break_rerun THEN resume_breakpoints(mem) ELSE mem
           bp == IF s = "BREAK" THEN find_breakpoint(e - 1) ELSE NULL
           wp == scan_watchpoint(v)
<1>1. /\ PoolIs(bp_list, head, free_, U) /\ SlotsAre(bp_list, U)
      /\ bp_list \in [NO -> BP] /\ U \in SUBSET NO
  BY InUse
<1>2. Control
  BY DEF MonitorInv
<1>3. /\ n' = n - 1 /\ hit_break_rerun' = FALSE /\ value' = v
      /\ mem' = IF bp = NULL THEN m ELSE [m EXCEPT ![e - 1] = bp_list[bp].ori_byte]
      /\ eip' = IF bp = NULL THEN e ELSE e - 1
      /\ head' = head /\ free_' = free_
      /\ wp = NULL => nemu_state' = s /\ at' = "intr" /\ bp_list' = bp_list
      /\ wp # NULL => /\ nemu_state' = "READY" /\ at' = "exit"
                      /\ bp_list' = [bp_list EXCEPT ![wp].old_val = v[bp_list[wp].addr]]
  BY DEF AfterInst
<1>4. /\ bp # NULL => e - 1 \in Addr
      /\ mem' \in [Addr -> Opcode]
      /\ ~Duplicates => CodeIs(bp_list, U, mem')
      /\ \A a \in Addr : mem[a] = "INT3" /\ mem'[a] # "INT3" => bp # NULL /\ a = e - 1
  BY <1>3, CodeAfterInst
<1>5. /\ wp # NULL => wp \in Watchpoints /\ v[bp_list[wp].addr] # bp_list[wp].old_val
      /\ wp = NULL => \A p \in Watchpoints : v[bp_list[p].addr] = bp_list[p].old_val
      /\ Watchpoints = {p \in U : bp_list[p].type = "WATCHPOINT"}
  BY <1>1, ScanWatchpoint DEF Watchpoints
<1> HIDE DEF U, m, bp, wp
<1>6. bp_list' \in [NO -> BP]
      /\ \A p \in NO : /\ bp_list'[p].next = bp_list[p].next /\ bp_list'[p].in_use = bp_list[p].in_use
                       /\ SameBreak(bp_list'[p], bp_list[p])
  <2>1. CASE wp = NULL
    BY <2>1, <1>1, <1>3 DEF SameBreak
  <2>2. CASE wp # NULL
    <3>1. wp \in NO /\ wp \in U /\ bp_list[wp].type = "WATCHPOINT"
      BY <2>2, <1>1, <1>5
    <3>2. v[bp_list[wp].addr] \in Value
      BY <3>1, <1>1 DEF SlotsAre
    <3>3. [bp_list[wp] EXCEPT !.old_val = v[bp_list[wp].addr]] \in BP
      BY <3>1, <3>2, <1>1 DEF BP
    <3>4. /\ bp_list' \in [NO -> BP] /\ \A p \in NO \ {wp} : bp_list'[p] = bp_list[p]
          /\ bp_list'[wp] = [bp_list[wp] EXCEPT !.old_val = v[bp_list[wp].addr]]
      BY <2>2, <3>1, <3>3, <1>1, <1>3
    <3>5. /\ bp_list'[wp].next = bp_list[wp].next /\ bp_list'[wp].in_use = bp_list[wp].in_use
          /\ SameBreak(bp_list'[wp], bp_list[wp])
      BY <3>1, <3>4, <1>1 DEF BP, SameBreak
    <3>6. QED
      BY <3>4, <3>5 DEF SameBreak
  <2>3. QED
    BY <2>1, <2>2
<1>7. PoolIs(bp_list', head', free_', U)
  BY <1>1, <1>3, <1>6, PoolStays
<1>8. wp # NULL => bp_list'[wp].old_val = v[bp_list[wp].addr] /\ wp \in NO
  <2>1. SUFFICES ASSUME wp # NULL PROVE bp_list'[wp].old_val = v[bp_list[wp].addr] /\ wp \in NO
    OBVIOUS
  <2>2. wp \in NO /\ bp_list[wp] \in BP
    BY <2>1, <1>1, <1>5
  <2>3. bp_list'[wp] = [bp_list[wp] EXCEPT !.old_val = v[bp_list[wp].addr]]
    BY <2>1, <2>2, <1>1, <1>3
  <2>4. QED
    BY <2>2, <2>3 DEF BP
<1>9. SlotsAre(bp_list', U)
  <2>1. ASSUME NEW p \in U, bp_list[p].type = "WATCHPOINT" PROVE bp_list'[p].old_val \in Value
    <3>1. bp_list[p].addr \in Expr /\ bp_list[p].old_val \in Value
      BY <2>1, <1>1 DEF SlotsAre
    <3>2. CASE p = wp
      BY <3>1, <3>2, <1>1, <1>8, <2>1, NullNotNode
    <3>3. CASE p # wp
      BY <3>1, <3>3, <1>1, <1>3, <2>1
    <3>4. QED
      BY <3>2, <3>3
  <2>2. QED
    BY <2>1, <1>1, <1>6 DEF SlotsAre, SameBreak
<1>10. Control'
  <2>1. n' \in 0 .. MaxInstr
    BY <1>2, <1>3, MonitorAssumption DEF Control
  <2>2. nemu_state' \in {"READY", "RUN", "BREAK", "STOP"} /\ at' \in {"intr", "exit"}
    BY <1>3
  <2>3. hit_break_rerun' \in BOOLEAN
    BY <1>3
  <2>4. QED
    BY <2>1, <2>2, <2>3, <1>3, <1>4 DEF Control
<1>11. at' = "intr" => \A p \in U : bp_list'[p].type = "WATCHPOINT" =>
                           value'[bp_list'[p].addr] = bp_list'[p].old_val
  BY <1>3, <1>5
<1>12. ASSUME ~Duplicates PROVE eip' \in Addr /\ CodeIs(bp_list', U, mem')
  <2>1. CodeIs(bp_list', U, mem')
    BY <1>1, <1>4, <1>6, <1>12, CodeSame
  <2>2. eip' \in Addr
    BY <1>3, <1>4, <1>12 DEF bp
  <2>3. QED
    BY <2>1, <2>2
<1>13. MonitorInv'
  BY <1>7, <1>9, <1>10, <1>11, <1>12, InUseNext
<1>14. ASSUME nemu_state' # s
       PROVE  \E p \in Watchpoints : /\ bp_list'[p].old_val = value'[bp_list[p].addr]
                                     /\ bp_list'[p].old_val # bp_list[p].old_val
  <2>1. wp # NULL
    <3>1. wp = NULL => nemu_state' = s
      BY <1>3
    <3>2. QED
      BY <3>1, <1>14
  <2>2. QED
    BY <2>1, <1>3, <1>5, <1>8
<1>15. bp # NULL => s = "BREAK"
  BY DEF bp
<1>16. QED
  BY <1>3, <1>4, <1>13, <1>14, <1>15

LEMMA AfterOp ==
    ASSUME MonitorInv, exec_op
    PROVE  MonitorInv' /\ \A a \in Addr : mem[a] = "INT3" => mem'[a] = "INT3"
<1>1. PICK e \in Addr, v \in [Expr -> Value] : AfterInst("RUN", e, v)
  BY DEF exec_op
<1>2. at = "inst"
  BY DEF exec_op
<1>3. ~Duplicates => e \in Addr \/ ("RUN" = "BREAK" /\ find_breakpoint(e - 1) # NULL)
  BY Zenon
<1>4. "RUN" \in {"RUN", "BREAK", "STOP"} /\ "RUN" # "BREAK"
  OBVIOUS
<1>5. /\ MonitorInv'
      /\ \A a \in Addr : mem[a] = "INT3" /\ mem'[a] # "INT3" =>
             "RUN" = "BREAK" /\ a = e - 1 /\ eip' = e - 1
  BY <1>1, <1>2, <1>3, <1>4, AfterAnyInst, Zenon
<1>6. QED
  BY <1>4, <1>5

LEMMA AfterBreakPoint ==
    ASSUME MonitorInv, exec_break_point
    PROVE  /\ MonitorInv'
           /\ ~Duplicates => \A a \in Addr : mem[a] = "INT3" /\ mem'[a] # "INT3" => eip = a /\ eip' = a
<1>1. PICK v \in [Expr -> Value] : AfterInst("BREAK", eip + 1, v)
  BY DEF exec_break_point
<1>2. at = "inst" /\ mem[eip] = "INT3"
  BY DEF exec_break_point
<1>3. ASSUME ~Duplicates
      PROVE  /\ (eip + 1) - 1 = eip
             /\ eip + 1 \in Addr \/ find_breakpoint((eip + 1) - 1) # NULL
  <2>1. eip \in Addr /\ CodeIs(bp_list, Nodes(head), mem)
    BY <1>3 DEF MonitorInv
  <2>2. (eip + 1) - 1 = eip
    BY <2>1, MonitorAssumption
  <2>3. CASE Program[eip] = "INT3"
    BY <2>1, <2>2, <2>3, MonitorAssumption
  <2>4. CASE Program[eip] # "INT3"
    <3>1. Breaks(bp_list, Nodes(head), eip) # {}
      BY <2>1, <2>4, <1>2 DEF CodeIs
    <3>2. QED
      BY <3>1, <2>2, FindBreakpoint DEF MonitorInv
  <2>5. QED
    BY <2>3, <2>4
<1>4. "BREAK" \in {"RUN", "BREAK", "STOP"}
  OBVIOUS
<1>5. ~Duplicates => eip + 1 \in Addr \/ ("BREAK" = "BREAK" /\ find_breakpoint((eip + 1) - 1) # NULL)
  BY <1>3, Zenon
<1>6. /\ MonitorInv'
      /\ \A a \in Addr : mem[a] = "INT3" /\ mem'[a] # "INT3" =>
             "BREAK" = "BREAK" /\ a = (eip + 1) - 1 /\ eip' = (eip + 1) - 1
  BY <1>1, <1>2, <1>4, <1>5, AfterAnyInst, Zenon
<1>7. QED
  BY <1>3, <1>6

LEMMA AfterTrap ==
    ASSUME MonitorInv, exec_nemu_trap
    PROVE  /\ MonitorInv'
           /\ \A a \in Addr : mem[a] = "INT3" => mem'[a] = "INT3"
           /\ nemu_state' # "STOP" => \E p \in Watchpoints :
                  /\ bp_list'[p].old_val = value'[bp_list[p].addr]
                  /\ bp_list'[p].old_val # bp_list[p].old_val
<1>1. PICK v \in [Expr -> Value] : AfterInst("STOP", eip + 1, v)
  BY DEF exec_nemu_trap
<1>2. at = "inst" /\ mem[eip] = "trap"
  BY DEF exec_nemu_trap
<1>3. ASSUME ~Duplicates PROVE eip + 1 \in Addr
  <2>1. eip \in Addr /\ CodeIs(bp_list, Nodes(head), mem)
    BY <1>3 DEF MonitorInv
  <2>2. Program[eip] = "trap"
    BY <2>1, <1>2 DEF CodeIs
  <2>3. QED
    BY <2>1, <2>2, MonitorAssumption
<1>4. "STOP" \in {"RUN", "BREAK", "STOP"} /\ "STOP" # "BREAK"
  OBVIOUS
<1>5. ~Duplicates => eip + 1 \in Addr \/ ("STOP" = "BREAK" /\ find_breakpoint((eip + 1) - 1) # NULL)
  BY <1>3, Zenon
<1>6. /\ MonitorInv'
      /\ nemu_state' # "STOP" => \E p \in Watchpoints :
             /\ bp_list'[p].old_val = value'[bp_list[p].addr]
             /\ bp_list'[p].old_val # bp_list[p].old_val
      /\ \A a \in Addr : mem[a] = "INT3" /\ mem'[a] # "INT3" =>
             "STOP" = "BREAK" /\ a = (eip + 1) - 1 /\ eip' = (eip + 1) - 1
  BY <1>1, <1>2, <1>4, <1>5, AfterAnyInst, Zenon
<1>7. QED
  BY <1>4, <1>6

-----------------------------------------------------------------------------
(* Theorems.                                                               *)

\* What leaves the pool and the code alone.
LEMMA Elsewhere ==
    ASSUME MonitorInv, UNCHANGED <<pool_vars, mem>>, Control',
           ~Duplicates => eip' \in Addr,
           at' = "intr" => at = "intr" /\ value' = value
    PROVE  MonitorInv'
<1> DEFINE U == Nodes(head)
<1>1. bp_list' = bp_list /\ head' = head /\ free_' = free_ /\ mem' = mem
  BY DEF pool_vars
<1>2. /\ PoolIs(bp_list', head', free_', U) /\ SlotsAre(bp_list', U)
      /\ ~Duplicates => CodeIs(bp_list', U, mem')
  BY <1>1, InUse
<1>3. at' = "intr" => \A p \in U : bp_list'[p].type = "WATCHPOINT" =>
                          value'[bp_list'[p].addr] = bp_list'[p].old_val
  BY <1>1 DEF MonitorInv, WatchedChangePauses
<1>4. QED
  BY <1>2, <1>3, InUseNext

LEMMA AfterCommand ==
    ASSUME MonitorInv, NEW k \in 1 .. MaxInstr, Command(k)
    PROVE  MonitorInv'
<1>1. /\ UNCHANGED <<pool_vars, mem>> /\ value' = value /\ eip' = eip
      /\ hit_break_rerun' = (nemu_state = "BREAK") /\ nemu_state' = "RUN" /\ n' = k /\ at' = "inst"
  BY DEF Command
<1>2. k \in 0 .. MaxInstr /\ k > 0
  BY MonitorAssumption
<1>3. hit_break_rerun' \in BOOLEAN
  BY <1>1
<1>4. mem' = mem /\ Control
  BY <1>1 DEF MonitorInv
<1>5. Control'
  BY <1>1, <1>2, <1>3, <1>4 DEF Control
<1>6. QED
  BY <1>1, <1>5, Elsewhere DEF MonitorInv

LEMMA AfterQuit ==
    ASSUME MonitorInv, cmd_q
    PROVE  MonitorInv'
<1>1. /\ UNCHANGED <<pool_vars, mem>> /\ value' = value /\ eip' = eip /\ mem' = mem
      /\ hit_break_rerun' = hit_break_rerun /\ nemu_state' = nemu_state /\ n' = n /\ at' = "closed"
  BY DEF cmd_q
<1>2. Control'
  BY <1>1 DEF Control, MonitorInv
<1>3. QED
  BY <1>1, <1>2, Elsewhere DEF MonitorInv

LEMMA AfterExit ==
    ASSUME MonitorInv, Exit
    PROVE  MonitorInv'
<1>1. /\ UNCHANGED <<pool_vars, mem>> /\ value' = value /\ eip' = eip /\ mem' = mem
      /\ hit_break_rerun' = hit_break_rerun /\ n' = n /\ at' \in {"closed", "ui"}
      /\ nemu_state' \in {"READY", nemu_state}
  BY DEF Exit
<1>2. Control'
  BY <1>1 DEF Control, MonitorInv
<1>3. QED
  BY <1>1, <1>2, Elsewhere DEF MonitorInv

\* An interrupt may change what is watched, and the scan comes only after the
\* next instruction: while exec goes on the invariant is about what was scanned.
LEMMA AfterIntr ==
    ASSUME MonitorInv, do_intr
    PROVE  MonitorInv'
<1>1. /\ UNCHANGED <<pool_vars, mem>> /\ mem' = mem
      /\ hit_break_rerun' = hit_break_rerun /\ n' = n /\ nemu_state' = nemu_state
      /\ at' \in {"inst", "exit"} /\ (at' = "inst" => n > 0)
  BY DEF do_intr
<1>2. (eip' = eip /\ value' = value) \/ (eip' \in Addr /\ value' \in [Expr -> Value])
  BY DEF do_intr
<1>3. Control'
  BY <1>1, <1>2 DEF Control, MonitorInv
<1>4. QED
  BY <1>1, <1>2, <1>3, Elsewhere DEF MonitorInv

LEMMA StepInv ==
    ASSUME MonitorInv, [Next]_vars
    PROVE  MonitorInv'
<1>1. ASSUME NEW a \in Addr, cmd_b(a) PROVE MonitorInv'
  BY <1>1, SetBreakpoint
<1>2. ASSUME NEW e \in Expr, cmd_w(e) PROVE MonitorInv'
  BY <1>2, SetWatchpoint
<1>3. ASSUME NEW p \in NO, cmd_d(p) PROVE MonitorInv'
  BY <1>3, DeletedOne
<1>4. CASE delete_all_breakpoint
  BY <1>4, DeleteAll
<1>5. CASE cmd_q
  BY <1>5, AfterQuit
<1>6. ASSUME NEW k \in 1 .. MaxInstr, Command(k) PROVE MonitorInv'
  BY <1>6, AfterCommand
<1>7. CASE exec_op
  BY <1>7, AfterOp
<1>8. CASE exec_break_point
  BY <1>8, AfterBreakPoint
<1>9. CASE exec_nemu_trap
  BY <1>9, AfterTrap
<1>10. CASE do_intr
  BY <1>10, AfterIntr
<1>11. CASE Exit
  BY <1>11, AfterExit
<1>12. CASE UNCHANGED vars
  <2>1. UNCHANGED <<pool_vars, mem>> /\ value' = value /\ eip' = eip /\ mem' = mem /\ at' = at
        /\ hit_break_rerun' = hit_break_rerun /\ n' = n /\ nemu_state' = nemu_state
    BY <1>12 DEF vars, exec_vars
  <2>2. Control'
    BY <2>1 DEF Control, MonitorInv
  <2>3. QED
    BY <2>1, <2>2, Elsewhere DEF MonitorInv
<1>13. QED
  BY <1>1, <1>2, <1>3, <1>4, <1>5, <1>6, <1>7, <1>8, <1>9, <1>10, <1>11, <1>12 DEF Next

\* The inductive invariant: the pool's two lists, what its slots say, the code
\* under the breakpoints and the values last reported of the watchpoints.
THEOREM MonitorInvariant == Spec => []MonitorInv
<1>1. Init => MonitorInv
  BY InitInv
<1>2. MonitorInv /\ [Next]_vars => MonitorInv'
  BY StepInv
<1>3. QED
  BY <1>1, <1>2, PTL DEF Spec

\* Whatever is set and deleted in whatever order, the list in use and the free
\* list end, share no node and hold the whole pool (nothing in breakpoint.c
\* leaks a node or puts one on both), for a pool of any size.
THEOREM PoolIsPartitioned == Spec => []PoolPartition
<1>1. MonitorInv => PoolPartition
  <2>1. SUFFICES ASSUME MonitorInv PROVE PoolPartition
    OBVIOUS
  <2> DEFINE U == Nodes(head)
  <2>2. PoolIs(bp_list, head, free_, U) /\ next = Links(bp_list)
    BY <2>1 DEF MonitorInv, next, Links
  <2>3. Nodes(free_) = NO \ U /\ Ends(next, head) /\ Ends(next, free_) /\ U \subseteq NO
    BY <2>2, PoolFacts DEF Nodes, PoolIs
  <2>4. \A p \in NO : bp_list[p].in_use <=> p \in U
    BY <2>2 DEF PoolIs
  <2>5. QED
    BY <2>3, <2>4 DEF PoolPartition
<1>2. QED
  BY <1>1, MonitorInvariant, PTL

\* With one breakpoint per address the code in memory is the program but for
\* the INT3s of the breakpoints in the list, each of which hides the program's
\* own byte: what a hit, a deletion and the guest's own INT3s rely on.
THEOREM PatchesAreIntact ==
    ASSUME ~Duplicates
    PROVE  Spec => []PatchIntegrity
<1>1. MonitorInv => PatchIntegrity
  <2>1. SUFFICES ASSUME MonitorInv, NEW a \in Addr
                 PROVE  IF find_breakpoint(a) = NULL THEN mem[a] = Program[a]
                        ELSE /\ mem[a] \in {Program[a], "INT3"}
                             /\ bp_list[find_breakpoint(a)].ori_byte = Program[a]
    BY DEF PatchIntegrity
  <2>2. CodeIs(bp_list, Nodes(head), mem)!(a) /\ PoolIs(bp_list, head, free_, Nodes(head))
    BY <2>1 DEF CodeIs, MonitorInv
  <2>3. /\ find_breakpoint(a) = NULL <=> Breaks(bp_list, Nodes(head), a) = {}
        /\ find_breakpoint(a) # NULL => find_breakpoint(a) \in Breaks(bp_list, Nodes(head), a)
    BY <2>2, FindBreakpoint
  <2>4. QED
    BY <2>2, <2>3
<1>2. QED
  BY <1>1, MonitorInvariant, PTL

\* The types, among them that eip stays in the code: without two breakpoints at
\* one address no INT3 is left behind for eip to step over.
THEOREM TypesOK ==
    ASSUME ~Duplicates
    PROVE  Spec => []TypeOK
<1>1. MonitorInv => TypeOK
  <2>1. SUFFICES ASSUME MonitorInv PROVE TypeOK
    OBVIOUS
  <2>2. /\ bp_list \in [NO -> BP] /\ head \in NO \cup {NULL} /\ free_ \in NO \cup {NULL}
        /\ eip \in Addr
    BY <2>1, InUse
  <2>3. Control
    BY <2>1 DEF MonitorInv
  <2>4. QED
    BY <2>2, <2>3 DEF TypeOK, Control
<1>2. QED
  BY <1>1, MonitorInvariant, PTL

\* exec does not go past an instruction while a watched value, of any node of
\* the list, differs from the one last reported.
THEOREM WatchedChangesPause == Spec => []WatchedChangePauses
<1>1. MonitorInv => WatchedChangePauses
  BY DEF MonitorInv
<1>2. QED
  BY <1>1, MonitorInvariant, PTL

\* A breakpoint that stays in the list loses its INT3 only by being hit: no
\* deletion of another one, no pass over it and no interrupt disarms it.
THEOREM OnlyHitsDisarm ==
    ASSUME ~Duplicates
    PROVE  Spec => DisarmedOnlyByHit
<1> DEFINE Step == \A a \in Addr :
              mem'[a] # "INT3" /\ Armed(a) /\ find_breakpoint(a)' # NULL
                  => at = "inst" /\ eip = a /\ eip' = a
<1>1. ASSUME MonitorInv, Next PROVE Step
  <2>1. SUFFICES ASSUME NEW a \in Addr, mem'[a] # "INT3", mem[a] = "INT3", find_breakpoint(a)' # NULL
                 PROVE  at = "inst" /\ eip = a /\ eip' = a
    BY DEF Armed
  <2> DEFINE U == Nodes(head)
  <2>2. mem \in [Addr -> Opcode] /\ PoolIs(bp_list, head, free_, U) /\ CodeIs(bp_list, U, mem)!(a)
    BY <1>1 DEF MonitorInv, Control, CodeIs
  <2>3. Nodes(head)' \subseteq NO /\ PoolIs(bp_list', head', free_', Nodes(head)')
    <3>1. MonitorInv'
      BY <1>1, StepInv
    <3>2. QED
      BY <3>1 DEF MonitorInv, PoolIs
  <2>4. Breaks(bp_list', Nodes(head)', a) # {}
    BY <2>1, <2>3, FindBreakpointNext
  <2>5. ASSUME NEW x \in Addr, cmd_b(x) PROVE FALSE
    <3>1. mem' = mem \/ mem' = [mem EXCEPT ![x] = "INT3"]
      BY <2>5 DEF cmd_b
    <3>2. QED
      BY <3>1, <2>1, <2>2
  <2>6. ASSUME NEW p \in NO, cmd_d(p) PROVE FALSE
    \* Were it disarmed, p was the one breakpoint at a, and none is left.
    <3>1. p \in U /\ (mem' = mem \/ (bp_list[p].type = "BREAKPOINT" /\
                          mem' = [mem EXCEPT ![bp_list[p].addr] = bp_list[p].ori_byte]))
      BY <2>6 DEF cmd_d, Restored
    <3>2. p \in Breaks(bp_list, U, a)
      BY <3>1, <2>1, <2>2 DEF Breaks
    <3>3. Breaks(bp_list', Nodes(head)', a) = {}
      <4>1. Nodes(head)' = U \ {p} /\ \A q \in U \ {p} : SameUse(bp_list'[q], bp_list[q])
        BY <2>6, <1>1, DeletedOne
      <4>2. QED
        BY <4>1, <3>2, <2>2 DEF Breaks, SameUse
    <3>4. QED
      BY <3>3, <2>4
  <2>7. CASE delete_all_breakpoint
    <3>1. Nodes(head)' = {}
      BY <2>3, <2>7, PoolFacts DEF delete_all_breakpoint
    <3>2. QED
      BY <3>1, <2>4 DEF Breaks
  <2>8. CASE exec_op
    BY <2>1, <2>8, <1>1, AfterOp
  <2>9. CASE exec_break_point
    BY <2>1, <2>9, <1>1, AfterBreakPoint DEF exec_break_point
  <2>10. CASE exec_nemu_trap
    BY <2>1, <2>10, <1>1, AfterTrap
  <2>11. mem' = mem => FALSE
    BY <2>1
  <2>12. QED
    BY <1>1, <2>5, <2>6, <2>7, <2>8, <2>9, <2>10, <2>11
       DEF Next, cmd_w, cmd_q, Command, do_intr, Exit
<1>2. ASSUME MonitorInv, [Next]_vars PROVE [Step]_vars
  BY <1>1, <1>2
<1>3. QED
  BY <1>2, MonitorInvariant, PTL DEF Spec, DisarmedOnlyByHit

\* The pause for a watched change is all that replaces the stop of a trap, and
\* that change is reported to the user in that very turn.
THEOREM TrapsStop == Spec => TrapLostOnlyToWatch
<1> DEFINE Step == at = "inst" /\ at' # "inst" /\ mem[eip] = "trap" /\ nemu_state' # "STOP" =>
              \E p \in Nodes(head) : /\ bp_list[p].type = "WATCHPOINT"
                                     /\ bp_list'[p].old_val = value'[bp_list[p].addr]
                                     /\ bp_list'[p].old_val # bp_list[p].old_val
<1>1. ASSUME MonitorInv, Next PROVE Step
  <2>1. SUFFICES ASSUME at = "inst", mem[eip] = "trap", nemu_state' # "STOP"
                 PROVE  \E p \in Watchpoints : /\ bp_list'[p].old_val = value'[bp_list[p].addr]
                                               /\ bp_list'[p].old_val # bp_list[p].old_val
    BY DEF Watchpoints
  <2>2. exec_nemu_trap
    BY <1>1, <2>1 DEF Next, cmd_b, cmd_w, cmd_d, delete_all_breakpoint, cmd_q, Command,
                      exec_op, exec_break_point, do_intr, Exit
  <2>3. QED
    BY <2>1, <2>2, <1>1, AfterTrap
<1>2. ASSUME MonitorInv, [Next]_vars PROVE [Step]_vars
  BY <1>1, <1>2
<1>3. QED
  BY <1>2, MonitorInvariant, PTL DEF Spec, TrapLostOnlyToWatch

\* With one breakpoint per address a hit puts the program's own byte back and eip
\* on it.  HitRestoresOpcode fails with two, and only then.
THEOREM HitsRestoreOpcode ==
    ASSUME ~Duplicates
    PROVE  Spec => HitRestoresOpcode
<1> DEFINE Step == at = "inst" /\ at' # "inst" /\ mem[eip] = "INT3" /\ find_breakpoint(eip) # NULL
              => mem'[eip] = Program[eip] /\ eip' = eip
<1>1. ASSUME MonitorInv, Next PROVE Step
  <2>1. SUFFICES ASSUME at = "inst", mem[eip] = "INT3", find_breakpoint(eip) # NULL
                 PROVE  mem'[eip] = Program[eip] /\ eip' = eip
    OBVIOUS
  <2> DEFINE U == Nodes(head)
             bp == find_breakpoint(eip)
  <2>2. /\ mem \in [Addr -> Opcode] /\ eip \in Addr /\ eip \in Int
        /\ PoolIs(bp_list, head, free_, U) /\ CodeIs(bp_list, U, mem)
    BY <1>1, MonitorAssumption DEF MonitorInv, Control
  <2>3. bp \in Breaks(bp_list, U, eip)
    BY <2>1, <2>2, FindBreakpoint
  <2>4. bp_list[bp].ori_byte = Program[eip]
    BY <2>2, <2>3 DEF CodeIs
  <2>5. PICK v \in [Expr -> Value] : AfterInst("BREAK", eip + 1, v)
    BY <1>1, <2>1 DEF Next, cmd_b, cmd_w, cmd_d, delete_all_breakpoint, cmd_q, Command,
                      exec_op, exec_nemu_trap, do_intr, Exit, exec_break_point
  <2>6. (eip + 1) - 1 = eip
    BY <2>2
  <2> DEFINE m == IF hit_break_rerun THEN resume_breakpoints(mem) ELSE mem
  <2>7. eip' = eip /\ mem' = [m EXCEPT ![eip] = bp_list[bp].ori_byte]
    BY <2>1, <2>5, <2>6, Zenon DEF AfterInst
  <2>8. DOMAIN m = Addr
    BY <2>2 DEF resume_breakpoints
  <2>9. QED
    BY <2>2, <2>4, <2>7, <2>8
<1>2. ASSUME MonitorInv, [Next]_vars PROVE [Step]_vars
  BY <1>1, <1>2
<1>3. QED
  BY <1>2, MonitorInvariant, PTL DEF Spec, HitRestoresOpcode
=============================================================================
