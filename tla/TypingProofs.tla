---------------------------- MODULE TypingProofs -----------------------------
(***************************************************************************)
(* The typing game for any pool, screen, speeds and sequence of keys and   *)
(* ticks: types, the list of letters and its free list, what a hit and the *)
(* end of a search mean, and why the pool is never exhausted.              *)
(***************************************************************************)
EXTENDS Typing, ChainProofs, FiniteSetTheorems

-----------------------------------------------------------------------------
(* The pool of linklist.h.                                                 *)

\* h is the head of a list of the elements L; the free list has the others,
\* once it has been set up, and ends in the element that is never given out.
PoolIs(p, h, L) ==
    /\ p \in Pool /\ h \in Link /\ L \in SUBSET Node
    /\ IsList(p.next, h, L)
    /\ p.free = NULL => L = {}
    /\ p.free # NULL => IsList(p.next, p.free, Node \ L)
    /\ SIZE \notin L /\ p.next[SIZE] = NULL

\* The back links mirror the links.
BackLinks(p, h, L) ==
    /\ \A n \in L : p.next[n] # NULL => p.prev[p.next[n]] = n
    /\ h # NULL => p.prev[h] = NULL

LEMMA NodeFacts ==
    /\ NULL \notin Node /\ SIZE \in Node /\ 0 \in Node /\ SIZE \in Nat /\ Node = 0 .. SIZE
    /\ Node \in SUBSET Nat
BY LinkListAssumption DEF Node

LEMMA PoolFields ==
    ASSUME NEW p \in Pool
    PROVE  /\ p.next \in [Node -> Node \cup {NULL}] /\ p.prev \in [Node -> Node \cup {NULL}]
           /\ p.free \in Node \cup {NULL}
BY DEF Pool, Link

\* What a pool is good for: its lists have the elements a walk finds.
LEMMA PoolFacts ==
    ASSUME NEW p, NEW h, NEW L, PoolIs(p, h, L)
    PROVE  /\ Reached(p.next, h) = L
           /\ Reached(p.next, p.free) = IF p.free = NULL THEN {} ELSE Node \ L
           /\ h \in L \cup {NULL}
           /\ h = NULL <=> L = {}
           /\ p.free \in (Node \ L) \cup {NULL}
           /\ \A n \in L : p.next[n] \in L \cup {NULL}
<1>1. IsList(p.next, h, L) /\ NULL \notin L
  BY NodeFacts DEF PoolIs
<1>2. Reached(p.next, h) = L
  BY <1>1, ListIsReached
<1>3. Reached(p.next, p.free) = IF p.free = NULL THEN {} ELSE Node \ L
  <2>1. CASE p.free = NULL
    BY <2>1, EmptyList, ListIsReached
  <2>2. CASE p.free # NULL
    BY <2>2, ListIsReached DEF PoolIs
  <2>3. QED
    BY <2>1, <2>2
<1>4. h = NULL <=> L = {}
  BY <1>1, EmptyOnly
<1>5. h \in L \cup {NULL} /\ \A n \in L : p.next[n] \in L \cup {NULL}
  BY <1>1 DEF IsList, Contains
<1>6. p.free \in (Node \ L) \cup {NULL}
  BY DEF PoolIs, IsList, Contains
<1>7. QED
  BY <1>2, <1>3, <1>4, <1>5, <1>6

\* The static pool.
LEMMA InitialPool == PoolIs(EmptyPool, NULL, {}) /\ BackLinks(EmptyPool, NULL, {})
<1>1. EmptyPool \in Pool
  BY DEF EmptyPool, Pool, Link
<1>2. IsList(EmptyPool.next, NULL, {})
  BY EmptyList
<1>3. EmptyPool.free = NULL /\ EmptyPool.next[SIZE] = NULL
  BY NodeFacts DEF EmptyPool
<1>4. QED
  BY <1>1, <1>2, <1>3, NodeFacts DEF PoolIs, BackLinks, Link

\* fly_new first strings a pool together that is not.
LEMMA StrungPool ==
    ASSUME NEW p, NEW h, NEW L, PoolIs(p, h, L)
    PROVE  /\ PoolIs(Strung(p), h, L) /\ Strung(p).free \in Node \ L
           /\ Strung(p).prev = p.prev /\ \A n \in L : Strung(p).next[n] = p.next[n]
<1>1. p \in Pool
  BY DEF PoolIs
<1>2. CASE p.free # NULL
  <2>1. Strung(p) = p
    BY <1>2 DEF Strung
  <2>2. QED
    BY <1>2, <2>1, PoolFacts
<1>3. CASE p.free = NULL
  <2> DEFINE next == [n \in Node |-> IF n < SIZE THEN n + 1 ELSE p.next[n]]
  <2>1. L = {} /\ h = NULL
    <3>1. L = {}
      BY <1>3 DEF PoolIs
    <3>2. QED
      BY <3>1, PoolFacts
  <2>2. Strung(p).next = next /\ Strung(p).free = 0 /\ Strung(p).prev = p.prev
    BY <1>1, <1>3 DEF Strung, Pool
  <2>3. next \in [Node -> Node \cup {NULL}]
    BY <1>1, PoolFields, NodeFacts
  <2>4. next[SIZE] = NULL
    BY NodeFacts DEF PoolIs
  <2>5. \A n \in Node : n < SIZE => next[n] = n + 1
    OBVIOUS
  <2> HIDE DEF next
  <2>6. IsList(next, 0, Node)
    BY <2>3, <2>4, <2>5, NodeFacts, NumberedList
  <2>7. Strung(p) \in Pool
    BY <1>1, <1>3, <2>3, NodeFacts DEF Strung, Pool, Link, next
  <2>8. PoolIs(Strung(p), h, L)
    <3>1. Node \ L = Node
      BY <2>1
    <3>2. IsList(Strung(p).next, h, L)
      BY <2>1, EmptyList
    <3>3. QED
      BY <2>1, <2>2, <2>4, <2>6, <2>7, <3>1, <3>2, NodeFacts DEF PoolIs
  <2>9. QED
    BY <2>1, <2>2, <2>8, NodeFacts
<1>4. QED
  BY <1>2, <1>3

\* fly_new and fly_insert: the first free element before the list.
LEMMA PoolAfterNew ==
    ASSUME NEW p, NEW h, NEW L, PoolIs(p, h, L), NEW new \in Node, new = p.free, p.next[new] # NULL,
           NEW c \in Pool, c.free = p.next[new], c.next[new] = h,
           \A n \in Node \ {new} : c.next[n] = p.next[n]
    PROVE  new \notin L /\ PoolIs(c, new, L \cup {new})
<1>1. p \in Pool /\ L \in SUBSET Node /\ new \in Node \ L /\ p.free # NULL
  BY NodeFacts, PoolFacts DEF PoolIs
<1>2. p.next \in [Node -> Node \cup {NULL}] /\ c.next \in [Node -> Node \cup {NULL}]
  BY <1>1, PoolFields
<1>3. IsList(c.next, new, L \cup {new})
  <2>1. IsList(p.next, h, L) /\ new \notin L /\ \A n \in L : c.next[n] = p.next[n]
    BY <1>1 DEF PoolIs
  <2>2. QED
    BY <1>1, <1>2, <2>1, NodeFacts, PushedList
<1>4. IsList(c.next, p.next[new], (Node \ L) \ {new})
  <2>1. IsList(p.next, new, Node \ L) /\ Node \ L \in SUBSET Node
    BY <1>1 DEF PoolIs
  <2>2. \A n \in (Node \ L) \ {new} : c.next[n] = p.next[n]
    OBVIOUS
  <2>3. QED
    BY <1>1, <1>2, <2>1, <2>2, NodeFacts, PoppedList
<1>5. (Node \ L) \ {new} = Node \ (L \cup {new})
  OBVIOUS
<1>6. new # SIZE /\ SIZE \notin L
  BY DEF PoolIs
<1>7. c.next[SIZE] = NULL
  BY <1>6, NodeFacts DEF PoolIs
<1>8. QED
  BY <1>1, <1>3, <1>4, <1>5, <1>6, <1>7 DEF PoolIs, Link

\* fly_remove and fly_free.
LEMMA PoolAfterFree ==
    ASSUME NEW p, NEW h, NEW L, PoolIs(p, h, L), BackLinks(p, h, L), NEW n \in L
    PROVE  /\ PoolIs(Freed(Removed(p, n), n), IF n = h THEN p.next[n] ELSE h, L \ {n})
           /\ BackLinks(Freed(Removed(p, n), n), IF n = h THEN p.next[n] ELSE h, L \ {n})
<1> DEFINE c == Freed(Removed(p, n), n)
           r == IF n = h THEN p.next[n] ELSE h
<1>1. /\ p \in Pool /\ L \in SUBSET Node /\ n \in Node /\ p.free \in Node \ L
      /\ NULL \notin Node /\ NULL \notin L
  BY NodeFacts, PoolFacts DEF PoolIs
<1>2. p.next \in [Node -> Node \cup {NULL}] /\ p.prev \in [Node -> Node \cup {NULL}]
  BY <1>1, PoolFields
<1>3. /\ c.next \in [Node -> Node \cup {NULL}] /\ c.prev \in [Node -> Node \cup {NULL}]
      /\ c.free = n /\ c \in Pool
      /\ c.next[n] = p.free
      /\ \A m \in Node \ {n} : c.next[m] = IF m = p.prev[n] THEN p.next[n] ELSE p.next[m]
      /\ \A m \in Node : c.prev[m] = IF m = p.next[n] THEN p.prev[n] ELSE p.prev[m]
  BY <1>1, <1>2 DEF Freed, Removed, Pool, Link
<1> HIDE DEF c
<1>4. IsList(p.next, h, L) /\ p.next[n] # n /\ p.next[n] \in L \cup {NULL} /\ h \in L
  <2>1. IsList(p.next, h, L) /\ p.next[n] \in L \cup {NULL} /\ h \in L
    BY PoolFacts, NodeFacts DEF PoolIs
  <2>2. QED
    BY <1>1, <1>2, <2>1, NoLoop
<1>5. /\ \A m \in L : p.next[m] # h /\ (p.next[m] = p.next[n] => m = n)
      /\ \A m \in L : p.next[m] # NULL => p.prev[p.next[m]] = m /\ p.next[m] \in Node
      /\ p.prev[h] = NULL /\ SIZE \notin L /\ p.next[SIZE] = NULL
  <2>1. \A m \in L : p.next[m] # h /\ (p.next[m] = p.next[n] => m = n)
    BY <1>4 DEF IsList
  <2>2. QED
    BY <1>1, <1>2, <1>4, <2>1 DEF PoolIs, BackLinks
<1> DEFINE Unlinked(first) == /\ IsList(c.next, first, L \ {n}) /\ BackLinks(c, first, L \ {n})
                              /\ c.next[SIZE] = NULL /\ \A m \in Node \ L : c.next[m] = p.next[m]
<1>6. ASSUME n = h PROVE Unlinked(p.next[n])
  <2>1. p.prev[n] = NULL
    BY <1>5, <1>6
  <2>2. \A m \in Node \ {n} : c.next[m] = p.next[m]
    BY <1>1, <1>3, <2>1
  <2>3. IsList(c.next, p.next[n], L \ {n})
    <3>1. \A m \in L \ {n} : c.next[m] = p.next[m]
      BY <1>1, <2>2
    <3>2. QED
      BY <1>1, <1>2, <1>3, <1>4, <1>6, <3>1, PoppedList
  <2>4. ASSUME NEW m \in L \ {n}, c.next[m] # NULL PROVE c.prev[c.next[m]] = m
    <3>1. c.next[m] = p.next[m] /\ p.prev[p.next[m]] = m /\ p.next[m] # p.next[n]
          /\ p.next[m] \in Node
      BY <1>1, <1>5, <2>2, <2>4
    <3>2. QED
      BY <1>3, <3>1
  <2>5. p.next[n] # NULL => c.prev[p.next[n]] = NULL
    BY <1>1, <1>3, <1>5, <2>1
  <2>6. c.next[SIZE] = NULL /\ \A m \in Node \ L : c.next[m] = p.next[m]
    BY <1>5, <2>2, NodeFacts
  <2>7. QED
    BY <2>3, <2>4, <2>5, <2>6 DEF BackLinks
<1>7. ASSUME n # h PROVE Unlinked(h)
  <2>1. PICK q \in L : q # n /\ p.next[q] = n
    BY <1>1, <1>2, <1>4, <1>7, Predecessor
  <2>2. p.prev[n] = q
    BY <1>1, <1>5, <2>1
  <2>3. /\ c.next[q] = p.next[n]
        /\ \A m \in Node \ {n, q} : c.next[m] = p.next[m]
    BY <1>1, <1>3, <2>1, <2>2
  <2>4. IsList(c.next, h, L \ {n})
    <3>1. \A m \in L \ {n, q} : c.next[m] = p.next[m]
      BY <1>1, <2>3
    <3>2. QED
      BY <1>1, <1>2, <1>3, <1>4, <2>1, <2>3, <3>1, UnlinkedList
  <2>5. ASSUME NEW m \in L \ {n}, c.next[m] # NULL PROVE c.prev[c.next[m]] = m
    <3>1. CASE m = q
      BY <1>1, <1>3, <1>4, <2>2, <2>3, <2>5, <3>1
    <3>2. CASE m # q
      <4>1. c.next[m] = p.next[m] /\ p.prev[p.next[m]] = m /\ p.next[m] # p.next[n]
            /\ p.next[m] \in Node
        BY <1>1, <1>5, <2>3, <2>5, <3>2
      <4>2. QED
        BY <1>3, <4>1
    <3>3. QED
      BY <3>1, <3>2
  <2>6. c.prev[h] = NULL
    BY <1>1, <1>3, <1>4, <1>5
  <2>7. c.next[SIZE] = NULL /\ \A m \in Node \ L : c.next[m] = p.next[m]
    BY <1>1, <1>5, <2>1, <2>3, NodeFacts
  <2>8. QED
    BY <2>4, <2>5, <2>6, <2>7 DEF BackLinks
<1>8. Unlinked(r)
  BY <1>6, <1>7
<1>9. IsList(c.next, c.free, Node \ (L \ {n}))
  <2>1. IsList(p.next, p.free, Node \ L) /\ Node \ L \in SUBSET Node /\ n \notin Node \ L
    BY <1>1 DEF PoolIs
  <2>2. IsList(c.next, n, (Node \ L) \cup {n})
    BY <1>1, <1>2, <1>3, <1>8, <2>1, PushedList
  <2>3. (Node \ L) \cup {n} = Node \ (L \ {n})
    BY <1>1
  <2>4. QED
    BY <1>3, <2>2, <2>3
<1>10. r \in Link
  BY <1>1, <1>4 DEF Link
<1>11. PoolIs(c, r, L \ {n})
  <2> HIDE DEF r
  <2>1. QED
    BY <1>1, <1>3, <1>5, <1>8, <1>9, <1>10 DEF PoolIs
<1>12. QED
  BY <1>8, <1>11 DEF c
-----------------------------------------------------------------------------
(* The inductive invariant.                                                *)

\* The list, its elements and what the main loop remembers of them.
ListInv ==
    /\ PoolIs(pool, head, Letters) /\ BackLinks(pool, head, Letters)
    /\ letter \in [Node -> Letter \cup {NULL}]
    /\ \A n \in Node : letter[n] # NULL <=> n \in Letters
    /\ it \in Letters \cup {NULL} /\ target \in Letters \cup {NULL}
    /\ target # NULL => main = "scan"
    /\ aimed \subseteq Letters
    /\ main = "release" => head # NULL

\* The main loop is never ahead of the clock.
ClockInv ==
    /\ missed \in Nat /\ left \in Nat /\ left <= missed /\ phase \in 0 .. Period - 1
    /\ main \in {"create", "release", "move"} => left > 0
    /\ main = "start" => left > 0

KeyInv ==
    /\ main \in {"boot", "hook", "wait", "cli", "compare", "again", "start", "keys", "scan",
                 "loop", "create", "release", "move", "panic"}
    /\ hooked \subseteq {TIMER_IRQ, KEYBOARD_IRQ}
    /\ letter_pressed \in [Text -> BOOLEAN]
    /\ key_code \in ScanCode \cup {NoKey} /\ scan_code_buf \in ScanCode \cup {NoKey}

\* The steps of handlers.
Ops == {"timer_event", "in_byte", "press_key", "cli", "add_irq_handle", "sti", "iret"}

\* What is left of a hardware interrupt's handler, and of a system call's.
Serving == {<<"timer_event", "iret">>, <<"in_byte", "press_key", "iret">>,
            <<"press_key", "iret">>, <<"iret">>}
Calling == {<<"cli", "add_irq_handle", "sti", "iret">>, <<"add_irq_handle", "sti", "iret">>,
            <<"sti", "iret">>, <<"iret">>}

Frame == [vector : Int, flag : {0, 1}]

OneFrame(f) == f # <<>> /\ Head(f).flag = 1 /\ Tail(f) = <<>>

\* Where the main program runs with interrupts off.
Masked == {"boot", "compare", "again", "start", "scan"}

\* Interrupts do not nest but in a system call, which only game_init makes; so
\* between interrupts the main program runs with its own IF.
StackInv ==
    /\ frames \in Seq(Frame) /\ eflags_IF \in {0, 1}
    /\ intr_no \in {IRQ_BASE + TIMER_IRQ, IRQ_BASE + KEYBOARD_IRQ, I8259_NO_INTR}
    /\ \/ /\ handler = <<>> /\ frames = <<>>
          /\ main \in Masked => eflags_IF = 0
          /\ main \notin Masked \cup {"keys"} => eflags_IF = 1
       \/ /\ handler \in Serving /\ OneFrame(frames) /\ eflags_IF = 0
          /\ main \notin Masked
       \/ main \in {"hook", "wait"} /\ handler \in Calling /\ OneFrame(frames)
       \/ /\ main \in {"hook", "wait"} /\ eflags_IF = 0
          /\ \E r \in Serving, c \in Calling : handler = r \o c
          /\ frames # <<>> /\ Head(frames).flag = 1 /\ OneFrame(Tail(frames))

Hittable(n) == letter[n].v > 0 /\ letter_pressed[letter[n].text]

\* While update_keypress searches, nothing it passed is better than its target.
ScanInv ==
    main = "scan" =>
        /\ target # NULL => Hittable(target)
        /\ \A n \in Letters \ Reached(pool.next, it) :
              Hittable(n) => target # NULL /\ letter[n].x <= letter[target].x

\* A key on its way to the table was pressed for the letters it will hit; so was
\* one in the table, but for the new letter that clear past key presses is for.
AimInv ==
    /\ \A n \in Letters : Hittable(n) => n \in aimed \/ (main = "release" /\ n = head)
    /\ intr_no = IRQ_BASE + KEYBOARD_IRQ \/ (handler # <<>> /\ Head(handler) = "in_byte")
          => \A n \in Letters : letter[n].text = scan_code_buf => n \in aimed
    /\ handler # <<>> /\ Head(handler) = "press_key"
          => \A n \in Letters : letter[n].text = key_code => n \in aimed

GameInv == ListInv /\ ClockInv /\ KeyInv /\ StackInv /\ ScanInv /\ AimInv

-----------------------------------------------------------------------------
(* Each step preserves it.                                                 *)

LEMMA ClockStep ==
    ASSUME GameInv, [Next]_vars
    PROVE  ClockInv'
<1>1. CASE Boot
  BY <1>1 DEF Boot, Executes, GameInv, ClockInv, game_vars, clock_vars
<1>2. CASE game_init
  BY <1>2 DEF game_init, GameInv, ClockInv, game_vars, clock_vars
<1>3. CASE wait_intr \/ cli
  BY <1>3 DEF wait_intr, cli, Executes, GameInv, ClockInv, game_vars, clock_vars
<1>4. CASE compare
  BY <1>4 DEF compare, Executes, GameInv, ClockInv
<1>5. CASE sti
  BY <1>5 DEF sti, Executes, GameInv, ClockInv, game_vars, clock_vars
<1>6. CASE update_keypress \/ scan \/ hit
  BY <1>6 DEF update_keypress, scan, hit, Executes, GameInv, ClockInv, clock_vars
<1>7. CASE no_hit
  BY <1>7 DEF no_hit, Executes, GameInv, ClockInv, game_vars, clock_vars
<1>8. CASE loop
  BY <1>8 DEF loop, NoTickLeft, Executes, GameInv, ClockInv, clock_vars
<1>9. CASE create_new_letter
  BY <1>9 DEF create_new_letter, Executes, GameInv, ClockInv, clock_vars
<1>10. CASE release_key \/ update_letter_pos
  BY <1>10 DEF release_key, update_letter_pos, Executes, GameInv, ClockInv, clock_vars
<1>11. CASE advance
  <2>1. Period \in Nat \ {0} /\ phase \in Nat
    BY TypingAssumption DEF GameInv, ClockInv
  <2>2. ((phase + 1) % Period) \in 0 .. Period - 1
    BY <2>1
  <2>3. QED
    BY <1>11, <2>2 DEF advance, Executes, GameInv, ClockInv
<1>12. CASE Handle
  BY <1>12 DEF Handle, GameInv, ClockInv
<1>13. CASE Dispatch
  BY <1>13 DEF Dispatch, GameInv, ClockInv, game_vars, clock_vars
<1>14. CASE ClockTicks
  BY <1>14 DEF ClockTicks, GameInv, ClockInv, game_vars, clock_vars
<1>15. CASE \E c \in ScanCode : KeyEvent(c)
  BY <1>15 DEF KeyEvent, GameInv, ClockInv, game_vars, clock_vars
<1>16. CASE UNCHANGED vars
  BY <1>16 DEF vars, GameInv, ClockInv, game_vars, clock_vars
<1>17. QED
  BY <1>1, <1>2, <1>3, <1>4, <1>5, <1>6, <1>7, <1>8, <1>9, <1>10, <1>11, <1>12, <1>13,
     <1>14, <1>15, <1>16 DEF Next, Main

LEMMA KeyStep ==
    ASSUME GameInv, [Next]_vars
    PROVE  KeyInv'
<1> USE DEF GameInv, KeyInv
<1>1. CASE Boot
  BY <1>1 DEF Boot, Executes, Sti, game_vars, key_vars
<1>2. CASE game_init
  BY <1>2 DEF game_init, Int80, game_vars, key_vars
<1>3. CASE wait_intr \/ cli
  BY <1>3 DEF wait_intr, cli, Executes, Hlt, Cli, game_vars, key_vars
<1>4. CASE compare
  BY <1>4 DEF compare, Executes, Plain, machine_vars, key_vars
<1>5. CASE sti
  BY <1>5 DEF sti, Executes, Sti, game_vars, key_vars
<1>6. CASE update_keypress \/ scan
  BY <1>6 DEF update_keypress, scan, Executes, Plain, Cli, machine_vars, key_vars
<1>7. CASE hit \/ no_hit
  BY <1>7 DEF hit, no_hit, Executes, Plain, Sti, machine_vars, game_vars, key_vars
<1>8. CASE loop
  BY <1>8 DEF loop, Executes, Plain, machine_vars, key_vars
<1>9. CASE create_new_letter
  BY <1>9 DEF create_new_letter, Executes, Plain, machine_vars, key_vars
<1>10. CASE release_key \/ update_letter_pos \/ advance
  BY <1>10 DEF release_key, update_letter_pos, advance, Executes, Plain, machine_vars, key_vars
<1>11. CASE Handle
  <2>1. scan_code_buf' = scan_code_buf
    BY <1>11 DEF Handle, Step, Cli, Sti, Iret, Plain, machine_vars
  <2>2. letter_pressed' \in [Text -> BOOLEAN]
    BY <1>11 DEF Handle
  <2>3. QED
    BY <1>11, <2>1, <2>2 DEF Handle
<1>12. CASE Dispatch
  BY <1>12 DEF Dispatch, Interrupt, game_vars, key_vars
<1>13. CASE ClockTicks
  BY <1>13 DEF ClockTicks, Tick, game_vars, key_vars
<1>14. CASE \E c \in ScanCode : KeyEvent(c)
  BY <1>14 DEF KeyEvent, Key, game_vars, key_vars
<1>15. CASE UNCHANGED vars
  BY <1>15 DEF vars, machine_vars, game_vars, key_vars
<1>16. QED
  BY <1>1, <1>2, <1>3, <1>4, <1>5, <1>6, <1>7, <1>8, <1>9, <1>10, <1>11, <1>12, <1>13,
     <1>14, <1>15 DEF Next, Main

\* The first step of a hardware interrupt's handler and what it leaves.
LEMMA ServingOps ==
    ASSUME NEW r \in Serving
    PROVE  /\ r \in Seq(Ops) /\ r # <<>>
           /\ Head(r) \in {"timer_event", "in_byte", "press_key", "iret"}
           /\ Head(r) = "iret" => Tail(r) = <<>>
           /\ Head(r) = "in_byte" => Head(Tail(r)) = "press_key"
           /\ Head(r) \in {"timer_event", "press_key"} => Tail(r) = <<"iret">>
           /\ Head(r) # "iret" => Tail(r) \in Serving /\ Head(Tail(r)) # "in_byte"
<1>1. Tail(<<"timer_event", "iret">>) = <<"iret">> /\ Tail(<<"iret">>) = <<>>
      /\ Tail(<<"in_byte", "press_key", "iret">>) = <<"press_key", "iret">>
      /\ Tail(<<"press_key", "iret">>) = <<"iret">>
  OBVIOUS
<1>2. CASE r = <<"timer_event", "iret">>
  <2>1. Head(r) = "timer_event" /\ r # <<>> /\ r \in Seq(Ops) /\ Head(<<"iret">>) = "iret"
    BY <1>2 DEF Ops
  <2>2. Tail(r) = <<"iret">>
    BY <1>1, <1>2, Zenon
  <2>3. QED
    BY <2>1, <2>2 DEF Serving
<1>3. CASE r = <<"in_byte", "press_key", "iret">>
  <2>1. /\ Head(r) = "in_byte" /\ r # <<>> /\ r \in Seq(Ops)
        /\ Head(<<"press_key", "iret">>) = "press_key"
    BY <1>3 DEF Ops
  <2>2. Tail(r) = <<"press_key", "iret">>
    BY <1>1, <1>3, Zenon
  <2>3. QED
    BY <2>1, <2>2 DEF Serving
<1>4. CASE r = <<"press_key", "iret">>
  <2>1. Head(r) = "press_key" /\ r # <<>> /\ r \in Seq(Ops) /\ Head(<<"iret">>) = "iret"
    BY <1>4 DEF Ops
  <2>2. Tail(r) = <<"iret">>
    BY <1>1, <1>4, Zenon
  <2>3. QED
    BY <2>1, <2>2 DEF Serving
<1>5. CASE r = <<"iret">>
  <2>1. Head(r) = "iret" /\ r # <<>> /\ r \in Seq(Ops)
    BY <1>5 DEF Ops
  <2>2. Tail(r) = <<>>
    BY <1>1, <1>5, Zenon
  <2>3. QED
    BY <2>1, <2>2
<1>6. QED
  BY <1>2, <1>3, <1>4, <1>5 DEF Serving

\* The same of the system call's.
LEMMA CallingOps ==
    ASSUME NEW c \in Calling
    PROVE  /\ c \in Seq(Ops) /\ c # <<>>
           /\ Head(c) \in {"cli", "add_irq_handle", "sti", "iret"}
           /\ Head(c) = "iret" => Tail(c) = <<>>
           /\ Head(c) # "iret" => Tail(c) \in Calling
<1>1. /\ Tail(<<"cli", "add_irq_handle", "sti", "iret">>) = <<"add_irq_handle", "sti", "iret">>
      /\ Tail(<<"add_irq_handle", "sti", "iret">>) = <<"sti", "iret">>
      /\ Tail(<<"sti", "iret">>) = <<"iret">> /\ Tail(<<"iret">>) = <<>>
  OBVIOUS
<1>2. CASE c = <<"cli", "add_irq_handle", "sti", "iret">>
  <2>1. Head(c) = "cli" /\ c # <<>> /\ c \in Seq(Ops)
    BY <1>2 DEF Ops
  <2>2. Tail(c) = <<"add_irq_handle", "sti", "iret">>
    BY <1>1, <1>2, Zenon
  <2>3. QED
    BY <2>1, <2>2 DEF Calling
<1>3. CASE c = <<"add_irq_handle", "sti", "iret">>
  <2>1. Head(c) = "add_irq_handle" /\ c # <<>> /\ c \in Seq(Ops)
    BY <1>3 DEF Ops
  <2>2. Tail(c) = <<"sti", "iret">>
    BY <1>1, <1>3, Zenon
  <2>3. QED
    BY <2>1, <2>2 DEF Calling
<1>4. CASE c = <<"sti", "iret">>
  <2>1. Head(c) = "sti" /\ c # <<>> /\ c \in Seq(Ops)
    BY <1>4 DEF Ops
  <2>2. Tail(c) = <<"iret">>
    BY <1>1, <1>4, Zenon
  <2>3. QED
    BY <2>1, <2>2 DEF Calling
<1>5. CASE c = <<"iret">>
  <2>1. Head(c) = "iret" /\ c # <<>> /\ c \in Seq(Ops)
    BY <1>5 DEF Ops
  <2>2. Tail(c) = <<>>
    BY <1>1, <1>5, Zenon
  <2>3. QED
    BY <2>1, <2>2
<1>6. QED
  BY <1>2, <1>3, <1>4, <1>5 DEF Calling

\* An interrupt in the middle of a system call.
LEMMA NestedOps ==
    ASSUME NEW r \in Serving, NEW c \in Calling
    PROVE  /\ r \o c # <<>> /\ Head(r \o c) = Head(r)
           /\ Tail(r \o c) = Tail(r) \o c
           /\ <<>> \o c = c /\ r \o <<>> = r
<1>1. r \in Seq(Ops) /\ c \in Seq(Ops) /\ r # <<>>
  BY ServingOps, CallingOps
<1>2. QED
  BY <1>1

\* What the handlers of the two lines are.
LEMMA IrqHandlerServes ==
    ASSUME NEW v
    PROVE  /\ IrqHandler(v) \in Serving
           /\ Head(IrqHandler(v)) = "in_byte" => v = IRQ_BASE + KEYBOARD_IRQ
           /\ Head(IrqHandler(v)) # "press_key"
<1>1. /\ Head(<<"timer_event", "iret">>) = "timer_event" /\ Head(<<"iret">>) = "iret"
      /\ Head(<<"in_byte", "press_key", "iret">>) = "in_byte"
  OBVIOUS
<1>2. CASE v = IRQ_BASE + TIMER_IRQ /\ TIMER_IRQ \in hooked
  <2>1. IrqHandler(v) = <<"timer_event", "iret">>
    BY <1>2 DEF IrqHandler
  <2>2. QED
    BY <2>1, <1>1, ServingOps DEF Serving
<1>3. CASE ~(v = IRQ_BASE + TIMER_IRQ /\ TIMER_IRQ \in hooked)
           /\ v = IRQ_BASE + KEYBOARD_IRQ /\ KEYBOARD_IRQ \in hooked
  <2>1. IrqHandler(v) = <<"in_byte", "press_key", "iret">>
    BY <1>3, Zenon DEF IrqHandler
  <2>2. QED
    BY <2>1, <1>1, <1>3, ServingOps DEF Serving
<1>4. CASE ~(v = IRQ_BASE + TIMER_IRQ /\ TIMER_IRQ \in hooked)
           /\ ~(v = IRQ_BASE + KEYBOARD_IRQ /\ KEYBOARD_IRQ \in hooked)
  <2>1. IrqHandler(v) = <<"iret">>
    BY <1>4, Zenon DEF IrqHandler
  <2>2. QED
    BY <2>1, <1>1, ServingOps DEF Serving
<1>5. QED
  BY <1>2, <1>3, <1>4, Zenon

\* Exception frames as a stack.
LEMMA PushedFrame ==
    ASSUME NEW f \in Seq(Frame), NEW e \in Frame
    PROVE  /\ <<e>> \o f \in Seq(Frame) /\ <<e>> \o f # <<>>
           /\ Head(<<e>> \o f) = e /\ Tail(<<e>> \o f) = f
OBVIOUS

LEMMA HardwareVectors ==
    /\ IRQ_BASE + TIMER_IRQ \in InterruptGate /\ IRQ_BASE + KEYBOARD_IRQ \in InterruptGate
    /\ IRQ_BASE + TIMER_IRQ = 32 /\ IRQ_BASE + KEYBOARD_IRQ = 33 /\ I8259_NO_INTR = 255
BY TypingAssumption DEF IRQ_BASE, TIMER_IRQ, KEYBOARD_IRQ, I8259_NO_INTR

\* The main program runs on an empty stack, with its own IF.
LEMMA MainRuns ==
    ASSUME GameInv, handler = <<>>
    PROVE  /\ frames = <<>> /\ frames \in Seq(Frame) /\ eflags_IF \in {0, 1}
           /\ intr_no \in {IRQ_BASE + TIMER_IRQ, IRQ_BASE + KEYBOARD_IRQ, I8259_NO_INTR}
           /\ main \in Masked => eflags_IF = 0
           /\ main \notin Masked \cup {"keys"} => eflags_IF = 1
BY ServingOps, CallingOps, NestedOps DEF GameInv, StackInv

LEMMA MainStack ==
    ASSUME GameInv, Main
    PROVE  StackInv'
<1>1. handler = <<>>
  BY DEF Main, Boot, game_init, wait_intr, cli, compare, sti, update_keypress, scan, hit, no_hit,
         loop, create_new_letter, release_key, update_letter_pos, advance, Executes
<1> DEFINE Idle == /\ handler = <<>> /\ frames = <<>>
                   /\ main \in Masked => eflags_IF = 0
                   /\ main \notin Masked \cup {"keys"} => eflags_IF = 1
<1>2. /\ frames = <<>> /\ frames \in Seq(Frame) /\ eflags_IF \in {0, 1}
      /\ intr_no \in {IRQ_BASE + TIMER_IRQ, IRQ_BASE + KEYBOARD_IRQ, I8259_NO_INTR}
      /\ main \in Masked => eflags_IF = 0
      /\ main \notin Masked \cup {"keys"} => eflags_IF = 1
  BY <1>1, MainRuns
<1>3. SUFFICES ASSUME ~game_init
               PROVE  Idle' /\ UNCHANGED <<frames, intr_no>> /\ eflags_IF' \in {0, 1}
  <2>1. ASSUME game_init PROVE StackInv'
    <3> DEFINE e == [vector |-> SYSCALL, flag |-> eflags_IF]
    <3>1. eflags_IF = 1 /\ main' \in {"hook", "wait"}
      BY <1>2, <2>1 DEF game_init, Masked
    <3>2. e \in Frame /\ e.flag = 1
      BY <3>1 DEF Frame, SYSCALL
    <3>3. frames' = <<e>> \o frames /\ eflags_IF' \in {0, 1} /\ intr_no' = intr_no
      BY <1>2, <2>1 DEF game_init, Int80, Enter
    <3> HIDE DEF e
    <3>4. frames' \in Seq(Frame) /\ OneFrame(frames')
      BY <1>2, <3>2, <3>3, PushedFrame DEF OneFrame
    <3>5. handler' \in Calling
      BY <2>1 DEF game_init, Calling
    <3>6. QED
      BY <1>2, <3>1, <3>3, <3>4, <3>5 DEF StackInv
  <2>2. QED
    BY <1>2, <2>1 DEF StackInv
<1>4. CASE Boot
  BY <1>2, <1>4 DEF Boot, Executes, Sti, Masked
<1>5. CASE wait_intr
  BY <1>2, <1>5 DEF wait_intr, Executes, Hlt, Masked
<1>6. CASE cli
  BY <1>2, <1>6 DEF cli, Executes, Cli, Masked
<1>7. CASE compare
  BY <1>2, <1>7 DEF compare, Executes, Plain, machine_vars, Masked, GameInv, ClockInv
<1>8. CASE sti
  BY <1>2, <1>8 DEF sti, Executes, Sti, Masked
<1>9. CASE update_keypress
  BY <1>2, <1>9 DEF update_keypress, Executes, Cli, Masked
<1>10. CASE scan \/ hit
  BY <1>2, <1>10 DEF scan, hit, Executes, Plain, machine_vars, Masked
<1>11. CASE no_hit
  BY <1>2, <1>11 DEF no_hit, Executes, Sti, Masked
<1>12. CASE loop
  BY <1>2, <1>12 DEF loop, Executes, Plain, machine_vars, Masked
<1>13. CASE create_new_letter
  BY <1>2, <1>13 DEF create_new_letter, Executes, Plain, machine_vars, Masked
<1>14. CASE release_key \/ update_letter_pos \/ advance
  BY <1>2, <1>14 DEF release_key, update_letter_pos, advance, Executes, Plain, machine_vars, Masked
<1>15. QED
  BY <1>3, <1>4, <1>5, <1>6, <1>7, <1>8, <1>9, <1>10, <1>11, <1>12, <1>13, <1>14 DEF Main

LEMMA DispatchStack ==
    ASSUME GameInv, Dispatch
    PROVE  StackInv'
<1> DEFINE e == [vector |-> intr_no, flag |-> eflags_IF]
           r == IrqHandler(intr_no)
<1>1. /\ eflags_IF = 1 /\ main' = main
      /\ intr_no \in {IRQ_BASE + TIMER_IRQ, IRQ_BASE + KEYBOARD_IRQ} /\ intr_no' = I8259_NO_INTR
      /\ handler' = r \o handler /\ frames' = <<e>> \o frames /\ frames \in Seq(Frame)
  BY DEF Dispatch, Interrupt, Accepts, Enter, GameInv, StackInv
<1>2. eflags_IF' = 0
  BY <1>1, HardwareVectors DEF Dispatch, Interrupt, Enter
<1>3. e \in Frame /\ e.flag = 1
  BY <1>1, HardwareVectors DEF Frame
<1>4. r \in Serving
  BY IrqHandlerServes
<1> HIDE DEF e, r
<1>5. frames' \in Seq(Frame) /\ frames' # <<>> /\ Head(frames').flag = 1 /\ Tail(frames') = frames
  BY <1>1, <1>3, PushedFrame
<1>6. CASE handler = <<>> /\ frames = <<>> /\ main \notin Masked
  <2>1. handler' = r
    BY <1>1, <1>4, <1>6, ServingOps
  <2>2. QED
    BY <1>1, <1>2, <1>4, <1>5, <1>6, <2>1 DEF StackInv, OneFrame
<1>7. CASE main \in {"hook", "wait"} /\ handler \in Calling /\ OneFrame(frames)
  BY <1>1, <1>2, <1>4, <1>5, <1>7 DEF StackInv
<1>8. \/ handler = <<>> /\ frames = <<>> /\ main \notin Masked
      \/ main \in {"hook", "wait"} /\ handler \in Calling /\ OneFrame(frames)
  BY <1>1 DEF GameInv, StackInv
<1>9. QED
  BY <1>6, <1>7, <1>8

LEMMA HandleStack ==
    ASSUME GameInv, Handle
    PROVE  StackInv'
<1>1. /\ handler # <<>> /\ handler' = Tail(handler) /\ Step(Head(handler))
      /\ main' = main /\ frames \in Seq(Frame) /\ eflags_IF \in {0, 1}
      /\ intr_no \in {IRQ_BASE + TIMER_IRQ, IRQ_BASE + KEYBOARD_IRQ, I8259_NO_INTR}
  BY DEF Handle, GameInv, StackInv
<1>2. intr_no' = intr_no
  BY <1>1 DEF Step, Cli, Sti, Iret, Plain, machine_vars
<1>3. ASSUME Head(handler) = "iret"
      PROVE  frames # <<>> /\ frames' = Tail(frames) /\ eflags_IF' = Head(frames).flag
  BY <1>1, <1>3 DEF Step, Iret
<1>4. ASSUME Head(handler) # "iret" PROVE frames' = frames /\ eflags_IF' \in {0, 1}
  BY <1>1, <1>4 DEF Step, Cli, Sti, Plain, machine_vars
<1>5. ASSUME Head(handler) \notin {"cli", "sti", "iret"} PROVE eflags_IF' = eflags_IF
  BY <1>1, <1>5 DEF Step, Plain, machine_vars
<1>6. CASE handler \in Serving /\ OneFrame(frames) /\ eflags_IF = 0 /\ main \notin Masked
  <2>1. CASE Head(handler) = "iret"
    <3>1. handler' = <<>> /\ frames' = <<>> /\ eflags_IF' = 1
      BY <1>1, <1>3, <1>6, <2>1, ServingOps DEF OneFrame
    <3>2. frames' \in Seq(Frame)
      BY <3>1
    <3>3. QED
      BY <1>1, <1>2, <1>6, <3>1, <3>2 DEF StackInv
  <2>2. CASE Head(handler) # "iret"
    <3>1. handler' \in Serving /\ Head(handler) \notin {"cli", "sti", "iret"}
      BY <1>1, <1>6, <2>2, ServingOps
    <3>2. QED
      BY <1>1, <1>2, <1>4, <1>5, <1>6, <3>1 DEF StackInv
  <2>3. QED
    BY <2>1, <2>2
<1>7. CASE main \in {"hook", "wait"} /\ handler \in Calling /\ OneFrame(frames)
  <2>1. CASE Head(handler) = "iret"
    <3>1. handler' = <<>> /\ frames' = <<>> /\ eflags_IF' = 1
      BY <1>1, <1>3, <1>7, <2>1, CallingOps DEF OneFrame
    <3>2. frames' \in Seq(Frame)
      BY <3>1
    <3>3. main \notin Masked
      BY <1>7 DEF Masked
    <3>4. QED
      BY <1>1, <1>2, <1>7, <3>1, <3>2, <3>3 DEF StackInv
  <2>2. CASE Head(handler) # "iret"
    <3>1. handler' \in Calling
      BY <1>1, <1>7, <2>2, CallingOps
    <3>2. QED
      BY <1>1, <1>2, <1>4, <1>7, <2>2, <3>1 DEF StackInv
  <2>3. QED
    BY <2>1, <2>2
<1>8. CASE /\ main \in {"hook", "wait"} /\ eflags_IF = 0
           /\ \E r \in Serving, c \in Calling : handler = r \o c
           /\ frames # <<>> /\ Head(frames).flag = 1 /\ OneFrame(Tail(frames))
  <2>1. PICK r \in Serving, c \in Calling : handler = r \o c
    BY <1>8
  <2>2. Head(handler) = Head(r) /\ handler' = Tail(r) \o c
    BY <1>1, <2>1, NestedOps
  <2>3. CASE Head(r) = "iret"
    <3>1. handler' = c
      BY <2>2, <2>3, ServingOps, NestedOps
    <3>2. OneFrame(frames') /\ eflags_IF' = 1
      BY <1>3, <1>8, <2>2, <2>3
    <3>3. frames' \in Seq(Frame)
      <4>1. frames # <<>> /\ frames' = Tail(frames)
        BY <1>3, <2>2, <2>3
      <4>2. QED
        BY <1>1, <4>1
    <3>4. QED
      BY <1>1, <1>2, <1>8, <3>1, <3>2, <3>3 DEF StackInv
  <2>4. CASE Head(r) # "iret"
    <3>1. Tail(r) \in Serving /\ Head(r) \notin {"cli", "sti", "iret"}
      BY <2>4, ServingOps
    <3>2. frames' = frames /\ eflags_IF' = 0
      BY <1>4, <1>5, <1>8, <2>2, <3>1
    <3>3. QED
      BY <1>1, <1>2, <1>8, <2>2, <3>1, <3>2 DEF StackInv
  <2>5. QED
    BY <2>3, <2>4
<1>9. QED
  BY <1>1, <1>6, <1>7, <1>8 DEF GameInv, StackInv

LEMMA StackStep ==
    ASSUME GameInv, [Next]_vars
    PROVE  StackInv'
<1>1. CASE ClockTicks
  <2>1. UNCHANGED <<eflags_IF, frames, main, handler>>
        /\ intr_no' \in {intr_no, IRQ_BASE + TIMER_IRQ}
    BY <1>1 DEF ClockTicks, Tick, Prioritised, IRQ_BASE, TIMER_IRQ
  <2>2. QED
    BY <2>1 DEF GameInv, StackInv
<1>2. CASE \E c \in ScanCode : KeyEvent(c)
  <2>1. UNCHANGED <<eflags_IF, frames, main, handler>>
        /\ intr_no' \in {intr_no, IRQ_BASE + KEYBOARD_IRQ}
    BY <1>2 DEF KeyEvent, Key, Prioritised, IRQ_BASE, KEYBOARD_IRQ
  <2>2. QED
    BY <2>1 DEF GameInv, StackInv
<1>3. CASE UNCHANGED vars
  BY <1>3 DEF vars, machine_vars, GameInv, StackInv
<1>4. QED
  BY <1>1, <1>2, <1>3, MainStack, DispatchStack, HandleStack DEF Next

-----------------------------------------------------------------------------
(* The list of letters.                                                    *)

LEMMA LetterFacts ==
    ASSUME GameInv
    PROVE  /\ Letters \in SUBSET Node /\ NULL \notin Letters /\ NULL \notin Letter
           /\ pool \in Pool
           /\ \A n \in Letters : letter[n] \in Letter /\ pool.next[n] \in Letters \cup {NULL}
           /\ head \in Letters \cup {NULL}
           /\ \A n \in Letters : letter[n].x \in Int /\ letter[n].v \in {Fall, -Rise}
                                  /\ letter[n].text \in Text
           /\ Fall > 0 /\ -Rise < 0 /\ Fall \in Int /\ Rise \in Int
<1>1. PoolIs(pool, head, Letters) /\ letter \in [Node -> Letter \cup {NULL}]
      /\ \A n \in Node : letter[n] # NULL <=> n \in Letters
  BY DEF GameInv, ListInv
<1>2. Letters \in SUBSET Node /\ pool \in Pool
  BY <1>1 DEF PoolIs
<1>3. \A n \in Letters : letter[n] \in Letter
  BY <1>1, <1>2
<1>4. \A n \in Letters : pool.next[n] \in Letters \cup {NULL}
  BY <1>1, PoolFacts
<1>5. head \in Letters \cup {NULL}
  BY <1>1, PoolFacts
<1>6. \A l \in Letter : l.x \in Int /\ l.v \in {Fall, -Rise} /\ l.text \in Text
  BY DEF Letter
<1>7. \A n \in Letters : /\ letter[n].x \in Int /\ letter[n].v \in {Fall, -Rise}
                         /\ letter[n].text \in Text
  BY <1>3, <1>6
<1>8. NULL \notin Letters /\ NULL \notin Letter
  BY <1>2, NodeFacts, TypingAssumption
<1>9. Fall > 0 /\ -Rise < 0 /\ Fall \in Int /\ Rise \in Int
  BY TypingAssumption
<1>10. QED
  BY <1>2, <1>3, <1>4, <1>5, <1>7, <1>8, <1>9

\* What a step leaves of the list when it changes neither links nor letters.
LEMMA SameLetters ==
    ASSUME GameInv, UNCHANGED list_vars,
           it' \in Letters \cup {NULL}, target' \in Letters \cup {NULL},
           target' # NULL => main' = "scan",
           aimed' \subseteq Letters,
           main' = "release" => main = "release"
    PROVE  ListInv' /\ Letters' = Letters
<1>1. pool' = pool /\ head' = head /\ letter' = letter
  BY DEF list_vars
<1>2. Letters' = Letters
  BY <1>1 DEF Letters
<1>3. PoolIs(pool', head', Letters') /\ BackLinks(pool', head', Letters')
  BY <1>1, <1>2 DEF GameInv, ListInv
<1>4. QED
  BY <1>1, <1>2, <1>3 DEF GameInv, ListInv

LEMMA HitList ==
    ASSUME GameInv, hit
    PROVE  /\ ListInv' /\ Letters' = Letters /\ target \in Letters
           /\ letter'[target].x = letter[target].x /\ letter'[target].v = -Rise
           /\ letter'[target].text = letter[target].text
           /\ \A n \in Letters \ {target} : letter'[n] = letter[n]
<1>1. /\ pool' = pool /\ head' = head /\ aimed' = aimed /\ it' = it /\ target' = NULL
      /\ letter' = [letter EXCEPT ![target].v = -Rise] /\ main' = "keys"
      /\ target \in Letters
  BY DEF hit, Executes, GameInv, ListInv
<1>2. Letters' = Letters
  BY <1>1 DEF Letters
<1>3. PoolIs(pool', head', Letters') /\ BackLinks(pool', head', Letters')
  BY <1>1, <1>2 DEF GameInv, ListInv
<1>4. letter[target] \in Letter /\ target \in Node
  BY <1>1, LetterFacts
<1>5. letter \in [Node -> Letter \cup {NULL}]
  BY DEF GameInv, ListInv
<1>6. /\ letter' = [n \in Node |-> IF n = target THEN letter'[target] ELSE letter[n]]
      /\ letter'[target] = [letter[target] EXCEPT !.v = -Rise]
  BY <1>1, <1>4, <1>5
<1>7. /\ letter'[target] \in Letter /\ letter'[target].x = letter[target].x
      /\ letter'[target].v = -Rise /\ letter'[target].text = letter[target].text
  BY <1>4, <1>6 DEF Letter
<1>8. letter' \in [Node -> Letter \cup {NULL}]
  BY <1>5, <1>6, <1>7
<1>9. \A n \in Node : letter'[n] # NULL <=> n \in Letters
  BY <1>1, <1>6, <1>7, LetterFacts DEF GameInv, ListInv
<1>10. it' \in Letters' \cup {NULL} /\ aimed' \subseteq Letters'
  BY <1>1, <1>2 DEF GameInv, ListInv
<1>11. ListInv'
  BY <1>1, <1>2, <1>3, <1>8, <1>9, <1>10 DEF ListInv
<1>12. QED
  BY <1>1, <1>2, <1>6, <1>7, <1>11, LetterFacts

LEMMA CreateList ==
    ASSUME GameInv, create_new_letter
    PROVE  /\ ListInv'
           /\ main' = "panic" => UNCHANGED list_vars /\ Letters' = Letters
           /\ main' # "panic" =>
                /\ head' \notin Letters /\ Letters' = Letters \cup {head'}
                /\ \A n \in Letters : letter'[n] = letter[n]
<1>1. main = "create" /\ target' = target /\ target = NULL /\ it' = it /\ aimed' = aimed
      /\ it \in Letters \cup {NULL} /\ aimed \subseteq Letters
  BY DEF create_new_letter, Executes, GameInv, ListInv
<1>2. CASE Exhausted(pool)
  <2>1. main' = "panic" /\ UNCHANGED list_vars
    BY <1>2 DEF create_new_letter
  <2>2. QED
    BY <1>1, <2>1, SameLetters
<1>3. CASE ~Exhausted(pool)
  <2> DEFINE p == Strung(pool)
             new == New(pool)
  <2>1. /\ main' = "release" /\ head' = new
        /\ pool' = IF head = NULL THEN AfterNew(pool) ELSE InsertedBefore(AfterNew(pool), head, new)
        /\ \E t \in Text : letter' = [letter EXCEPT ![new] = [x |-> 0, v |-> Fall, text |-> t]]
    BY <1>3 DEF create_new_letter
  <2>2. /\ PoolIs(p, head, Letters) /\ p.free \in Node \ Letters /\ p.prev = pool.prev
        /\ \A n \in Letters : p.next[n] = pool.next[n]
    BY StrungPool DEF GameInv, ListInv
  <2>3. new = p.free /\ new \in Node /\ new \notin Letters /\ p.next[new] # NULL /\ p \in Pool
    BY <1>3, <2>2 DEF New, Exhausted, PoolIs
  <2>4. /\ p.next \in [Node -> Node \cup {NULL}] /\ p.prev \in [Node -> Node \cup {NULL}]
        /\ head \in Letters \cup {NULL} /\ Letters \in SUBSET Node /\ NULL \notin Node
    BY <2>3, PoolFields, LetterFacts, NodeFacts
  <2>5. AfterNew(pool) = [p EXCEPT !.free = p.next[new], !.next[new] = NULL, !.prev[new] = NULL]
    BY DEF AfterNew
  <2> HIDE DEF p, new
  <2> DEFINE a == AfterNew(pool)
  <2>6. /\ a \in Pool /\ a.free = p.next[new] /\ a.next[new] = NULL /\ a.prev[new] = NULL
        /\ \A n \in Node \ {new} : a.next[n] = p.next[n] /\ a.prev[n] = p.prev[n]
    <3>1. p.next[new] \in Link /\ NULL \in Link
      BY <2>3, <2>4 DEF Link
    <3>2. /\ a.free = p.next[new] /\ a.next = [p.next EXCEPT ![new] = NULL]
          /\ a.prev = [p.prev EXCEPT ![new] = NULL]
      BY <2>3, <2>5 DEF Pool
    <3>3. a.next \in [Node -> Link] /\ a.prev \in [Node -> Link]
      <4>1. p.next \in [Node -> Link] /\ p.prev \in [Node -> Link]
        BY <2>3 DEF Pool
      <4>2. QED
        BY <3>1, <3>2, <4>1
    <3>4. a = [prev |-> a.prev, next |-> a.next, free |-> a.free]
      BY <2>3, <2>5 DEF Pool
    <3>5. a \in Pool
      BY <3>1, <3>2, <3>3, <3>4 DEF Pool
    <3>6. QED
      BY <2>3, <2>4, <3>2, <3>5
  <2> HIDE DEF a
  <2>7. /\ a.next \in [Node -> Node \cup {NULL}] /\ a.prev \in [Node -> Node \cup {NULL}]
    BY <2>6, PoolFields
  <2>8. /\ pool' \in Pool /\ pool'.free = p.next[new] /\ pool'.next[new] = head
        /\ \A n \in Node \ {new} : pool'.next[n] = p.next[n]
        /\ pool'.prev[new] = NULL
        /\ head # NULL => pool'.prev[head] = new
        /\ \A n \in Node \ {new, head} : pool'.prev[n] = p.prev[n]
    <3>1. CASE head = NULL
      <4>1. pool' = a
        BY <2>1, <3>1 DEF a
      <4>2. QED
        BY <2>6, <3>1, <4>1
    <3>2. CASE head # NULL
      <4>1. pool' = [a EXCEPT !.prev = [a.prev EXCEPT ![new] = NULL, ![head] = new],
                              !.next[new] = head]
        BY <2>1, <3>2 DEF a, InsertedBefore
      <4>2. head \in Node /\ head # new
        BY <2>3, <2>4, <3>2
      <4>3. QED
        BY <2>3, <2>6, <2>7, <4>1, <4>2 DEF Pool, Link
    <3>3. QED
      BY <3>1, <3>2
  <2>9. PoolIs(pool', new, Letters \cup {new})
    BY <2>2, <2>3, <2>8, PoolAfterNew
  <2>10. Letters' = Letters \cup {new}
    <3>1. Reached(pool'.next, new) = Letters \cup {new}
      BY <2>9, PoolFacts
    <3>2. QED
      BY <2>1, <3>1 DEF Letters
  <2>11. BackLinks(pool', new, Letters \cup {new})
    <3>1. ASSUME NEW n \in Letters, pool'.next[n] # NULL PROVE pool'.prev[pool'.next[n]] = n
      <4>1. pool'.next[n] = pool.next[n] /\ pool.next[n] \in Letters \cup {NULL}
        BY <2>2, <2>3, <2>4, <2>8, LetterFacts
      <4>2. pool.prev[pool.next[n]] = n /\ pool.next[n] # head
        <5>1. IsList(pool.next, head, Letters) /\ BackLinks(pool, head, Letters)
          BY DEF GameInv, ListInv, PoolIs
        <5>2. QED
          BY <3>1, <4>1, <5>1 DEF BackLinks, IsList
      <4>3. QED
        BY <2>2, <2>3, <2>4, <2>8, <3>1, <4>1, <4>2
    <3>2. QED
      BY <2>8, <3>1 DEF BackLinks
  <2>12. PICK t \in Text : letter' = [letter EXCEPT ![new] = [x |-> 0, v |-> Fall, text |-> t]]
    BY <2>1
  <2>13. letter \in [Node -> Letter \cup {NULL}] /\ \A n \in Node : letter[n] # NULL <=> n \in Letters
    BY DEF GameInv, ListInv
  <2>14. [x |-> 0, v |-> Fall, text |-> t] \in Letter
    BY DEF Letter
  <2>15. /\ letter' \in [Node -> Letter \cup {NULL}] /\ letter'[new] # NULL
         /\ \A n \in Node \ {new} : letter'[n] = letter[n]
    BY <2>3, <2>12, <2>13, <2>14, TypingAssumption
  <2>16. ListInv'
    <3>1. \A n \in Node : letter'[n] # NULL <=> n \in Letters'
      BY <2>3, <2>10, <2>13, <2>15
    <3>2. PoolIs(pool', head', Letters') /\ BackLinks(pool', head', Letters')
      BY <2>1, <2>9, <2>10, <2>11
    <3>3. head' # NULL
      BY <2>1, <2>3, <2>4
    <3>4. QED
      BY <1>1, <2>10, <2>15, <3>1, <3>2, <3>3 DEF ListInv
  <2>17. \A n \in Letters : letter'[n] = letter[n]
    BY <2>3, <2>4, <2>15
  <2>18. QED
    BY <2>1, <2>3, <2>10, <2>16, <2>17
<1>4. QED
  BY <1>2, <1>3

\* The same letter, elsewhere on the screen.
SameLetter(l, m) == l.v = m.v /\ l.text = m.text

LEMMA MoveList ==
    ASSUME GameInv, update_letter_pos
    PROVE  /\ ListInv'
           /\ Letters' \subseteq Letters
           /\ \A n \in Letters' : SameLetter(letter'[n], letter[n]) /\ (n \in aimed => n \in aimed')
<1>1. /\ main = "move" /\ main' = "move" /\ it # NULL /\ it \in Letters /\ it' = pool.next[it]
      /\ target' = target /\ target = NULL /\ aimed \subseteq Letters
      /\ letter \in [Node -> Letter \cup {NULL}]
      /\ \A n \in Node : letter[n] # NULL <=> n \in Letters
      /\ PoolIs(pool, head, Letters) /\ BackLinks(pool, head, Letters)
  BY DEF update_letter_pos, Executes, GameInv, ListInv
<1>2. it \in Node /\ letter[it] \in Letter /\ Letters \in SUBSET Node
  BY <1>1, LetterFacts
<1>3. it' \in (Letters \ {it}) \cup {NULL}
  <2>1. IsList(pool.next, head, Letters) /\ pool.next \in [Node -> Node \cup {NULL}]
    BY <1>1, PoolFields DEF PoolIs
  <2>2. pool.next[it] # it
    BY <1>1, <1>2, <2>1, NodeFacts, NoLoop
  <2>3. QED
    BY <1>1, <2>2, LetterFacts
<1> DEFINE x == letter[it].x + letter[it].v
<1>4. CASE Gone(x)
  <2>1. /\ pool' = Freed(Removed(pool, it), it)
        /\ head' = IF it = head THEN pool.next[it] ELSE head
        /\ letter' = [letter EXCEPT ![it] = NULL]
        /\ aimed' = aimed \ {it}
    BY <1>4 DEF update_letter_pos
  <2>2. PoolIs(pool', head', Letters \ {it}) /\ BackLinks(pool', head', Letters \ {it})
    <3>1. /\ PoolIs(Freed(Removed(pool, it), it), IF it = head THEN pool.next[it] ELSE head, Letters \ {it})
          /\ BackLinks(Freed(Removed(pool, it), it), IF it = head THEN pool.next[it] ELSE head, Letters \ {it})
      BY <1>1, PoolAfterFree
    <3>2. QED
      BY <2>1, <3>1, Zenon
  <2>3. Letters' = Letters \ {it}
    <3>1. Reached(pool'.next, head') = Letters \ {it}
      BY <2>2, PoolFacts
    <3>2. QED
      BY <3>1 DEF Letters
  <2>4. /\ letter' \in [Node -> Letter \cup {NULL}] /\ letter'[it] = NULL
        /\ \A n \in Node \ {it} : letter'[n] = letter[n]
    BY <1>1, <1>2, <2>1
  <2>5. \A n \in Node : letter'[n] # NULL <=> n \in Letters'
    BY <1>1, <2>3, <2>4
  <2>6. PoolIs(pool', head', Letters') /\ BackLinks(pool', head', Letters')
    BY <2>2, <2>3
  <2>7. ListInv'
    BY <1>1, <1>3, <2>1, <2>3, <2>4, <2>5, <2>6 DEF ListInv
  <2>8. \A n \in Letters' : letter'[n] = letter[n] /\ (n \in aimed => n \in aimed')
    BY <1>2, <2>1, <2>3, <2>4
  <2>9. QED
    BY <2>3, <2>7, <2>8 DEF SameLetter
<1>5. CASE ~Gone(x)
  <2>1. pool' = pool /\ head' = head /\ aimed' = aimed /\ letter' = [letter EXCEPT ![it].x = x]
    BY <1>5 DEF update_letter_pos
  <2>2. x \in Int
    BY <1>1, LetterFacts
  <2> HIDE DEF x
  <2>3. Letters' = Letters
    BY <2>1 DEF Letters
  <2>4. PoolIs(pool', head', Letters') /\ BackLinks(pool', head', Letters')
    BY <1>1, <2>1, <2>3
  <2>5. /\ letter' = [n \in Node |-> IF n = it THEN letter'[it] ELSE letter[n]]
        /\ letter'[it] = [letter[it] EXCEPT !.x = x]
    BY <1>1, <1>2, <2>1
  <2>6. letter'[it] \in Letter /\ SameLetter(letter'[it], letter[it])
    BY <1>2, <2>2, <2>5 DEF Letter, SameLetter
  <2>7. letter' \in [Node -> Letter \cup {NULL}]
    BY <1>1, <2>5, <2>6
  <2>8. \A n \in Node : letter'[n] # NULL <=> n \in Letters
    BY <1>1, <2>5, <2>6, TypingAssumption
  <2>9. ListInv'
    BY <1>1, <1>3, <2>1, <2>3, <2>4, <2>7, <2>8 DEF ListInv
  <2>10. \A n \in Letters \ {it} : letter'[n] = letter[n]
    BY <1>2, <2>5
  <2>11. \A l : SameLetter(l, l)
    BY DEF SameLetter
  <2>12. \A n \in Letters' : SameLetter(letter'[n], letter[n])
    BY <2>3, <2>6, <2>10, <2>11
  <2>13. QED
    BY <2>1, <2>3, <2>9, <2>12
<1>6. QED
  BY <1>4, <1>5

LEMMA ListStep ==
    ASSUME GameInv, [Next]_vars
    PROVE  ListInv'
<1>1. /\ it \in Letters \cup {NULL} /\ target \in Letters \cup {NULL}
      /\ target # NULL => main = "scan"
      /\ aimed \subseteq Letters /\ head \in Letters \cup {NULL}
      /\ \A n \in Letters : pool.next[n] \in Letters \cup {NULL}
  BY LetterFacts DEF GameInv, ListInv
<1>2. CASE Boot \/ wait_intr \/ cli
  BY <1>1, <1>2, SameLetters DEF Boot, wait_intr, cli, Executes, game_vars
<1>3. CASE game_init
  BY <1>1, <1>3, SameLetters DEF game_init, game_vars
<1>4. CASE compare \/ sti
  BY <1>1, <1>4, SameLetters DEF compare, sti, Executes, game_vars
<1>5. CASE update_keypress
  BY <1>1, <1>5, SameLetters DEF update_keypress, Executes
<1>6. CASE scan
  <2>1. it' \in Letters \cup {NULL} /\ target' \in Letters \cup {NULL}
    BY <1>1, <1>6 DEF scan
  <2>2. QED
    BY <1>1, <1>6, <2>1, SameLetters DEF scan, Executes
<1>7. CASE no_hit
  BY <1>1, <1>7, SameLetters DEF no_hit, Executes, game_vars
<1>8. CASE loop \/ release_key \/ advance
  BY <1>1, <1>8, SameLetters DEF loop, release_key, advance, Executes
<1>9. CASE Handle
  BY <1>1, <1>9, SameLetters DEF Handle
<1>10. CASE Dispatch \/ ClockTicks
  BY <1>1, <1>10, SameLetters DEF Dispatch, ClockTicks, game_vars
<1>11. CASE \E c \in ScanCode : KeyEvent(c)
  <2>1. aimed' \subseteq Letters /\ UNCHANGED <<main, game_vars>>
    BY <1>1, <1>11 DEF KeyEvent
  <2>2. QED
    BY <1>1, <2>1, SameLetters DEF game_vars
<1>12. CASE UNCHANGED vars
  BY <1>1, <1>12, SameLetters DEF vars, game_vars
<1>13. QED
  BY <1>2, <1>3, <1>4, <1>5, <1>6, <1>7, <1>8, <1>9, <1>10, <1>11, <1>12,
     HitList, CreateList, MoveList DEF Next, Main

-----------------------------------------------------------------------------
(* The search for a letter to hit.                                         *)

\* During the search nothing else runs.
LEMMA SearchIsMasked ==
    ASSUME GameInv, main = "scan"
    PROVE  handler = <<>> /\ eflags_IF = 0
BY MainRuns DEF GameInv, StackInv, Masked

LEMMA ScanStep ==
    ASSUME GameInv, [Next]_vars
    PROVE  ScanInv'
<1>1. SUFFICES ASSUME main' = "scan" PROVE ScanInv'
  BY DEF ScanInv
<1>2. PoolIs(pool, head, Letters) /\ Letters \in SUBSET Node /\ NULL \notin Node
  BY LetterFacts, NodeFacts DEF GameInv, ListInv
<1>3. CASE update_keypress
  <2>1. UNCHANGED <<pool, head, letter, letter_pressed>> /\ it' = head /\ target' = NULL
    BY <1>3 DEF update_keypress, list_vars, key_vars
  <2>2. Letters' = Letters /\ Reached(pool'.next, it') = Letters
    BY <2>1 DEF Letters
  <2>3. QED
    BY <2>1, <2>2 DEF ScanInv
<1>4. CASE scan
  <2>1. /\ UNCHANGED <<pool, head, letter, letter_pressed>> /\ it \in Letters
        /\ it' = pool.next[it] /\ target' = IF Better(it) THEN it ELSE target
        /\ main = "scan"
    BY <1>4 DEF scan, Executes, list_vars, key_vars, GameInv, ListInv
  <2>2. Letters' = Letters
    BY <2>1 DEF Letters
  <2>3. Reached(pool.next, it) \subseteq {it} \cup Reached(pool.next, it')
    <3>1. pool.next \in [Node -> Node \cup {NULL}] /\ it \in Node
      BY <1>2, <2>1, PoolFields DEF PoolIs
    <3>2. QED
      BY <1>2, <2>1, <3>1, ReachedFromNext
  <2>4. /\ target \in Letters \cup {NULL}
        /\ target # NULL => Hittable(target)
        /\ \A n \in Letters \ Reached(pool.next, it) :
              Hittable(n) => target # NULL /\ letter[n].x <= letter[target].x
    BY <2>1 DEF GameInv, ScanInv, ListInv
  <2>5. Better(it) <=> Hittable(it) /\ (target # NULL => letter[it].x > letter[target].x)
    BY Zenon DEF Better, Hittable
  <2>6. \A n \in Letters : letter[n].x \in Int
    BY LetterFacts
  <2>7. target' # NULL => Hittable(target')
    BY <1>2, <2>1, <2>4, <2>5
  <2>8. ASSUME NEW n \in Letters, n \notin Reached(pool.next, it'), Hittable(n)
        PROVE  target' # NULL /\ letter[n].x <= letter[target'].x
    <3>1. CASE n = it
      BY <1>2, <2>1, <2>4, <2>5, <2>6, <2>8, <3>1
    <3>2. CASE n # it
      <4>1. target \in Letters /\ letter[n].x <= letter[target].x
        BY <2>3, <2>4, <2>8, <3>2
      <4>2. QED
        BY <1>2, <2>1, <2>5, <2>6, <4>1
    <3>3. QED
      BY <3>1, <3>2
  <2>9. QED
    BY <2>1, <2>2, <2>7, <2>8 DEF ScanInv, Hittable
<1>5. CASE ClockTicks \/ (\E c \in ScanCode : KeyEvent(c)) \/ UNCHANGED vars
  <2>1. UNCHANGED <<main, pool, head, letter, letter_pressed, it, target>>
    BY <1>5 DEF ClockTicks, KeyEvent, vars, game_vars, list_vars, key_vars
  <2>2. Letters' = Letters
    BY <2>1 DEF Letters
  <2>3. QED
    BY <2>1, <2>2 DEF GameInv, ScanInv, Hittable
<1>6. CASE Handle \/ Dispatch
  <2>1. main = "scan"
    BY <1>1, <1>6 DEF Handle, Dispatch
  <2>2. QED
    BY <1>6, <2>1, SearchIsMasked DEF Handle, Dispatch, Interrupt, Accepts
<1>7. CASE Main /\ ~update_keypress /\ ~scan
  BY <1>1, <1>7 DEF Main, Boot, game_init, wait_intr, cli, compare, sti, hit, no_hit,
     loop, create_new_letter, release_key, update_letter_pos, advance, Executes
<1>8. QED
  BY <1>3, <1>4, <1>5, <1>6, <1>7 DEF Next

-----------------------------------------------------------------------------
(* A hit was aimed.                                                        *)

\* in_byte is the first step of a handler, and only press_key comes after it.
LEMMA NextOp ==
    ASSUME GameInv, Handle, handler' # <<>>
    PROVE  /\ Head(handler') # "in_byte"
           /\ Head(handler') = "press_key" => Head(handler) = "in_byte"
<1>1. handler # <<>> /\ handler' = Tail(handler)
  BY DEF Handle
<1>2. ASSUME NEW r \in Serving, Tail(r) # <<>>
      PROVE  /\ Tail(r) \in Serving /\ Head(Tail(r)) # "in_byte"
             /\ Head(Tail(r)) = "press_key" => Head(r) = "in_byte"
  <2>1. Tail(r) \in Serving /\ Head(Tail(r)) # "in_byte"
    BY <1>2, ServingOps
  <2>2. Head(<<"iret">>) = "iret"
    OBVIOUS
  <2>3. Head(r) # "in_byte" => Tail(r) = <<"iret">>
    BY <1>2, ServingOps
  <2>4. Head(Tail(r)) = "press_key" => Head(r) = "in_byte"
    <3>1. SUFFICES ASSUME Head(r) # "in_byte" PROVE Head(Tail(r)) = "iret"
      BY Zenon
    <3>2. QED
      BY <2>2, <2>3, <3>1, Zenon
  <2>5. QED
    BY <2>1, <2>4
<1>3. CASE handler \in Serving
  BY <1>1, <1>2, <1>3
<1>4. CASE handler \in Calling
  <2>1. Tail(handler) \in Calling
    BY <1>1, <1>4, CallingOps
  <2>2. Head(Tail(handler)) \in {"cli", "add_irq_handle", "sti", "iret"}
    BY <2>1, CallingOps
  <2>3. QED
    BY <1>1, <2>2
<1>5. CASE \E r \in Serving, c \in Calling : handler = r \o c
  <2>1. PICK r \in Serving, c \in Calling : handler = r \o c
    BY <1>5
  <2>2. Head(handler) = Head(r) /\ handler' = Tail(r) \o c
    BY <1>1, <2>1, NestedOps
  <2>3. CASE Tail(r) = <<>>
    <3>1. handler' = c
      BY <2>2, <2>3, NestedOps
    <3>2. QED
      BY <3>1, CallingOps
  <2>4. CASE Tail(r) # <<>>
    <3>1. Head(handler') = Head(Tail(r))
      BY <1>2, <2>2, <2>4, NestedOps
    <3>2. QED
      BY <1>2, <2>2, <2>4, <3>1
  <2>5. QED
    BY <2>3, <2>4
<1>6. QED
  BY <1>1, <1>3, <1>4, <1>5 DEF GameInv, StackInv

\* A step that leaves alone what AimInv is about.
LEMMA SameAim ==
    ASSUME GameInv, UNCHANGED <<pool, head, letter, letter_pressed, aimed, scan_code_buf, intr_no>>,
           main # "release" \/ main' = main,
           handler' = <<>> \/ Head(handler') \notin {"in_byte", "press_key"}
    PROVE  AimInv'
<1>1. Letters' = Letters
  BY DEF Letters
<1>2. \A n \in Letters : Hittable(n)' => Hittable(n)
  BY DEF Hittable
<1>3. QED
  BY <1>1, <1>2 DEF GameInv, AimInv

LEMMA DispatchAim ==
    ASSUME GameInv, Dispatch
    PROVE  AimInv'
<1> DEFINE r == IrqHandler(intr_no)
<1>1. /\ eflags_IF = 1 /\ intr_no' = I8259_NO_INTR /\ handler' = r \o handler
      /\ UNCHANGED <<main, pool, head, letter, letter_pressed, key_code, aimed, scan_code_buf>>
  BY DEF Dispatch, Interrupt, Accepts, game_vars, key_vars, list_vars
<1>2. /\ r \in Serving /\ Head(r) # "press_key"
      /\ Head(r) = "in_byte" => intr_no = IRQ_BASE + KEYBOARD_IRQ
  BY IrqHandlerServes
<1> HIDE DEF r
<1>3. handler = <<>> \/ handler \in Calling
  BY <1>1 DEF GameInv, StackInv
<1>4. Head(handler') = Head(r)
  <2>1. CASE handler = <<>>
    <3>1. handler' = r
      BY <1>1, <1>2, <2>1, ServingOps
    <3>2. QED
      BY <3>1
  <2>2. CASE handler \in Calling
    <3>1. Head(r \o handler) = Head(r)
      BY <1>2, <2>2, NestedOps
    <3>2. QED
      BY <1>1, <3>1, Zenon
  <2>3. QED
    BY <1>3, <2>1, <2>2
<1>5. Letters' = Letters
  BY <1>1 DEF Letters
<1>6. \A n \in Letters : Hittable(n)' => Hittable(n)
  BY <1>1 DEF Hittable
<1>7. intr_no' # IRQ_BASE + KEYBOARD_IRQ
  BY <1>1, HardwareVectors
<1>8. /\ \A n \in Letters : Hittable(n) => n \in aimed \/ (main = "release" /\ n = head)
      /\ intr_no = IRQ_BASE + KEYBOARD_IRQ
            => \A n \in Letters : letter[n].text = scan_code_buf => n \in aimed
  BY DEF GameInv, AimInv
<1>9. Head(handler') = "in_byte" => \A n \in Letters : letter[n].text = scan_code_buf => n \in aimed
  BY <1>2, <1>4, <1>8, Zenon
<1>10. Head(handler') # "press_key"
  BY <1>2, <1>4
<1>11. QED
  BY <1>1, <1>5, <1>6, <1>7, <1>8, <1>9, <1>10 DEF AimInv

LEMMA HandleAim ==
    ASSUME GameInv, Handle
    PROVE  AimInv'
<1> DEFINE op == Head(handler)
<1>1. /\ handler # <<>> /\ UNCHANGED <<main, pool, head, letter, aimed>>
      /\ UNCHANGED <<scan_code_buf, intr_no>>
      /\ op = "in_byte" => key_code' = scan_code_buf
      /\ \A t \in Text : letter_pressed'[t] <=> letter_pressed[t] \/ (op = "press_key" /\ t = key_code)
  BY DEF Handle, Step, Cli, Sti, Iret, Plain, machine_vars, list_vars
<1>2. /\ handler' # <<>> => Head(handler') # "in_byte"
      /\ handler' # <<>> /\ Head(handler') = "press_key" => op = "in_byte"
  BY NextOp
<1>3. Letters' = Letters
  BY <1>1 DEF Letters
<1>4. /\ \A n \in Letters : Hittable(n) => n \in aimed \/ (main = "release" /\ n = head)
      /\ intr_no = IRQ_BASE + KEYBOARD_IRQ \/ op = "in_byte"
            => \A n \in Letters : letter[n].text = scan_code_buf => n \in aimed
      /\ op = "press_key" => \A n \in Letters : letter[n].text = key_code => n \in aimed
  BY <1>1 DEF GameInv, AimInv
<1> HIDE DEF op
<1>5. ASSUME NEW n \in Letters, Hittable(n)'
      PROVE  n \in aimed \/ (main = "release" /\ n = head)
  <2>1. letter[n].v > 0 /\ letter_pressed'[letter[n].text] /\ letter[n].text \in Text
    BY <1>1, <1>5, LetterFacts DEF Hittable
  <2>2. CASE letter_pressed[letter[n].text]
    BY <1>4, <2>1, <2>2 DEF Hittable
  <2>3. CASE op = "press_key" /\ letter[n].text = key_code
    BY <1>4, <2>3
  <2>4. QED
    BY <1>1, <2>1, <2>2, <2>3, Zenon
<1>6. QED
  BY <1>1, <1>2, <1>3, <1>4, <1>5 DEF AimInv

LEMMA AimStep ==
    ASSUME GameInv, [Next]_vars
    PROVE  AimInv'
<1>1. /\ \A n \in Letters : Hittable(n) => n \in aimed \/ (main = "release" /\ n = head)
      /\ intr_no = IRQ_BASE + KEYBOARD_IRQ
            => \A n \in Letters : letter[n].text = scan_code_buf => n \in aimed
      /\ handler # <<>> /\ Head(handler) = "in_byte"
            => \A n \in Letters : letter[n].text = scan_code_buf => n \in aimed
      /\ handler # <<>> /\ Head(handler) = "press_key"
            => \A n \in Letters : letter[n].text = key_code => n \in aimed
  BY DEF GameInv, AimInv
<1>2. CASE Boot \/ wait_intr \/ cli \/ sti
  BY <1>2, SameAim DEF Boot, wait_intr, cli, sti, Executes, Hlt, Cli, Sti, game_vars, list_vars, key_vars
<1>3. CASE game_init
  <2>1. Head(<<"cli", "add_irq_handle", "sti", "iret">>) = "cli"
    OBVIOUS
  <2>2. Head(handler') = "cli"
    BY <1>3, <2>1, Zenon DEF game_init
  <2>3. QED
    BY <1>3, <2>2, SameAim DEF game_init, Int80, game_vars, list_vars, key_vars
<1>4. CASE compare \/ scan \/ loop
  BY <1>4, SameAim DEF compare, scan, loop, Executes, Plain, machine_vars, list_vars, key_vars
<1>5. CASE update_keypress
  BY <1>5, SameAim DEF update_keypress, Executes, Cli, list_vars, key_vars
<1>6. CASE no_hit
  BY <1>6, SameAim DEF no_hit, Executes, Sti, game_vars, list_vars, key_vars
<1>7. CASE advance
  BY <1>7, SameAim DEF advance, Executes, Plain, machine_vars, list_vars, key_vars
<1>8. CASE hit
  <2>1. /\ main = "scan" /\ handler' = <<>> /\ UNCHANGED <<aimed, intr_no, scan_code_buf>>
        /\ letter_pressed' = [letter_pressed EXCEPT ![letter[target].text] = FALSE]
    BY <1>8 DEF hit, Executes, Plain, machine_vars
  <2>2. /\ Letters' = Letters /\ target \in Letters
        /\ letter'[target].v = -Rise
        /\ letter'[target].text = letter[target].text
        /\ \A n \in Letters \ {target} : letter'[n] = letter[n]
    BY <1>8, HitList
  <2>3. \A n \in Letters : letter'[n].text = letter[n].text
    BY <2>2
  <2>4. ASSUME NEW n \in Letters, Hittable(n)' PROVE n \in aimed
    <3>1. n # target
      BY <2>2, <2>4, LetterFacts, TypingAssumption DEF Hittable
    <3>2. letter'[n] = letter[n] /\ letter[n].text \in Text
      BY <2>2, <3>1, LetterFacts
    <3>3. letter[n].v > 0 /\ letter_pressed'[letter[n].text]
      BY <2>4, <3>2 DEF Hittable
    <3>4. letter_pressed[letter[n].text]
      <4>1. letter_pressed \in [Text -> BOOLEAN]
        BY DEF GameInv, KeyInv
      <4>2. QED
        BY <2>1, <3>2, <3>3, <4>1
    <3>5. Hittable(n)
      BY <3>3, <3>4 DEF Hittable
    <3>6. QED
      BY <1>1, <2>1, <3>5
  <2>5. QED
    BY <1>1, <2>1, <2>2, <2>3, <2>4 DEF AimInv
<1>9. CASE create_new_letter
  <2>1. /\ main = "create" /\ handler' = <<>> /\ handler = <<>> /\ ~Accepts
        /\ UNCHANGED <<aimed, intr_no, scan_code_buf, letter_pressed>>
        /\ main' \in {"panic", "release"}
    BY <1>9 DEF create_new_letter, Executes, Plain, Fetches, machine_vars, key_vars
  <2>2. intr_no = I8259_NO_INTR
    BY <2>1, MainRuns DEF Accepts, Masked
  <2>3. CASE main' = "panic"
    BY <1>9, <2>1, <2>3, CreateList, SameAim DEF list_vars
  <2>4. CASE main' = "release"
    <3>1. Letters' = Letters \cup {head'} /\ \A n \in Letters : letter'[n] = letter[n]
      BY <1>9, <2>4, CreateList
    <3>2. \A n \in Letters : Hittable(n)' => n \in aimed
      BY <1>1, <2>1, <3>1 DEF Hittable
    <3>3. intr_no' # IRQ_BASE + KEYBOARD_IRQ
      BY <2>1, <2>2, HardwareVectors
    <3>4. QED
      BY <2>1, <2>4, <3>1, <3>2, <3>3 DEF AimInv
  <2>5. QED
    BY <2>1, <2>3, <2>4
<1>10. CASE release_key
  <2>1. /\ main = "release" /\ handler' = <<>> /\ head \in Letters
        /\ UNCHANGED <<pool, head, letter, aimed, intr_no, scan_code_buf>>
        /\ letter_pressed' = [letter_pressed EXCEPT ![letter[head].text] = FALSE]
    BY <1>10, LetterFacts DEF release_key, Executes, Plain, machine_vars, list_vars, GameInv, ListInv
  <2>2. Letters' = Letters
    BY <2>1 DEF Letters
  <2>3. ASSUME NEW n \in Letters, Hittable(n)' PROVE n \in aimed
    <3>1. letter[n].v > 0 /\ letter_pressed'[letter[n].text] /\ letter[n].text \in Text
      BY <2>1, <2>3, LetterFacts DEF Hittable
    <3>2. letter_pressed[letter[n].text] /\ letter[n].text # letter[head].text
      <4>1. letter_pressed \in [Text -> BOOLEAN]
        BY DEF GameInv, KeyInv
      <4>2. QED
        BY <2>1, <3>1, <4>1
    <3>3. Hittable(n)
      BY <3>1, <3>2 DEF Hittable
    <3>4. QED
      BY <1>1, <3>2, <3>3
  <2>4. QED
    BY <1>1, <2>1, <2>2, <2>3 DEF AimInv
<1>11. CASE update_letter_pos
  <2>1. /\ main = "move" /\ handler' = <<>>
        /\ UNCHANGED <<intr_no, scan_code_buf, letter_pressed>>
    BY <1>11 DEF update_letter_pos, Executes, Plain, machine_vars, key_vars
  <2>2. /\ Letters' \subseteq Letters
        /\ \A n \in Letters' : SameLetter(letter'[n], letter[n]) /\ (n \in aimed => n \in aimed')
    BY <1>11, MoveList
  <2>3. ASSUME NEW n \in Letters', Hittable(n)' PROVE n \in aimed'
    <3>1. n \in Letters /\ letter'[n].v = letter[n].v /\ letter'[n].text = letter[n].text
      <4>1. n \in Letters /\ SameLetter(letter'[n], letter[n])
        BY <2>2
      <4>2. QED
        BY <4>1 DEF SameLetter
    <3>2. Hittable(n)
      BY <2>1, <2>3, <3>1, Zenon DEF Hittable
    <3>3. QED
      BY <1>1, <2>1, <2>2, <3>1, <3>2
  <2>4. ASSUME NEW n \in Letters', intr_no' = IRQ_BASE + KEYBOARD_IRQ,
               letter'[n].text = scan_code_buf'
        PROVE  n \in aimed'
    <3>1. n \in Letters /\ letter'[n].text = letter[n].text /\ (n \in aimed => n \in aimed')
      <4>1. n \in Letters /\ SameLetter(letter'[n], letter[n]) /\ (n \in aimed => n \in aimed')
        BY <2>2
      <4>2. QED
        BY <4>1 DEF SameLetter
    <3>2. QED
      BY <1>1, <2>1, <2>4, <3>1
  <2>5. QED
    BY <2>1, <2>3, <2>4 DEF AimInv
<1>12. CASE ClockTicks
  <2>1. /\ UNCHANGED <<main, handler, pool, head, letter, letter_pressed, key_code, aimed, scan_code_buf>>
        /\ intr_no' = Prioritised(intr_no, TIMER_IRQ)
    BY <1>12 DEF ClockTicks, Tick, game_vars, list_vars, key_vars
  <2>2. intr_no' = IRQ_BASE + KEYBOARD_IRQ => intr_no = IRQ_BASE + KEYBOARD_IRQ
    BY <2>1 DEF Prioritised, IRQ_BASE, KEYBOARD_IRQ, TIMER_IRQ
  <2>3. Letters' = Letters /\ \A n \in Letters : Hittable(n)' => Hittable(n)
    BY <2>1 DEF Letters, Hittable
  <2>4. QED
    BY <1>1, <2>1, <2>2, <2>3 DEF AimInv
<1>13. CASE \E c \in ScanCode : KeyEvent(c)
  <2>1. PICK c \in ScanCode : KeyEvent(c)
    BY <1>13
  <2>2. /\ UNCHANGED <<main, handler, pool, head, letter, letter_pressed, key_code>>
        /\ scan_code_buf' = c /\ aimed' = aimed \cup {n \in Letters : letter[n].text = c}
    BY <2>1 DEF KeyEvent, Key, game_vars, list_vars, key_vars
  <2>3. Letters' = Letters /\ \A n \in Letters : Hittable(n)' => Hittable(n)
    BY <2>2 DEF Letters, Hittable
  <2>4. QED
    BY <1>1, <2>2, <2>3 DEF AimInv
<1>14. CASE UNCHANGED vars
  <2>1. UNCHANGED <<main, handler, pool, head, letter, letter_pressed, key_code, aimed, scan_code_buf, intr_no>>
    BY <1>14 DEF vars, machine_vars, game_vars, list_vars, key_vars
  <2>2. Letters' = Letters /\ \A n \in Letters : Hittable(n)' => Hittable(n)
    BY <2>1 DEF Letters, Hittable
  <2>3. QED
    BY <1>1, <2>1, <2>2 DEF AimInv
<1>15. QED
  BY <1>2, <1>3, <1>4, <1>5, <1>6, <1>7, <1>8, <1>9, <1>10, <1>11, <1>12, <1>13, <1>14,
     DispatchAim, HandleAim DEF Next, Main

-----------------------------------------------------------------------------
(* The theorems.                                                           *)

LEMMA GameStep ==
    ASSUME GameInv, [Next]_vars
    PROVE  GameInv'
BY ListStep, ClockStep, KeyStep, StackStep, ScanStep, AimStep DEF GameInv

LEMMA GameStart ==
    ASSUME Init
    PROVE  GameInv
<1>1. Letters = {}
  <2>1. Reached(EmptyPool.next, NULL) = {}
    BY InitialPool, PoolFacts
  <2>2. QED
    BY <2>1 DEF Init, Letters
<1>2. ListInv
  BY <1>1, InitialPool DEF Init, ListInv
<1>3. ClockInv
  BY TypingAssumption DEF Init, ClockInv
<1>4. KeyInv
  BY DEF Init, PowerOn, KeyInv
<1>5. StackInv
  BY DEF Init, PowerOn, StackInv, Masked
<1>6. ScanInv /\ AimInv
  <2>1. ScanInv
    BY DEF Init, ScanInv
  <2>2. AimInv
    BY <1>1 DEF Init, AimInv
  <2>3. QED
    BY <2>1, <2>2
<1>7. QED
  BY <1>2, <1>3, <1>4, <1>5, <1>6 DEF GameInv

\* The inductive invariant of the game.
THEOREM GameInvariant == Spec => []GameInv
<1>1. Init => GameInv
  BY GameStart
<1>2. GameInv /\ [Next]_vars => GameInv'
  BY GameStep
<1>3. QED
  BY <1>1, <1>2, PTL DEF Spec

\* TypeOK: in particular missed never goes below 0, for any period and pool.
THEOREM GameTypesOK == Spec => []TypeOK
<1>1. GameInv => TypeOK
  <2>1. SUFFICES ASSUME GameInv PROVE TypeOK
    OBVIOUS
  <2>2. pool \in Pool /\ head \in Link /\ Letters \in SUBSET Node
    BY <2>1, LetterFacts DEF GameInv, ListInv, PoolIs
  <2>3. it \in Link /\ target \in Link /\ aimed \subseteq Node
    BY <2>1, <2>2 DEF GameInv, ListInv, Link
  <2>4. QED
    BY <2>1, <2>2, <2>3 DEF GameInv, ListInv, ClockInv, KeyInv, TypeOK
<1>2. QED
  BY <1>1, GameInvariant, PTL

\* ListIntact: insertion, removal in the middle of the walk and reuse of freed
\* elements keep the list, its back links and the free list, for every pool.
THEOREM ListStaysIntact == Spec => []ListIntact
<1>1. GameInv => ListIntact
  <2>1. SUFFICES ASSUME GameInv PROVE ListIntact
    OBVIOUS
  <2>2. PoolIs(pool, head, Letters) /\ BackLinks(pool, head, Letters)
    BY <2>1 DEF GameInv, ListInv
  <2>3. Reached(pool.next, pool.free) = IF pool.free = NULL THEN {} ELSE Node \ Letters
    BY <2>2, PoolFacts
  <2>4. SIZE \notin Letters /\ Letters \in SUBSET Node
    BY <2>2 DEF PoolIs
  <2>5. Letters = {n \in Node : letter[n] # NULL} /\ {it, target} \subseteq Letters \cup {NULL}
    BY <2>1, <2>4 DEF GameInv, ListInv
  <2>6. QED
    BY <2>2, <2>3, <2>4, <2>5 DEF BackLinks, ListIntact
<1>2. QED
  BY <1>1, GameInvariant, PTL

\* Only update_keypress turns a falling letter round.
LEMMA OnlyHitTurns ==
    ASSUME GameInv, [Next]_vars, NEW n \in Letters, letter[n].v > 0, n \in Letters', letter'[n].v < 0
    PROVE  hit /\ n = target
<1>1. ASSUME letter' = letter PROVE FALSE
  BY <1>1, LetterFacts
<1>2. ASSUME create_new_letter PROVE FALSE
  BY <1>1, <1>2, CreateList, LetterFacts DEF list_vars, create_new_letter
<1>3. ASSUME update_letter_pos PROVE FALSE
  <2>1. SameLetter(letter'[n], letter[n])
    BY <1>3, MoveList
  <2>2. QED
    BY <2>1, LetterFacts DEF SameLetter
<1>4. ASSUME hit PROVE n = target
  BY <1>4, HitList, LetterFacts
<1>5. hit \/ create_new_letter \/ update_letter_pos \/ letter' = letter
  BY DEF Next, Main, Boot, game_init, wait_intr, cli, compare, sti, update_keypress, scan, no_hit,
     loop, release_key, advance, Executes, Handle, Dispatch, ClockTicks, KeyEvent,
     vars, game_vars, list_vars
<1>6. QED
  BY <1>1, <1>2, <1>3, <1>4, <1>5

\* What update_keypress knows when its search has come to the end of the list.
LEMMA SearchEnds ==
    ASSUME GameInv, main = "scan", it = NULL
    PROVE  /\ target # NULL => Hittable(target)
           /\ \A n \in Letters : Hittable(n) => target # NULL /\ letter[n].x <= letter[target].x
<1>1. Reached(pool.next, it) = {}
  BY EmptyList, ListIsReached
<1>2. QED
  BY <1>1 DEF GameInv, ScanInv

\* HitsLowestPressed, for any text, speeds and keys pressed at any moment.
THEOREM HitsAreLowest == Spec => HitsLowestPressed
<1> DEFINE Turns == \A n \in Letters : letter[n].v > 0 /\ n \in Letters' /\ letter'[n].v < 0 =>
              /\ letter_pressed[letter[n].text] /\ ~letter_pressed'[letter[n].text]
              /\ \A m \in Letters : letter[m].v > 0 /\ letter_pressed[letter[m].text] =>
                                        letter[m].x <= letter[n].x
<1>1. ASSUME GameInv, [Next]_vars, NEW n \in Letters, letter[n].v > 0, n \in Letters', letter'[n].v < 0
      PROVE  /\ letter_pressed[letter[n].text] /\ ~letter_pressed'[letter[n].text]
             /\ \A m \in Letters : letter[m].v > 0 /\ letter_pressed[letter[m].text] =>
                                       letter[m].x <= letter[n].x
  <2>1. hit /\ n = target
    BY <1>1, OnlyHitTurns
  <2>2. /\ main = "scan" /\ it = NULL /\ target # NULL
        /\ letter_pressed' = [letter_pressed EXCEPT ![letter[target].text] = FALSE]
    BY <2>1 DEF hit, Executes
  <2>3. Hittable(n) /\ \A m \in Letters : Hittable(m) => letter[m].x <= letter[n].x
    BY <1>1, <2>1, <2>2, SearchEnds
  <2>4. ~letter_pressed'[letter[n].text]
    <3>1. letter_pressed \in [Text -> BOOLEAN] /\ letter[n].text \in Text
      BY <1>1, LetterFacts DEF GameInv, KeyInv
    <3>2. QED
      BY <2>1, <2>2, <3>1
  <2>5. QED
    BY <2>3, <2>4 DEF Hittable
<1>2. GameInv /\ [Next]_vars => Turns
  BY <1>1
<1>3. GameInv /\ [Next]_vars => [Turns]_vars
  BY <1>2
<1>4. QED
  BY <1>3, GameInvariant, PTL DEF Spec, HitsLowestPressed

\* HitsAimed: no letter is hit by a key pressed before it was there.
THEOREM HitsAreAimed == Spec => HitsAimed
<1> DEFINE Turns == \A n \in Letters : letter[n].v > 0 /\ n \in Letters' /\ letter'[n].v < 0 =>
              n \in aimed
<1>1. ASSUME GameInv, [Next]_vars, NEW n \in Letters, letter[n].v > 0, n \in Letters', letter'[n].v < 0
      PROVE  n \in aimed
  <2>1. hit /\ n = target
    BY <1>1, OnlyHitTurns
  <2>2. main = "scan" /\ it = NULL /\ target # NULL
    BY <2>1 DEF hit, Executes
  <2>3. Hittable(n)
    BY <1>1, <2>1, <2>2, SearchEnds
  <2>4. QED
    BY <1>1, <2>2, <2>3 DEF GameInv, AimInv
<1>2. GameInv /\ [Next]_vars => Turns
  BY <1>1
<1>3. GameInv /\ [Next]_vars => [Turns]_vars
  BY <1>2
<1>4. QED
  BY <1>3, GameInvariant, PTL DEF Spec, HitsAimed

\* EveryPressUsed: when the search ends without a hit no key is down for a
\* falling letter.
THEOREM PressesAreUsed == Spec => EveryPressUsed
<1> DEFINE Turns == main = "scan" /\ main' = "loop" =>
              \A t \in Text : letter_pressed[t] => Targets(t) = {}
<1>1. ASSUME GameInv, [Next]_vars, main = "scan", main' = "loop", NEW t \in Text, letter_pressed[t]
      PROVE  Targets(t) = {}
  <2>1. no_hit
    <3>1. handler = <<>> /\ eflags_IF = 0
      BY <1>1, SearchIsMasked
    <3>2. Main
      BY <1>1, <3>1 DEF Next, Handle, Dispatch, Interrupt, Accepts, ClockTicks, KeyEvent, vars
    <3>3. QED
      BY <1>1, <3>2 DEF Main, Boot, game_init, wait_intr, cli, compare, sti, update_keypress, scan,
         hit, loop, create_new_letter, release_key, update_letter_pos, advance, Executes
  <2>2. it = NULL /\ target = NULL
    BY <2>1 DEF no_hit
  <2>3. \A n \in Letters : ~Hittable(n)
    BY <1>1, <2>2, SearchEnds
  <2>4. QED
    BY <1>1, <2>3 DEF Targets, Hittable
<1>2. GameInv /\ [Next]_vars => Turns
  BY <1>1
<1>3. GameInv /\ [Next]_vars => [Turns]_vars
  BY <1>2
<1>4. QED
  BY <1>3, GameInvariant, PTL DEF Spec, EveryPressUsed

-----------------------------------------------------------------------------
(* The pool is never exhausted.  Letters are made Period ticks apart and a *)
(* letter lives no longer than it takes to fall to the bottom and to rise  *)
(* from there, so a pool that outlasts that time is enough.                *)

Roomy == Period * SIZE * (Fall * Rise) > Bottom * (Fall + Rise)

\* Where a letter that has moved a times can be: falling, it has come a * Fall
\* down; rising, it fell for some of the a ticks and rose for the others.
Aged(l, a) ==
    /\ 0 <= l.x /\ l.x <= Bottom
    /\ l.v > 0 => Fall * a <= l.x
    /\ l.v < 0 => Fall * Rise * a + Fall * l.x <= (Fall + Rise) * Bottom

\* Moves of a letter made t periods ago, when now is so far into this one.
Age(now, t, moved) == now + Period * t + (IF moved THEN 1 ELSE 0)

\* Letter n of L was made turn[n] periods ago; those of M have already moved in
\* this tick.
Apart(turn, L, now, M, contents) ==
    /\ \A n, m \in L : turn[n] = turn[m] => n = m
    /\ \A n \in L : Aged(contents[n], Age(now, turn[n], n \in M))

Passed == IF main = "move" THEN Letters \ Reached(pool.next, it) ELSE {}

\* The letter of this period has not been made.
Waiting == phase = 0 /\ main \notin {"release", "move"}

PoolInv ==
    /\ main # "panic"
    /\ main \in {"create", "release"} => phase = 0
    /\ \E turn \in [Letters -> Nat] :
          /\ Apart(turn, Letters, phase, Passed, letter)
          /\ Waiting => \A n \in Letters : turn[n] # 0

\* The numbers of the game.
LEMMA Speeds ==
    /\ Fall \in Nat /\ Fall > 0 /\ Rise \in Nat /\ Rise > 0 /\ Period \in Nat /\ Period > 0
    /\ Bottom \in Nat
BY TypingAssumption

\* A letter that moves without leaving the screen.
LEMMA MovedAge ==
    ASSUME NEW l, NEW m, l.x \in Int, l.v \in {Fall, -Rise}, m.x = l.x + l.v, m.v = l.v,
           ~Gone(m.x), NEW a \in Nat, Aged(l, a)
    PROVE  Aged(m, a + 1)
<1> DEFINE x == l.x
<1>1. x \in Int /\ 0 <= m.x /\ m.x <= Bottom /\ m.x \in Int
  BY Speeds DEF Gone
<1>2. CASE l.v = Fall
  <2>1. Fall * a <= x
    BY <1>2, Speeds DEF Aged
  <2>2. Fall * (a + 1) = Fall * a + Fall
    BY Speeds, SMT
  <2>3. Fall * (a + 1) <= m.x
    BY <1>1, <1>2, <2>1, <2>2, Speeds
  <2>4. QED
    BY <1>1, <1>2, <2>3, Speeds DEF Aged
<1>3. CASE l.v = -Rise
  <2>1. Fall * Rise * a + Fall * x <= (Fall + Rise) * Bottom
    BY <1>3, Speeds DEF Aged
  <2>2. Fall * Rise * (a + 1) = Fall * Rise * a + Fall * Rise
    BY Speeds, SMT
  <2>3. Fall * (x - Rise) = Fall * x - Fall * Rise
    BY <1>1, Speeds, SMT
  <2>4. m.x = x - Rise
    BY <1>1, <1>3, Speeds
  <2>5. /\ Fall * Rise \in Int /\ Fall * Rise * a \in Int /\ Fall * x \in Int
        /\ (Fall + Rise) * Bottom \in Int
    BY <1>1, Speeds, SMT
  <2>6. Fall * Rise * (a + 1) + Fall * m.x <= (Fall + Rise) * Bottom
    BY <2>1, <2>2, <2>3, <2>4, <2>5
  <2>7. QED
    BY <1>1, <1>3, <2>6, Speeds DEF Aged
<1>4. QED
  BY <1>2, <1>3

\* A letter that is hit has come as far as it has fallen.
LEMMA TwiceFallen ==
    ASSUME NEW a \in Nat, NEW x \in Int, Fall * a <= x, x <= Bottom
    PROVE  Fall * Rise * a + Fall * x <= (Fall + Rise) * Bottom
<1>1. Rise * (Fall * a) <= Rise * Bottom
  <2>1. Fall * a <= Bottom /\ Fall * a \in Int
    BY Speeds, SMT
  <2>2. QED
    BY <2>1, Speeds, SMT
<1>2. Fall * x <= Fall * Bottom
  BY Speeds, SMT
<1>3. Fall * Rise * a = Rise * (Fall * a)
  BY Speeds, SMT
<1>4. (Fall + Rise) * Bottom = Fall * Bottom + Rise * Bottom
  BY Speeds, SMT
<1>5. /\ Rise * (Fall * a) \in Int /\ Rise * Bottom \in Int /\ Fall * x \in Int /\ Fall * Bottom \in Int
  BY Speeds, SMT
<1>6. QED
  BY <1>1, <1>2, <1>3, <1>4, <1>5

\* A letter that is hit turns where it is.
LEMMA HitAge ==
    ASSUME NEW l, NEW m, l.x \in Int, l.v \in {Fall, -Rise}, m.x = l.x, m.v = -Rise,
           NEW a \in Nat, Aged(l, a)
    PROVE  Aged(m, a)
<1>1. CASE l.v = Fall
  <2>1. Fall * a <= l.x /\ l.x <= Bottom
    BY <1>1, Speeds DEF Aged
  <2>2. Fall * Rise * a + Fall * m.x <= (Fall + Rise) * Bottom
    BY <2>1, TwiceFallen
  <2>3. QED
    BY <2>2, Speeds DEF Aged
<1>2. CASE l.v = -Rise
  BY <1>2, Speeds DEF Aged
<1>3. QED
  BY <1>1, <1>2

\* A letter's life is shorter than what the pool lasts.
LEMMA ShortLife ==
    ASSUME Roomy, NEW l, l.x \in Int, l.v \in {Fall, -Rise}, NEW g \in Nat, Aged(l, Period * g)
    PROVE  g < SIZE
<1> DEFINE F == Fall * Rise
           a == Period * g
<1>1. a \in Nat /\ F \in Nat /\ SIZE \in Nat /\ 0 <= l.x /\ l.x <= Bottom
  BY Speeds, NodeFacts, SMT DEF Aged
<1>2. Fall * Rise * a + Fall * l.x <= (Fall + Rise) * Bottom
  <2>1. CASE l.v = Fall
    BY <1>1, <2>1, TwiceFallen, Speeds DEF Aged
  <2>2. CASE l.v = -Rise
    BY <2>2, Speeds DEF Aged
  <2>3. QED
    BY <2>1, <2>2
<1>3. Fall * l.x >= 0 /\ Fall * l.x \in Int
  BY <1>1, Speeds, SMT
<1>4. F * a \in Int /\ (Fall + Rise) * Bottom \in Int
      /\ (Fall + Rise) * Bottom = Bottom * (Fall + Rise)
  BY <1>1, Speeds, SMT
<1>5. F * a <= Bottom * (Fall + Rise)
  BY <1>2, <1>3, <1>4
<1>6. F * a < Period * SIZE * F
  <2>1. Period * SIZE * F \in Int
    BY <1>1, Speeds, SMT
  <2>2. QED
    BY <1>4, <1>5, <2>1 DEF Roomy
<1>7. ASSUME g >= SIZE PROVE FALSE
  <2>1. Period * g >= Period * SIZE
    BY <1>1, <1>7, Speeds, SMT
  <2>2. Period * SIZE \in Nat /\ a >= Period * SIZE
    BY <1>1, <2>1, Speeds, SMT
  <2> HIDE DEF a, F
  <2> DEFINE b == Period * SIZE
  <2>3. b \in Nat /\ a >= b
    BY <2>2
  <2>4. b * F = Period * SIZE * F
    OBVIOUS
  <2> HIDE DEF b
  <2>5. F * a >= F * b
    BY <1>1, <2>3, SMT
  <2>6. F * b = b * F
    BY <1>1, <2>3, SMT
  <2>7. F * a \in Int /\ F * b \in Int
    BY <1>1, <2>3, SMT
  <2>8. QED
    BY <1>6, <2>4, <2>5, <2>6, <2>7
<1>8. QED
  BY <1>1, <1>7

\* The assertion of fly_new fails only with all elements but the last given out.
LEMMA ExhaustedPool ==
    ASSUME GameInv, Exhausted(pool)
    PROVE  0 .. SIZE - 1 \subseteq Letters
<1> DEFINE p == Strung(pool)
<1>1. PoolIs(p, head, Letters) /\ p.free \in Node \ Letters
  BY StrungPool DEF GameInv, ListInv
<1>2. p.next[p.free] = NULL
  BY DEF Exhausted
<1> HIDE DEF p
<1>3. /\ IsList(p.next, p.free, Node \ Letters) /\ SIZE \notin Letters /\ NULL \notin Node
      /\ Node = 0 .. SIZE /\ SIZE \in Nat
  BY <1>1, NodeFacts DEF PoolIs
<1>4. Contains(p.next, p.free, {p.free})
  BY <1>2 DEF Contains
<1>5. {p.free} = Node \ Letters
  BY <1>1, <1>3, <1>4 DEF IsList
<1>6. QED
  BY <1>3, <1>5

\* Letters made in different periods, all within the pool's time: too few.
LEMMA PoolLasts ==
    ASSUME Roomy, GameInv, PoolInv, main = "create", 0 .. SIZE - 1 \subseteq Letters
    PROVE  FALSE
<1>1. PICK turn \in [Letters -> Nat] : /\ Apart(turn, Letters, phase, Passed, letter)
                                       /\ Waiting => \A n \in Letters : turn[n] # 0
  BY DEF PoolInv
<1>2. phase = 0 /\ Waiting /\ Passed = {}
  BY DEF PoolInv, Waiting, Passed
<1>3. ASSUME NEW n \in Letters PROVE turn[n] \in 1 .. SIZE - 1
  <2>1. turn[n] \in Nat /\ turn[n] # 0
    BY <1>1, <1>2
  <2>2. Aged(letter[n], 0 + Period * turn[n] + 0)
    BY <1>1, <1>2 DEF Apart, Age
  <2>3. 0 + Period * turn[n] + 0 = Period * turn[n]
    BY <2>1, Speeds, SMT
  <2>4. Aged(letter[n], Period * turn[n])
    BY <2>2, <2>3
  <2>5. turn[n] < SIZE
    BY <2>1, <2>4, ShortLife, LetterFacts
  <2>6. QED
    BY <2>1, <2>5, NodeFacts
<1> DEFINE S == 0 .. SIZE - 1
           T == 1 .. SIZE - 1
           f == [n \in S |-> turn[n]]
<1>4. /\ IsFiniteSet(S) /\ IsFiniteSet(T) /\ Cardinality(T) < Cardinality(S)
  <2>1. SIZE \in Nat /\ SIZE > 0
    BY LinkListAssumption
  <2>2. Cardinality(S) = SIZE /\ IsFiniteSet(S) /\ IsFiniteSet(T)
        /\ Cardinality(T) = IF 1 > SIZE - 1 THEN 0 ELSE SIZE - 1
    BY <2>1, FS_Interval
  <2>3. QED
    BY <2>1, <2>2
<1>5. f \in [S -> T]
  BY <1>3
<1> HIDE DEF S, T, f
<1>6. PICK n \in S, m \in S : n # m /\ f[n] = f[m]
  BY <1>4, <1>5, FS_PigeonHole
<1>7. n \in Letters /\ m \in Letters /\ turn[n] = turn[m]
  BY <1>6 DEF S, f
<1>8. QED
  BY <1>1, <1>6, <1>7 DEF Apart

\* A step that leaves the letters where they are, outside of the walk that moves
\* them or standing still in it.
LEMMA PoolRests ==
    ASSUME PoolInv, UNCHANGED <<phase, pool, head, letter>>, main' # "panic",
           main' \in {"create", "release"} => phase = 0, Waiting' => Waiting, Passed' = Passed
    PROVE  PoolInv'
<1>1. Letters' = Letters
  BY DEF Letters
<1>2. QED
  BY <1>1 DEF PoolInv

\* The walk begins.
LEMMA NonePassed == it = head => Letters \ Reached(pool.next, it) = {}
BY DEF Letters

\* There is room for a letter, and it is the only one of this period.
LEMMA PoolCreates ==
    ASSUME Roomy, GameInv, PoolInv, create_new_letter
    PROVE  PoolInv'
<1>1. ~Exhausted(pool)
  BY ExhaustedPool, PoolLasts DEF create_new_letter, Executes
<1>2. /\ main = "create" /\ main' = "release" /\ phase' = phase /\ phase = 0
      /\ head' = New(pool)
      /\ \E t \in Text : letter' = [letter EXCEPT ![New(pool)] = [x |-> 0, v |-> Fall, text |-> t]]
  BY <1>1 DEF create_new_letter, Executes, clock_vars, PoolInv
<1>3. /\ head' \notin Letters /\ Letters' = Letters \cup {head'}
      /\ \A n \in Letters : letter'[n] = letter[n]
  BY <1>2, CreateList
<1>4. letter'[head'].x = 0 /\ letter'[head'].v = Fall
  <2>1. Letters' \in SUBSET Node
    BY CreateList DEF ListInv, PoolIs
  <2>2. New(pool) \in Node /\ letter \in [Node -> Letter \cup {NULL}]
    BY <1>2, <1>3, <2>1 DEF GameInv, ListInv
  <2>3. QED
    BY <1>2, <2>2
<1>5. PICK turn \in [Letters -> Nat] : /\ Apart(turn, Letters, phase, Passed, letter)
                                       /\ Waiting => \A n \in Letters : turn[n] # 0
  BY DEF PoolInv
<1> DEFINE g == [n \in Letters' |-> IF n = head' THEN 0 ELSE turn[n]]
<1>6. g \in [Letters' -> Nat] /\ g[head'] = 0 /\ \A n \in Letters : g[n] = turn[n]
  BY <1>3, <1>5
<1> HIDE DEF g
<1>7. Passed = {} /\ Passed' = {} /\ Waiting /\ ~Waiting'
  BY <1>2 DEF Passed, Waiting
<1>8. ASSUME NEW n \in Letters', NEW m \in Letters', g[n] = g[m] PROVE n = m
  BY <1>3, <1>5, <1>6, <1>7, <1>8 DEF Apart
<1>9. ASSUME NEW n \in Letters'
      PROVE  Aged(letter'[n], Age(phase', g[n], n \in Passed'))
  <2>1. CASE n \in Letters
    BY <1>2, <1>3, <1>5, <1>6, <1>7, <2>1 DEF Apart
  <2>2. CASE n = head'
    <3>1. Age(phase', g[n], n \in Passed') = 0
      <4>1. Period * 0 = 0 /\ n \notin Passed'
        BY <1>7, Speeds
      <4>2. QED
        BY <1>2, <1>6, <2>2, <4>1 DEF Age
    <3>2. Fall * 0 = 0
      BY Speeds
    <3>3. Aged(letter'[n], 0)
      BY <1>4, <2>2, <3>2, Speeds DEF Aged
    <3>4. QED
      BY <3>1, <3>3
  <2>3. QED
    BY <1>3, <2>1, <2>2
<1>10. Apart(g, Letters', phase', Passed', letter')
  BY <1>8, <1>9 DEF Apart
<1>11. QED
  BY <1>2, <1>6, <1>7, <1>10 DEF PoolInv

\* The back link of an element leads to the one before it.
LEMMA BackIsPrevious ==
    ASSUME GameInv, NEW n \in Letters, NEW q \in Node, q = pool.prev[n]
    PROVE  pool.next[q] = n
<1>1. /\ IsList(pool.next, head, Letters) /\ BackLinks(pool, head, Letters)
      /\ Letters \in SUBSET Node /\ pool \in Pool
  BY DEF GameInv, ListInv, PoolIs
<1>2. pool.next \in [Node -> Node \cup {NULL}] /\ NULL \notin Node
  BY <1>1, PoolFields, NodeFacts
<1>3. n # head
  BY <1>1, <1>2 DEF BackLinks
<1>4. PICK r \in Letters : r # n /\ pool.next[r] = n
  BY <1>1, <1>2, <1>3, Predecessor
<1>5. q = r
  BY <1>1, <1>2, <1>4 DEF BackLinks
<1>6. QED
  BY <1>4, <1>5

\* What is not yet behind the walk, but for the letter it has just moved, is not
\* behind it afterwards.
LEMMA WalkGoesOn ==
    ASSUME GameInv, update_letter_pos
    PROVE  Reached(pool.next, it) \subseteq {it} \cup Reached(pool'.next, it')
<1>1. /\ it \in Letters /\ it \in Node /\ it' = pool.next[it] /\ pool \in Pool
      /\ PoolIs(pool, head, Letters) /\ BackLinks(pool, head, Letters)
  BY LetterFacts DEF update_letter_pos, Executes, GameInv, ListInv
<1>2. pool.next \in [Node -> Node \cup {NULL}] /\ NULL \notin Node
  BY <1>1, PoolFields, NodeFacts
<1> DEFINE R == Reached(pool'.next, it')
           B == {it} \cup R
<1>3. pool'.next \in [Node -> Node \cup {NULL}]
  BY MoveList, PoolFields DEF ListInv, PoolIs
<1>4. /\ R \subseteq Node
      /\ \A T \in SUBSET Node : Contains(pool'.next, it', T) => R \subseteq T
  BY <1>3 DEF Reached
<1>5. Contains(pool'.next, it', R)
  <2>1. it' \in Node \cup {NULL}
    BY <1>1, <1>2
  <2>2. Contains(pool'.next, it', Node)
    BY <1>3, <2>1 DEF Contains
  <2>3. it' \in R \cup {NULL}
    BY <1>3, <2>1 DEF Reached, Contains
  <2>4. ASSUME NEW q \in R PROVE pool'.next[q] \in R \cup {NULL}
    BY <1>3, <1>4 DEF Reached, Contains
  <2>5. QED
    BY <2>3, <2>4 DEF Contains
<1>6. ASSUME NEW q \in R, q # it PROVE pool.next[q] \in B \cup {NULL}
  <2>1. pool'.next[q] \in R \cup {NULL} /\ q \in Node
    BY <1>4, <1>5 DEF Contains
  <2>2. pool'.next[q] = pool.next[q] \/ pool.next[q] = it
    <3>1. CASE pool' = pool
      BY <3>1
    <3>2. CASE pool' = Freed(Removed(pool, it), it)
      <4>1. pool.prev \in [Node -> Node \cup {NULL}]
        BY <1>1, PoolFields
      <4>2. CASE q = pool.prev[it]
        <5>1. pool.next[q] = it
          BY <1>1, <2>1, <4>2, BackIsPrevious
        <5>2. QED
          BY <5>1
      <4>3. CASE q # pool.prev[it]
        BY <1>1, <1>2, <1>6, <2>1, <3>2, <4>3 DEF Freed, Removed, Pool
      <4>4. QED
        BY <4>2, <4>3
    <3>3. QED
      BY <3>1, <3>2 DEF update_letter_pos
  <2>3. QED
    BY <2>1, <2>2
<1>7. pool.next[it] \in B \cup {NULL}
  BY <1>1, <1>5 DEF Contains
<1>8. Contains(pool.next, it, B) /\ B \in SUBSET Node
  BY <1>1, <1>4, <1>6, <1>7 DEF Contains
<1>9. QED
  BY <1>2, <1>8 DEF Reached

\* A move and a tick make one older alike, and a period has Period ticks.
LEMMA AgeFacts ==
    ASSUME NEW now \in Nat, NEW t \in Nat
    PROVE  /\ Age(now, t, FALSE) \in Nat
           /\ Age(now, t, TRUE) = Age(now, t, FALSE) + 1
           /\ Age(now, t, TRUE) = Age(now + 1, t, FALSE)
           /\ Age(Period - 1, t, TRUE) = Age(0, t + 1, FALSE)
<1>1. Period * t \in Nat /\ Period * (t + 1) = Period * t + Period
  BY Speeds, SMT
<1>2. QED
  BY <1>1, Speeds DEF Age

\* What a letter that is older can be a younger one can be.
LEMMA Younger ==
    ASSUME NEW l, l.x \in Int, NEW a \in Nat, Aged(l, a + 1)
    PROVE  Aged(l, a)
<1> DEFINE F == Fall * Rise
<1>1. F \in Nat /\ Fall * a \in Nat /\ Fall * (a + 1) = Fall * a + Fall
  BY Speeds, SMT
<1>2. F * a \in Int /\ F * (a + 1) = F * a + F
  <2> HIDE DEF F
  <2>1. QED
    BY <1>1, SMT
<1>3. Fall * l.x \in Int /\ (Fall + Rise) * Bottom \in Int
  BY Speeds, SMT
<1>4. l.v > 0 => Fall * a <= l.x
  BY <1>1, Speeds DEF Aged
<1>5. l.v < 0 => F * a + Fall * l.x <= (Fall + Rise) * Bottom
  BY <1>1, <1>2, <1>3 DEF Aged
<1>6. QED
  BY <1>4, <1>5 DEF Aged

\* A letter that has perhaps moved is as old as one that has not.
LEMMA AgeUnmoved ==
    ASSUME NEW l, l.x \in Int, NEW now \in Nat, NEW t \in Nat, NEW b \in BOOLEAN, Aged(l, Age(now, t, b))
    PROVE  Aged(l, Age(now, t, FALSE))
<1>1. CASE b = TRUE
  <2>1. Age(now, t, FALSE) \in Nat /\ Age(now, t, b) = Age(now, t, FALSE) + 1
    BY <1>1, AgeFacts, Zenon
  <2>2. Aged(l, Age(now, t, FALSE) + 1)
    BY <2>1, Zenon
  <2>3. QED
    BY <2>1, <2>2, Younger
<1>2. CASE b = FALSE
  BY <1>2
<1>3. QED
  BY <1>1, <1>2

\* The walk moves a letter, or frees it.
LEMMA PoolMoves ==
    ASSUME GameInv, PoolInv, update_letter_pos
    PROVE  PoolInv'
<1>1. /\ main = "move" /\ main' = "move" /\ phase' = phase /\ it \in Letters /\ phase \in Nat
      /\ letter \in [Node -> Letter \cup {NULL}] /\ Letters \in SUBSET Node /\ NULL \notin Letter
      /\ \A n \in Letters : letter[n].x \in Int /\ letter[n].v \in {Fall, -Rise} /\ letter[n] \in Letter
  BY LetterFacts, TypingAssumption
     DEF update_letter_pos, Executes, clock_vars, GameInv, ListInv, ClockInv
<1>2. Letters' \subseteq Letters /\ \A n \in Letters' : letter'[n] # NULL
  BY MoveList DEF ListInv, PoolIs
<1>3. PICK turn \in [Letters -> Nat] : Apart(turn, Letters, phase, Passed, letter)
  BY DEF PoolInv
<1>4. \A n \in Letters' : n \in Passed' => n = it \/ n \in Passed
  <2>1. Passed = Letters \ Reached(pool.next, it) /\ Passed' = Letters' \ Reached(pool'.next, it')
    BY <1>1 DEF Passed
  <2>2. QED
    BY <1>2, <2>1, WalkGoesOn
<1> DEFINE g == [n \in Letters' |-> turn[n]]
<1>5. g \in [Letters' -> Nat] /\ \A n \in Letters' : g[n] = turn[n]
  BY <1>2, <1>3
<1> HIDE DEF g
<1>6. ASSUME NEW n \in Letters' PROVE Aged(letter'[n], Age(phase', g[n], n \in Passed'))
  <2>1. n \in Letters /\ n \in Node /\ turn[n] \in Nat /\ g[n] = turn[n]
    BY <1>1, <1>2, <1>3, <1>5
  <2>2. Aged(letter[n], Age(phase, turn[n], n \in Passed)) /\ letter[n].x \in Int
    BY <1>1, <1>3, <2>1 DEF Apart
  <2>3. Aged(letter[n], Age(phase, turn[n], FALSE))
    <3>1. (n \in Passed) \in BOOLEAN
      OBVIOUS
    <3>2. QED
      BY <1>1, <2>1, <2>2, <3>1, AgeUnmoved
  <2>4. CASE n # it
    <3>1. letter'[n] = letter[n]
      BY <1>1, <2>1, <2>4 DEF update_letter_pos
    <3>2. CASE n \in Passed'
      <4>1. n \in Passed
        BY <1>4, <2>4, <3>2
      <4>2. QED
        BY <1>1, <2>1, <2>2, <3>1, <3>2, <4>1 DEF Age
    <3>3. CASE n \notin Passed'
      BY <1>1, <2>1, <2>3, <3>1, <3>3 DEF Age
    <3>4. QED
      BY <3>2, <3>3
  <2>5. CASE n = it
    <3> DEFINE x == letter[it].x + letter[it].v
    <3>1. ~Gone(x)
      <4>1. ASSUME Gone(x) PROVE FALSE
        <5>1. letter'[it] = NULL
          BY <1>1, <4>1 DEF update_letter_pos
        <5>2. QED
          BY <1>2, <2>5, <5>1
      <4>2. QED
        BY <4>1
    <3>2. letter' = [letter EXCEPT ![it].x = x]
      BY <3>1 DEF update_letter_pos
    <3>3. letter'[it].x = x /\ letter'[it].v = letter[it].v
      BY <1>1, <2>1, <2>5, <3>2 DEF Letter
    <3>4. Aged(letter'[it], Age(phase, turn[n], FALSE) + 1)
      <4>1. Age(phase, turn[n], FALSE) \in Nat
        BY <1>1, <2>1, AgeFacts
      <4>2. /\ letter[it].x \in Int /\ letter[it].v \in {Fall, -Rise}
            /\ Aged(letter[it], Age(phase, turn[n], FALSE)) /\ ~Gone(letter'[it].x)
        BY <1>1, <2>3, <2>5, <3>1, <3>3
      <4>3. QED
        BY <3>3, <4>1, <4>2, MovedAge
    <3>5. letter'[it].x \in Int
      BY <1>1, <3>3, Speeds
    <3>6. Aged(letter'[it], Age(phase, turn[n], TRUE))
      BY <1>1, <2>1, <3>4, AgeFacts
    <3>7. Aged(letter'[it], Age(phase, turn[n], FALSE))
      BY <1>1, <2>1, <3>5, <3>6, AgeUnmoved
    <3>8. Age(phase, turn[n], n \in Passed') \in {Age(phase, turn[n], TRUE), Age(phase, turn[n], FALSE)}
      BY DEF Age
    <3>9. QED
      BY <1>1, <2>1, <2>5, <3>6, <3>7, <3>8
  <2>6. QED
    BY <2>4, <2>5
<1>7. ASSUME NEW n \in Letters', NEW m \in Letters', g[n] = g[m] PROVE n = m
  BY <1>2, <1>3, <1>5, <1>7 DEF Apart
<1>8. Apart(g, Letters', phase', Passed', letter')
  BY <1>6, <1>7 DEF Apart
<1>9. ~Waiting'
  BY <1>1 DEF Waiting
<1>10. QED
  BY <1>1, <1>5, <1>8, <1>9 DEF PoolInv

\* A hit changes nothing of when letters were made.
LEMMA PoolHits ==
    ASSUME GameInv, PoolInv, hit
    PROVE  PoolInv'
<1>1. /\ main = "scan" /\ main' = "keys" /\ phase' = phase /\ phase \in Nat
      /\ \A n \in Letters : letter[n].x \in Int /\ letter[n].v \in {Fall, -Rise}
  BY LetterFacts DEF hit, Executes, clock_vars, GameInv, ClockInv
<1>2. /\ Letters' = Letters /\ target \in Letters
      /\ letter'[target].x = letter[target].x /\ letter'[target].v = -Rise
      /\ \A n \in Letters \ {target} : letter'[n] = letter[n]
  BY HitList
<1>3. PICK turn \in [Letters -> Nat] : /\ Apart(turn, Letters, phase, Passed, letter)
                                       /\ Waiting => \A n \in Letters : turn[n] # 0
  BY DEF PoolInv
<1>4. Passed = {} /\ Passed' = {} /\ (Waiting' <=> Waiting)
  BY <1>1 DEF Passed, Waiting
<1>5. ASSUME NEW n \in Letters PROVE Aged(letter'[n], Age(phase, turn[n], n \in {}))
  <2>1. Aged(letter[n], Age(phase, turn[n], n \in {}))
    BY <1>3, <1>4 DEF Apart
  <2>2. CASE n # target
    BY <1>2, <2>1, <2>2
  <2>3. CASE n = target
    <3>1. Age(phase, turn[n], n \in {}) \in Nat
      <4>1. Age(phase, turn[n], n \in {}) = Age(phase, turn[n], FALSE)
        BY DEF Age
      <4>2. QED
        BY <1>1, <1>3, <4>1, AgeFacts
    <3>2. QED
      BY <1>1, <1>2, <2>1, <2>3, <3>1, HitAge
  <2>4. QED
    BY <2>2, <2>3
<1>6. Apart(turn, Letters', phase', Passed', letter')
  BY <1>1, <1>2, <1>3, <1>4, <1>5 DEF Apart
<1>7. QED
  BY <1>1, <1>2, <1>3, <1>4, <1>6 DEF PoolInv

\* Every letter has moved; after Period of these turns all are a period older.
LEMMA PoolAdvances ==
    ASSUME GameInv, PoolInv, advance
    PROVE  PoolInv'
<1>1. /\ main = "move" /\ main' = "loop" /\ it = NULL /\ phase' = (phase + 1) % Period
      /\ phase \in 0 .. Period - 1 /\ UNCHANGED <<pool, head, letter>> /\ Letters' = Letters
  BY DEF advance, Executes, list_vars, GameInv, ClockInv, Letters
<1>2. PICK turn \in [Letters -> Nat] : Apart(turn, Letters, phase, Passed, letter)
  BY DEF PoolInv
<1>3. Passed = Letters /\ Passed' = {}
  <2>1. Reached(pool.next, NULL) = {}
    BY EmptyList, ListIsReached
  <2>2. QED
    BY <1>1, <2>1 DEF Passed
<1>4. ASSUME NEW n \in Letters PROVE turn[n] \in Nat /\ Aged(letter[n], Age(phase, turn[n], TRUE))
  <2>1. Aged(letter[n], Age(phase, turn[n], n \in Passed)) /\ n \in Passed /\ turn[n] \in Nat
    BY <1>2, <1>3 DEF Apart
  <2>2. Age(phase, turn[n], n \in Passed) = Age(phase, turn[n], TRUE)
    BY <2>1 DEF Age
  <2>3. QED
    BY <2>1, <2>2
<1>5. CASE phase = Period - 1
  <2>1. phase' = 0
    BY <1>1, <1>5, Speeds
  <2> DEFINE g == [n \in Letters |-> turn[n] + 1]
  <2>2. g \in [Letters -> Nat] /\ \A n \in Letters : g[n] = turn[n] + 1 /\ g[n] # 0
    BY <1>4
  <2> HIDE DEF g
  <2>3. ASSUME NEW n \in Letters PROVE Aged(letter'[n], Age(phase', g[n], n \in Passed'))
    <3>1. Age(phase, turn[n], TRUE) = Age(0, g[n], FALSE)
      BY <1>4, <1>5, <2>2, AgeFacts
    <3>2. Age(phase', g[n], n \in Passed') = Age(0, g[n], FALSE)
      BY <1>3, <2>1 DEF Age
    <3>3. QED
      BY <1>1, <1>4, <3>1, <3>2
  <2>4. ASSUME NEW n \in Letters, NEW m \in Letters, g[n] = g[m] PROVE n = m
    <3>1. turn[n] = turn[m]
      BY <1>4, <2>2, <2>4
    <3>2. QED
      BY <1>2, <3>1 DEF Apart
  <2>5. Apart(g, Letters', phase', Passed', letter')
    BY <1>1, <2>3, <2>4 DEF Apart
  <2>6. QED
    BY <1>1, <2>2, <2>5 DEF PoolInv
<1>6. CASE phase # Period - 1
  <2>1. phase' = phase + 1 /\ phase \in Nat /\ phase' # 0
    BY <1>1, <1>6, Speeds
  <2>2. ASSUME NEW n \in Letters PROVE Aged(letter'[n], Age(phase', turn[n], n \in Passed'))
    <3>1. Age(phase, turn[n], TRUE) = Age(phase', turn[n], FALSE)
      BY <1>4, <2>1, AgeFacts
    <3>2. Age(phase', turn[n], n \in Passed') = Age(phase', turn[n], FALSE)
      BY <1>3 DEF Age
    <3>3. QED
      BY <1>1, <1>4, <3>1, <3>2
  <2>3. Apart(turn, Letters', phase', Passed', letter')
    BY <1>1, <1>2, <2>2 DEF Apart
  <2>4. ~Waiting'
    BY <2>1 DEF Waiting
  <2>5. QED
    BY <1>1, <2>3, <2>4 DEF PoolInv
<1>7. QED
  BY <1>5, <1>6

LEMMA PoolStep ==
    ASSUME Roomy, GameInv, PoolInv, [Next]_vars
    PROVE  PoolInv'
<1>1. main # "panic" /\ (main \in {"create", "release"} => phase = 0)
  BY DEF PoolInv
<1>2. CASE create_new_letter
  BY <1>2, PoolCreates
<1>3. CASE hit
  BY <1>3, PoolHits
<1>4. CASE update_letter_pos
  BY <1>4, PoolMoves
<1>5. CASE advance
  BY <1>5, PoolAdvances
<1>6. CASE loop
  <2>1. /\ main = "loop" /\ main' \in {"wait", "create", "move"} /\ UNCHANGED <<phase, pool, head, letter>>
        /\ main' = "create" => phase = 0
        /\ main' = "move" => it' = head
    BY <1>6 DEF loop, Executes, clock_vars, list_vars
  <2>2. Passed = {} /\ Passed' = {}
    BY <2>1 DEF Passed, Letters
  <2>3. QED
    BY <2>1, <2>2, PoolRests DEF Waiting
<1>7. CASE release_key
  <2>1. /\ main = "release" /\ main' = "move" /\ it' = head /\ UNCHANGED <<phase, pool, head, letter>>
    BY <1>7 DEF release_key, Executes, clock_vars, list_vars
  <2>2. Passed = {} /\ Passed' = {}
    BY <2>1 DEF Passed, Letters
  <2>3. QED
    BY <2>1, <2>2, PoolRests DEF Waiting
<1>8. CASE Boot \/ game_init \/ wait_intr \/ cli \/ compare \/ sti \/ update_keypress \/ scan \/ no_hit
  <2>1. /\ main \notin {"create", "release", "move", "panic"}
        /\ main' \notin {"create", "release", "move", "panic"}
        /\ UNCHANGED <<phase, pool, head, letter>>
    <3>1. CASE compare
      BY <3>1 DEF compare, Executes, list_vars, GameInv, ClockInv
    <3>2. CASE Boot \/ game_init \/ wait_intr \/ cli \/ sti
      BY <3>2 DEF Boot, game_init, wait_intr, cli, sti, Executes, game_vars, clock_vars, list_vars
    <3>3. CASE update_keypress \/ scan \/ no_hit
      BY <3>3 DEF update_keypress, scan, no_hit, Executes, game_vars, clock_vars, list_vars
    <3>4. QED
      BY <1>8, <3>1, <3>2, <3>3
  <2>2. Passed = {} /\ Passed' = {} /\ (Waiting' => Waiting)
    BY <2>1 DEF Passed, Waiting
  <2>3. QED
    BY <2>1, <2>2, PoolRests
<1>9. CASE Handle \/ Dispatch \/ ClockTicks \/ (\E c \in ScanCode : KeyEvent(c)) \/ UNCHANGED vars
  <2>1. UNCHANGED <<main, phase, pool, head, letter, it>>
    BY <1>9 DEF Handle, Dispatch, ClockTicks, KeyEvent, vars, game_vars, clock_vars, list_vars
  <2>2. Passed' = Passed /\ (Waiting' => Waiting)
    BY <2>1 DEF Passed, Waiting, Letters
  <2>3. QED
    BY <1>1, <2>1, <2>2, PoolRests
<1>10. QED
  BY <1>2, <1>3, <1>4, <1>5, <1>6, <1>7, <1>8, <1>9 DEF Next, Main

\* NeverPanics, when the pool outlasts a letter: with the game's speeds, screen and
\* 1000 elements it does, 33 * 1000 * 6 half pixels against 384 * 7.
THEOREM GameNeverPanics == ASSUME Roomy PROVE Spec => []NeverPanics
<1>1. Init => GameInv /\ PoolInv
  <2>1. SUFFICES ASSUME Init PROVE PoolInv
    BY GameStart
  <2>2. Letters = {}
    <3>1. Reached(EmptyPool.next, NULL) = {}
      BY InitialPool, PoolFacts
    <3>2. QED
      BY <2>1, <3>1 DEF Init, Letters
  <2> DEFINE none == [n \in Letters |-> 0]
  <2>3. none \in [Letters -> Nat] /\ \A n \in Letters : none[n] # 0
    BY <2>2
  <2>4. Apart(none, Letters, phase, Passed, letter)
    BY <2>2 DEF Apart
  <2>5. QED
    BY <2>1, <2>3, <2>4 DEF Init, PoolInv
<1>2. GameInv /\ PoolInv /\ [Next]_vars => GameInv' /\ PoolInv'
  BY GameStep, PoolStep
<1>3. GameInv /\ PoolInv => NeverPanics
  BY DEF PoolInv, NeverPanics
<1>4. QED
  BY <1>1, <1>2, <1>3, PTL DEF Spec

\* The game is a guest of Machine: its steps, the handlers' and the devices' do to
\* the interrupt state what the machine does, which is what Exec implements.
THEOREM GameRunsOnMachine == Spec => MachineSpec
<1>1. Init => PowerOn
  BY DEF Init
<1>2. [Next]_vars => [MachineNext]_machine_vars
  <2>1. ASSUME Main PROVE [MachineNext]_machine_vars
    BY <2>1 DEF Main, Boot, game_init, wait_intr, cli, compare, sti, update_keypress, scan, hit,
       no_hit, loop, create_new_letter, release_key, update_letter_pos, advance, Executes, Plain,
       MachineNext
  <2>2. ASSUME Handle PROVE [MachineNext]_machine_vars
    BY <2>2 DEF Handle, Step, Plain, MachineNext
  <2>3. ASSUME Dispatch \/ ClockTicks \/ \E c \in ScanCode : KeyEvent(c)
        PROVE  MachineNext
    BY <2>3 DEF Dispatch, ClockTicks, KeyEvent, MachineNext
  <2>4. UNCHANGED vars => UNCHANGED machine_vars
    BY DEF vars
  <2>5. QED
    BY <2>1, <2>2, <2>3, <2>4 DEF Next
<1>3. QED
  BY <1>1, <1>2, PTL DEF Spec, MachineSpec
=============================================================================
