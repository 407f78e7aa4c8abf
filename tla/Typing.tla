------------------------------- MODULE Typing -------------------------------
(***************************************************************************)
(* The typing game (game/src/typing) on the emulated machine: letters fall *)
(* and are hit by pressing their keys.  The main loop shares the tick and  *)
(* the table of pressed keys with the interrupt handlers that game_init    *)
(* registers with the kernel; it keeps the letters in a linked list.       *)
(*                                                                         *)
(* tick and now only grow, by one: missed and left are what the main loop  *)
(* is behind by and what is left of its target, phase is now modulo the    *)
(* period of new letters.  The screen, its frame rate and the two scores   *)
(* are left out: nothing reads them back.  As a guest of Machine it runs   *)
(* with no watchpoint set in the monitor.                                  *)
(***************************************************************************)
EXTENDS Machine, LinkList

CONSTANTS Text,        \* the letters: a subset of the scan codes
          Period,      \* ticks between new letters, HZ / CHARACTER_PER_SECOND = 33
          Fall, Rise,  \* distance per tick, in half pixels: 1 and 6
          Bottom,      \* x + 7.9 <= SCR_HEIGHT, in half pixels: 384
          MaxMissed    \* bound: ticks a busy main loop falls behind by

Letter == [x : Int, v : {Fall, -Rise}, text : Text]

ASSUME TypingAssumption ==
    /\ Text \subseteq ScanCode /\ NoKey \notin ScanCode /\ NULL \notin Letter
    /\ {IRQ_BASE + TIMER_IRQ, IRQ_BASE + KEYBOARD_IRQ} \subseteq InterruptGate
    /\ Period \in Nat \ {0} /\ Fall \in Nat \ {0} /\ Rise \in Nat \ {0}
    /\ Bottom \in Nat /\ MaxMissed \in Nat

VARIABLES main,      \* where the main loop is
          handler,   \* what is left of the active interrupt handler
          hooked,    \* lines whose list in the kernel has the game's handler
          missed,    \* tick - now
          left,      \* target - now
          phase,     \* now % Period
          letter_pressed,
          key_code,  \* forgotten once press_key has used it: then it is only shown
          pool, head, \* the list of letters, newest first
          letter,    \* contents of the elements; a freed element has none
          it, target, \* the letter looked at; the best so far in update_keypress
          aimed      \* history: letters whose key went down while they were there

clock_vars == <<missed, left, phase>>
key_vars   == <<letter_pressed, key_code>>
list_vars  == <<pool, head, letter>>
game_vars  == <<clock_vars, key_vars, list_vars, it, target>>
vars == <<machine_vars, main, handler, hooked, game_vars, aimed>>

Letters == Reached(pool.next, head)

Init ==
    /\ PowerOn
    /\ main = "boot" /\ handler = <<>> /\ hooked = {}
    /\ missed = 0 /\ left = 0 /\ phase = 0
    /\ letter_pressed = [t \in Text |-> FALSE] /\ key_code = NoKey
    /\ pool = EmptyPool /\ head = NULL /\ letter = [n \in Node |-> NULL]
    /\ it = NULL /\ target = NULL /\ aimed = {}

-----------------------------------------------------------------------------
(* The main program.  Executes(l, op): it is at l, and op is done there.   *)

Executes(l, op) == handler = <<>> /\ main = l /\ op /\ UNCHANGED <<handler, hooked>>

\* The kernel has enabled interrupts; game_init registers the two handlers.
Boot ==
    /\ Executes("boot", Sti)
    /\ main' = "hook"
    /\ UNCHANGED <<game_vars, aimed>>

game_init ==
    /\ handler = <<>> /\ main = "hook" /\ Int80
    /\ handler' = <<"cli", "add_irq_handle", "sti", "iret">>
    /\ main' = IF hooked = {} THEN "hook" ELSE "wait"
    /\ UNCHANGED <<hooked, game_vars, aimed>>

wait_intr ==
    /\ Executes("wait", Hlt)
    /\ main' = "cli"
    /\ UNCHANGED <<game_vars, aimed>>

cli ==
    /\ Executes("cli", Cli)
    /\ main' = "compare"
    /\ UNCHANGED <<game_vars, aimed>>

\* now == tick, the assertion now < tick, and target = tick.
compare ==
    /\ Executes("compare", Plain)
    /\ main' = IF missed = 0 THEN "again" ELSE IF missed < 0 THEN "panic" ELSE "start"
    /\ left' = missed
    /\ UNCHANGED <<missed, phase, key_vars, list_vars, it, target, aimed>>

sti ==
    /\ Executes(main, Sti)
    /\ main \in {"again", "start"}
    /\ main' = IF main = "again" THEN "wait" ELSE "keys"
    /\ UNCHANGED <<game_vars, aimed>>

\* Variant for the mutation check: update_keypress does not disable interrupts.
Interruptible ==
    /\ Executes("keys", Plain)
    /\ main' = "scan"
    /\ it' = head /\ target' = NULL
    /\ UNCHANGED <<clock_vars, key_vars, list_vars, aimed>>

update_keypress ==
    /\ Executes("keys", Cli)
    /\ main' = "scan"
    /\ it' = head /\ target' = NULL
    /\ UNCHANGED <<clock_vars, key_vars, list_vars, aimed>>

Better(n) ==
    /\ letter[n].v > 0 /\ letter_pressed[letter[n].text]
    /\ target # NULL => letter[n].x > letter[target].x

scan ==
    /\ Executes("scan", Plain)
    /\ it # NULL
    /\ it' = pool.next[it]
    /\ target' = IF Better(it) THEN it ELSE target
    /\ UNCHANGED <<main, clock_vars, key_vars, list_vars, aimed>>

\* update_keypress returns true and is called again, interrupts still off.
hit ==
    /\ Executes("scan", Plain)
    /\ it = NULL /\ target # NULL
    /\ main' = "keys"
    /\ letter_pressed' = [letter_pressed EXCEPT ![letter[target].text] = FALSE]
    /\ letter' = [letter EXCEPT ![target].v = -Rise]
    /\ target' = NULL
    /\ UNCHANGED <<clock_vars, key_code, pool, head, it, aimed>>

\* Variant: interrupts stay off when nothing is hit.
ReturnsDisabled ==
    /\ Executes("scan", Plain)
    /\ it = NULL /\ target = NULL
    /\ main' = "loop"
    /\ UNCHANGED <<game_vars, aimed>>

no_hit ==
    /\ Executes("scan", Sti)
    /\ it = NULL /\ target = NULL
    /\ main' = "loop"
    /\ UNCHANGED <<game_vars, aimed>>

\* Variant: one tick too many.
OneTickMore == left < 0

NoTickLeft == left = 0

\* while (now < target), and what happens in this turn of it.
loop ==
    /\ Executes("loop", Plain)
    /\ main' = IF NoTickLeft THEN "wait" ELSE IF phase = 0 THEN "create" ELSE "move"
    /\ it' = IF ~NoTickLeft /\ phase # 0 THEN head ELSE NULL
    /\ UNCHANGED <<clock_vars, key_vars, list_vars, target, aimed>>

create_new_letter ==
    /\ Executes("create", Plain)
    /\ IF Exhausted(pool)
       THEN /\ main' = "panic"
            /\ UNCHANGED list_vars
       ELSE LET new == New(pool)
            IN  /\ main' = "release"
                /\ pool' = IF head = NULL THEN AfterNew(pool)
                           ELSE InsertedBefore(AfterNew(pool), head, new)
                /\ head' = new
                /\ \E t \in Text : letter' = [letter EXCEPT ![new] =
                                                 [x |-> 0, v |-> Fall, text |-> t]]
    /\ UNCHANGED <<clock_vars, key_vars, it, target, aimed>>

\* Variant: the key pressed for an earlier letter is left pressed.
KeepsKey ==
    /\ Executes("release", Plain)
    /\ main' = "move"
    /\ it' = head
    /\ UNCHANGED <<clock_vars, key_vars, list_vars, target, aimed>>

release_key ==
    /\ Executes("release", Plain)
    /\ main' = "move"
    /\ letter_pressed' = [letter_pressed EXCEPT ![letter[head].text] = FALSE]
    /\ it' = head
    /\ UNCHANGED <<clock_vars, key_code, list_vars, target, aimed>>

Gone(x) == x < 0 \/ x > Bottom

\* One letter of update_letter_pos.
update_letter_pos ==
    /\ Executes("move", Plain)
    /\ it # NULL
    /\ LET x == letter[it].x + letter[it].v
       IN  IF Gone(x)
           THEN /\ pool' = Freed(Removed(pool, it), it)
                /\ head' = IF it = head THEN pool.next[it] ELSE head
                /\ letter' = [letter EXCEPT ![it] = NULL]
                /\ aimed' = aimed \ {it}
           ELSE /\ letter' = [letter EXCEPT ![it].x = x]
                /\ UNCHANGED <<pool, head, aimed>>
    /\ it' = pool.next[it]
    /\ UNCHANGED <<main, clock_vars, key_vars, target>>

\* now++.
advance ==
    /\ Executes("move", Plain)
    /\ it = NULL
    /\ main' = "loop"
    /\ missed' = missed - 1 /\ left' = left - 1 /\ phase' = (phase + 1) % Period
    /\ UNCHANGED <<key_vars, list_vars, it, target, aimed>>

Main ==
    \/ Boot \/ game_init \/ wait_intr \/ cli \/ compare \/ sti
    \/ update_keypress \/ scan \/ hit \/ no_hit
    \/ loop \/ create_new_letter \/ release_key \/ update_letter_pos \/ advance

-----------------------------------------------------------------------------
(* Interrupts.                                                             *)

\* irq_handle calls what is registered for the line.
IrqHandler(v) ==
    IF v = IRQ_BASE + TIMER_IRQ /\ TIMER_IRQ \in hooked THEN <<"timer_event", "iret">>
    ELSE IF v = IRQ_BASE + KEYBOARD_IRQ /\ KEYBOARD_IRQ \in hooked
    THEN <<"in_byte", "press_key", "iret">>
    ELSE <<"iret">>

Dispatch ==
    /\ Interrupt
    /\ handler' = IrqHandler(intr_no) \o handler
    /\ UNCHANGED <<main, hooked, game_vars, aimed>>

\* The operation on the machine of each step of a handler.
Step(op) ==
    IF op = "cli" THEN Cli ELSE IF op = "sti" THEN Sti ELSE IF op = "iret" THEN Iret ELSE Plain

Handle ==
    /\ handler # <<>>
    /\ handler' = Tail(handler)
    /\ LET op == Head(handler)
       IN  /\ Step(op)
           /\ hooked' = IF op # "add_irq_handle" THEN hooked
                        ELSE hooked \cup {IF hooked = {} THEN TIMER_IRQ ELSE KEYBOARD_IRQ}
           /\ missed' = IF op = "timer_event" THEN missed + 1 ELSE missed
           /\ key_code' = IF op = "in_byte" THEN scan_code_buf
                          ELSE IF op = "press_key" THEN NoKey ELSE key_code
           /\ letter_pressed' = [t \in Text |->
                  letter_pressed[t] \/ (op = "press_key" /\ t = key_code)]
    /\ UNCHANGED <<main, left, phase, list_vars, it, target, aimed>>

\* The bound: a tick comes when the game sleeps or is at most MaxMissed behind.
ClockTicks ==
    /\ missed < MaxMissed \/ is_nemu_hlt
    /\ Tick
    /\ UNCHANGED <<main, handler, hooked, game_vars, aimed>>

KeyEvent(c) ==
    /\ Key(c)
    /\ aimed' = aimed \cup {n \in Letters : letter[n].text = c}
    /\ UNCHANGED <<main, handler, hooked, game_vars>>

Next == Main \/ Handle \/ Dispatch \/ ClockTicks \/ \E c \in ScanCode : KeyEvent(c)

\* The CPU never waits.  Interrupts leave the main program time: when it can go
\* on again and again, it does.  Keys, polled every millisecond, take the place of
\* the tick's request now and then, not for ever.
Fairness ==
    /\ WF_vars(Handle \/ Dispatch)
    /\ SF_vars(Main) /\ []<>(handler = <<>> /\ ~Accepts)
    /\ SF_vars(ClockTicks /\ eflags_IF = 1 /\ intr_no = I8259_NO_INTR)
    /\ SF_vars(Dispatch /\ intr_no = IRQ_BASE + TIMER_IRQ)

Spec == Init /\ [][Next]_vars /\ Fairness

-----------------------------------------------------------------------------
(* Correctness.                                                            *)

TypeOK ==
    /\ main \in {"boot", "hook", "wait", "cli", "compare", "again", "start", "keys", "scan",
                 "loop", "create", "release", "move", "panic"}
    /\ hooked \subseteq {TIMER_IRQ, KEYBOARD_IRQ}
    /\ missed \in Nat /\ left \in Nat /\ phase \in 0 .. Period - 1
    /\ letter_pressed \in [Text -> BOOLEAN] /\ key_code \in ScanCode \cup {NoKey}
    /\ pool \in Pool /\ head \in Link /\ letter \in [Node -> Letter \cup {NULL}]
    /\ it \in Link /\ target \in Link /\ aimed \subseteq Node

\* The list and the free list share the links: together they always hold every
\* element of the pool once, the last one free; back links mirror the links; and
\* the main loop looks only at elements on the list, which alone have contents.
ListIntact ==
    /\ \A n \in Letters : LET next == pool.next[n] IN next # NULL => pool.prev[next] = n
    /\ head # NULL => pool.prev[head] = NULL
    /\ Letters = {n \in Node : letter[n] # NULL}
    /\ {it, target} \subseteq Letters \cup {NULL}
    /\ Reached(pool.next, pool.free) = IF pool.free = NULL THEN {} ELSE Node \ Letters
    /\ SIZE \notin Letters

\* No assertion of the game fails: the loop is never ahead of the clock, and,
\* with letters as far apart as they are made and a hit letter faster than it
\* fell, the pool is never exhausted.
NeverPanics == main # "panic"

\* Although keys are pressed at any moment, a hit is what it looked like when
\* interrupts were turned off: the lowest falling letter whose key is down.  The
\* press is used up, so that it hits one letter.
HitsLowestPressed ==
    [][\A n \in Letters : letter[n].v > 0 /\ n \in Letters' /\ letter'[n].v < 0 =>
          /\ letter_pressed[letter[n].text] /\ ~letter_pressed'[letter[n].text]
          /\ \A m \in Letters : letter[m].v > 0 /\ letter_pressed[letter[m].text] =>
                                    letter[m].x <= letter[n].x]_vars

\* A letter is hit only by a press made while it was on the list: a key pressed
\* before, even one whose interrupt came late or whose code was read twice, does
\* not hit it ("clear past key presses").
HitsAimed ==
    [][\A n \in Letters : letter[n].v > 0 /\ n \in Letters' /\ letter'[n].v < 0 =>
          n \in aimed]_vars

\* Every tick is simulated: now never stops, although the loop halts on interrupts
\* it may have just missed, and turns them off around what it shares.
GameGoesOn == \A p \in 0 .. Period - 1 : []<>(phase = p)

Targets(t) == {n \in Letters : letter[n].v > 0 /\ letter[n].text = t}

\* update_keypress returns false only when nothing is left to hit: no key is down
\* for a falling letter, whatever was pressed while it searched.
EveryPressUsed ==
    [][main = "scan" /\ main' = "loop" =>
          \A t \in Text : letter_pressed[t] => Targets(t) = {}]_vars
=============================================================================
