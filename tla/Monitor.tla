------------------------------ MODULE Monitor -------------------------------
(***************************************************************************)
(* The debugger of NEMU: the pool of breakpoints and watchpoints           *)
(* (nemu/src/monitor/breakpoint.c), the commands that change it            *)
(* (nemu/src/monitor/ui.c), and the part of exec (nemu/src/cpu/cpu.c) that *)
(* hits, passes and re-arms breakpoints and scans watchpoints.             *)
(*                                                                         *)
(* A breakpoint is the byte INT3_CODE in the guest's code; the byte it     *)
(* hides is in ori_byte.  Code is one byte per instruction and the guest   *)
(* does not store into it.  Halts and devices are in module Exec; here an  *)
(* interrupt is a jump to a handler, whose frame may hit watched memory.   *)
(***************************************************************************)
EXTENDS Integers, Chain

CONSTANTS Addr,       \* addresses of code, an interval of integers
          Program,    \* [Addr -> Opcode], the code as loaded
          NR_BP,      \* size of the pool (32)
          Expr,       \* expressions to watch
          Value,      \* what they may evaluate to
          MaxInstr,   \* bound: what exec(-1) asks for, 2^32 - 1
          Duplicates  \* whether the user ever sets two breakpoints at one address

Opcode == {"op", "trap", "INT3"}

ASSUME MonitorAssumption ==
    /\ Addr \subseteq Int /\ Program \in [Addr -> Opcode]
    /\ \A a \in Addr : Program[a] # "op" => a + 1 \in Addr
    /\ NR_BP \in Nat \ {0} /\ MaxInstr \in Nat \ {0}
    /\ NULL \notin 0 .. NR_BP - 1
    /\ Duplicates \in BOOLEAN

NO == 0 .. NR_BP - 1

VARIABLES bp_list,    \* [NO -> BP]
          head, free_, \* first of the list in use, first of the free list
          mem,        \* [Addr -> Opcode]: the code in memory
          value,      \* [Expr -> Value]: what the watched expressions are now
          eip, nemu_state, n,
          hit_break_rerun,
          at          \* where exec is; "ui" at the prompt

pool_vars == <<bp_list, head, free_>>
exec_vars == <<eip, nemu_state, n, hit_break_rerun, at>>
vars == <<pool_vars, mem, value, exec_vars>>

BP == [in_use : BOOLEAN, type : {"", "BREAKPOINT", "WATCHPOINT"},
       addr : Addr \cup Expr \cup {NULL}, ori_byte : Opcode \cup {NULL},
       old_val : Value \cup {NULL}, next : NO \cup {NULL}]

\* A slot that is not in use; what it held before is never read again.
Blank(link) == [in_use |-> FALSE, type |-> "", addr |-> NULL, ori_byte |-> NULL,
                old_val |-> NULL, next |-> link]

-----------------------------------------------------------------------------
(* The linked lists.                                                       *)

next == [p \in NO |-> bp_list[p].next]

Nodes(p) == Reached(next, p)

Breakpoints == {p \in Nodes(head) : bp_list[p].type = "BREAKPOINT"}
Watchpoints == {p \in Nodes(head) : bp_list[p].type = "WATCHPOINT"}

\* Variant for the mutation check: the address is not stepped back to the INT3.
FindsFollowing(a) == FirstOf(next, {p \in Breakpoints : bp_list[p].addr = a + 1})

find_breakpoint(a) == FirstOf(next, {p \in Breakpoints : bp_list[p].addr = a})

\* Variant: the scan looks at the first node only.
ScansHead(v) ==
    IF head # NULL /\ bp_list[head].type = "WATCHPOINT"
       /\ v[bp_list[head].addr] # bp_list[head].old_val
    THEN head ELSE NULL

\* Variant: the scan stops at the first watchpoint, changed or not.
StopsAtFirst(v) == FirstOf(next, Watchpoints)

\* scan_watchpoint: the first watchpoint whose expression has changed to v[e].
scan_watchpoint(v) ==
    FirstOf(next, {p \in Watchpoints : v[bp_list[p].addr] # bp_list[p].old_val})

\* resume_breakpoints, on code memory m.
resume_breakpoints(m) ==
    [a \in Addr |-> IF \E p \in Breakpoints : bp_list[p].addr = a THEN "INT3" ELSE m[a]]

\* new_BP with what its callers write: the slot b, linked at the head.
new_BP(b) ==
    /\ bp_list' = [bp_list EXCEPT ![free_] = [b EXCEPT !.next = head]]
    /\ head' = free_
    /\ free_' = bp_list[free_].next

\* What free_BP writes back to code memory m.
Restored(m, p) ==
    IF bp_list[p].type = "BREAKPOINT" THEN [m EXCEPT ![bp_list[p].addr] = bp_list[p].ori_byte]
    ELSE m

-----------------------------------------------------------------------------
Init ==
    /\ bp_list = [i \in NO |-> Blank(IF i = NR_BP - 1 THEN NULL ELSE i + 1)]
    /\ head = NULL /\ free_ = 0
    /\ mem = Program
    /\ value \in [Expr -> Value]
    /\ eip \in Addr
    /\ nemu_state = "READY" /\ n = 0 /\ hit_break_rerun = FALSE /\ at = "ui"

(* Commands at the prompt.                                                 *)

\* Variant: INT3 is written before the byte is saved.
PatchesFirst(a) ==
    /\ at = "ui" /\ free_ # NULL
    /\ \A p \in Breakpoints : bp_list[p].addr # a
    /\ new_BP([in_use |-> TRUE, type |-> "BREAKPOINT", addr |-> a,
               ori_byte |-> "INT3", old_val |-> NULL, next |-> NULL])
    /\ mem' = [mem EXCEPT ![a] = "INT3"]
    /\ UNCHANGED <<value, exec_vars>>

\* cmd_b: set_breakpoint.  With the pool exhausted new_BP's assertion fails.
cmd_b(a) ==
    /\ at = "ui"
    /\ Duplicates \/ \A p \in Breakpoints : bp_list[p].addr # a
    /\ IF free_ = NULL
       THEN at' = "aborted" /\ UNCHANGED <<pool_vars, mem>>
       ELSE /\ new_BP([in_use |-> TRUE, type |-> "BREAKPOINT", addr |-> a,
                       ori_byte |-> mem[a], old_val |-> NULL, next |-> NULL])
            /\ mem' = [mem EXCEPT ![a] = "INT3"]
            /\ UNCHANGED at
    /\ UNCHANGED <<value, eip, nemu_state, n, hit_break_rerun>>

\* cmd_w: set_watchpoint.  An expression that does not parse takes no slot.
cmd_w(e) ==
    /\ at = "ui"
    /\ IF free_ = NULL
       THEN at' = "aborted" /\ UNCHANGED pool_vars
       ELSE /\ new_BP([in_use |-> TRUE, type |-> "WATCHPOINT", addr |-> e,
                       ori_byte |-> NULL, old_val |-> value[e], next |-> NULL])
            /\ UNCHANGED at
    /\ UNCHANGED <<mem, value, eip, nemu_state, n, hit_break_rerun>>

\* cmd_d N: delete_breakpoint unlinks the node after prev and frees it.
cmd_d(p) ==
    /\ at = "ui" /\ p \in Nodes(head)
    /\ LET prev == FirstOf(next, {q \in Nodes(head) : bp_list[q].next = p})
           rest == bp_list[p].next
           unlinked == IF prev = NULL THEN bp_list
                       ELSE [bp_list EXCEPT ![prev].next = rest]
       IN  /\ head' = IF prev = NULL THEN rest ELSE head
           /\ bp_list' = [unlinked EXCEPT ![p] = Blank(free_)]
    /\ free_' = p
    /\ mem' = Restored(mem, p)
    /\ UNCHANGED <<value, exec_vars>>

\* Variant: head is not reset.
KeepsHead ==
    /\ at = "ui" /\ head # NULL
    /\ bp_list' = [p \in NO |->
          IF p \notin Nodes(head) THEN bp_list[p]
          ELSE Blank(IF bp_list[p].next = NULL THEN free_ ELSE bp_list[p].next)]
    /\ free_' = head
    /\ mem' = Program
    /\ UNCHANGED <<head, value, exec_vars>>

\* cmd_d, answered y: the list is freed from its end, so that it is put whole
\* before the free list; of two breakpoints at one address the newer, which
\* is nearer the head, is written back last.
delete_all_breakpoint ==
    /\ at = "ui" /\ head # NULL
    /\ bp_list' = [p \in NO |->
          IF p \notin Nodes(head) THEN bp_list[p]
          ELSE Blank(IF bp_list[p].next = NULL THEN free_ ELSE bp_list[p].next)]
    /\ free_' = head
    /\ head' = NULL
    /\ mem' = [a \in Addr |->
          IF find_breakpoint(a) = NULL THEN mem[a]
          ELSE bp_list[find_breakpoint(a)].ori_byte]
    /\ UNCHANGED <<value, exec_vars>>

\* cmd_c and cmd_si: enter exec(k).
Command(k) ==
    /\ at = "ui"
    /\ hit_break_rerun' = (nemu_state = "BREAK")
    /\ nemu_state' = "RUN"
    /\ n' = k
    /\ at' = "inst"
    /\ UNCHANGED <<pool_vars, mem, value, eip>>

cmd_q == at = "ui" /\ at' = "closed"
         /\ UNCHANGED <<pool_vars, mem, value, eip, nemu_state, n, hit_break_rerun>>

-----------------------------------------------------------------------------
(* exec.                                                                   *)

\* What follows exec_inst when the instruction left state s, the next address
\* e and values v: re-arm after a stop, step back onto a breakpoint that was
\* hit and restore its byte, then scan the watchpoints.
AfterInst(s, e, v) ==
    LET m  == IF hit_break_rerun THEN resume_breakpoints(mem) ELSE mem
        bp == IF s = "BREAK" THEN find_breakpoint(e - 1) ELSE NULL
        wp == scan_watchpoint(v)
    IN  /\ n' = n - 1
        /\ hit_break_rerun' = FALSE
        /\ mem' = IF bp = NULL THEN m ELSE [m EXCEPT ![e - 1] = bp_list[bp].ori_byte]
        /\ eip' = IF bp = NULL THEN e ELSE e - 1
        /\ value' = v
        /\ IF wp = NULL
           THEN nemu_state' = s /\ at' = "intr" /\ UNCHANGED bp_list
           ELSE /\ nemu_state' = "READY" /\ at' = "exit"
                /\ bp_list' = [bp_list EXCEPT ![wp].old_val = v[bp_list[wp].addr]]
        /\ UNCHANGED <<head, free_>>

\* An ordinary instruction: computes, and goes on or jumps.
exec_op ==
    /\ at = "inst" /\ mem[eip] = "op"
    /\ \E e \in Addr, v \in [Expr -> Value] : AfterInst("RUN", e, v)

\* break_point: INT3_CODE, the monitor's or the guest's own BREAK_POINT.
exec_break_point ==
    /\ at = "inst" /\ mem[eip] = "INT3"
    /\ \E v \in [Expr -> Value] : AfterInst("BREAK", eip + 1, v)

\* Like any instruction it moves eip, which an expression may name.
exec_nemu_trap ==
    /\ at = "inst" /\ mem[eip] = "trap"
    /\ \E v \in [Expr -> Value] : AfterInst("STOP", eip + 1, v)

\* Variant: the loop runs while n >= 0.
LoopsOnceMore ==
    /\ at = "intr"
    /\ at' = IF n >= 0 /\ nemu_state = "RUN" THEN "inst" ELSE "exit"
    /\ UNCHANGED <<pool_vars, mem, value, eip, nemu_state, n, hit_break_rerun>>

\* do_intr: nothing pending, or an interrupt that moves eip to a handler.
do_intr ==
    /\ at = "intr"
    /\ at' = IF n > 0 /\ nemu_state = "RUN" THEN "inst" ELSE "exit"
    /\ \/ UNCHANGED <<eip, value>>
       \/ eip' \in Addr /\ value' \in [Expr -> Value]
    /\ UNCHANGED <<pool_vars, mem, nemu_state, n, hit_break_rerun>>

Exit ==
    /\ at = "exit"
    /\ at' = IF nemu_state = "STOP" THEN "closed" ELSE "ui"
    /\ nemu_state' = IF nemu_state # "STOP" /\ n = 0 THEN "READY" ELSE nemu_state
    /\ UNCHANGED <<pool_vars, mem, value, eip, n, hit_break_rerun>>

Next ==
    \/ \E a \in Addr : cmd_b(a)
    \/ \E e \in Expr : cmd_w(e)
    \/ \E p \in NO : cmd_d(p)
    \/ delete_all_breakpoint \/ cmd_q
    \/ \E k \in 1 .. MaxInstr : Command(k)
    \/ exec_op \/ exec_break_point \/ exec_nemu_trap \/ do_intr \/ Exit

Spec == Init /\ [][Next]_vars

-----------------------------------------------------------------------------
(* Correctness.                                                            *)

TypeOK ==
    /\ bp_list \in [NO -> BP]
    /\ head \in NO \cup {NULL} /\ free_ \in NO \cup {NULL}
    /\ mem \in [Addr -> Opcode] /\ value \in [Expr -> Value]
    /\ eip \in Addr \cup {a + 1 : a \in Addr}
    /\ nemu_state \in {"READY", "RUN", "BREAK", "STOP"}
    /\ n \in 0 .. MaxInstr /\ hit_break_rerun \in BOOLEAN
    /\ at \in {"ui", "inst", "intr", "exit", "closed", "aborted"}

\* After any sequence of b, w and d, the two lists end, share no node and
\* between them hold the whole pool, and in_use tells which list a node is on:
\* nothing leaks, so new_BP's assertion fails only with NR_BP in use, and the
\* assertions on in_use in free_BP, find_breakpoint and the rest never do.
PoolPartition ==
    /\ Ends(next, head) /\ Ends(next, free_)
    /\ Nodes(head) \cap Nodes(free_) = {}
    /\ Nodes(head) \cup Nodes(free_) = NO
    /\ \A p \in NO : bp_list[p].in_use <=> p \in Nodes(head)

\* With one breakpoint per address: code memory is the program but for the
\* INT3s of breakpoints in the list, each of which hides the program's byte,
\* so that the guest executes its own code and deleting restores it.
PatchIntegrity ==
    \A a \in Addr :
        LET bp == find_breakpoint(a)
        IN  IF bp = NULL THEN mem[a] = Program[a]
            ELSE mem[a] \in {Program[a], "INT3"} /\ bp_list[bp].ori_byte = Program[a]

Armed(a) == mem[a] = "INT3" /\ find_breakpoint(a) # NULL

\* A breakpoint that stays in the list loses its INT3 only by being hit, with
\* eip back on it: setting or deleting others, passing one that was hit, or an
\* interrupt in the same turn never disarms it.
DisarmedOnlyByHit ==
    [][\A a \in Addr :
          mem'[a] # "INT3" /\ Armed(a) /\ find_breakpoint(a)' # NULL
              => at = "inst" /\ eip = a /\ eip' = a]_vars

\* w EXPR pauses the program when the value of EXPR changes (ch_pa-2-1): exec
\* never goes on past an instruction while a watched value, of any node of the
\* list, differs from the one last reported.
WatchedChangePauses ==
    at = "intr" => \A p \in Nodes(head) :
        bp_list[p].type = "WATCHPOINT" => value[bp_list[p].addr] = bp_list[p].old_val

\* exec looks at the watchpoints after the instruction has set nemu_state, and
\* the pause it makes of a change replaces the STOP of a trap: the program goes
\* on past its trap when it is continued.  Only a change that is reported to
\* the user in that very turn (of an expression that names a register, or of
\* memory under an interrupt's frame in the turn before) loses the trap.
TrapLostOnlyToWatch ==
    [][at = "inst" /\ at' # "inst" /\ mem[eip] = "trap" /\ nemu_state' # "STOP" =>
          \E p \in Nodes(head) : /\ bp_list[p].type = "WATCHPOINT"
                                 /\ bp_list'[p].old_val = value'[bp_list[p].addr]
                                 /\ bp_list'[p].old_val # bp_list[p].old_val]_vars

\* b EXPR "sets a breakpoint at EXPR" (ch_pa-2-1_instruction.md:157) and info w
\* lists it as enabled: once an instruction has been passed without a stop,
\* every breakpoint in the list is armed.
EnabledIsArmed ==
    at = "intr" /\ nemu_state = "RUN" =>
        \A p \in Breakpoints : mem[bp_list[p].addr] = "INT3"

\* "found, then restore the original opcode" (cpu.c:115): hitting a breakpoint
\* puts the program's own byte back, so that continuing gets past it.
HitRestoresOpcode ==
    [][at = "inst" /\ at' # "inst" /\ mem[eip] = "INT3" /\ find_breakpoint(eip) # NULL
          => mem'[eip] = Program[eip] /\ eip' = eip]_vars
=============================================================================
