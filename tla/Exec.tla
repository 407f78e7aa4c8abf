-------------------------------- MODULE Exec --------------------------------
(***************************************************************************)
(* The main loop of NEMU, exec in nemu/src/cpu/cpu.c, with the devices it  *)
(* polls (do_devices: timer.c, keyboard.c), the interrupts it delivers     *)
(* (do_intr, raise_intr) and the instructions of the guest that change the *)
(* interrupt state.  One thread; the outside world is the clock, the user  *)
(* at the window (SDL events) and the user at the monitor's prompt.        *)
(*                                                                         *)
(* The guest is arbitrary: any instruction may come next.  Of the debugger *)
(* (module Monitor) only what changes the course of the loop is here: with *)
(* Watching, a watchpoint may hit after any instruction.                   *)
(***************************************************************************)
EXTENDS PicSlot, Sequences

CONSTANTS ScanCode,      \* what keyboard_down and keyboard_up put in the buffer
          Quit,          \* the event SDL_QUIT
          NoKey,         \* scan_code_buf before any event
          InterruptGate, \* vectors whose IDT entry has type 14
          Watching,      \* whether the user sets watchpoints
          MaxInstr,      \* bound: what exec(-1) asks for, 2^32 - 1
          MaxEvents,     \* bound: SDL events waiting
          MaxFrames      \* bound: exception frames on the guest's stack

ASSUME ExecAssumption ==
    /\ Quit \notin ScanCode /\ Watching \in BOOLEAN
    /\ MaxInstr \in Nat \ {0} /\ MaxEvents \in Nat /\ MaxFrames \in Nat \ {0}
    /\ {IRQ_BASE + i : i \in {TIMER_IRQ, KEYBOARD_IRQ, IDE_IRQ}} \subseteq InterruptGate

VARIABLES nemu_state,   \* READY, RUN, BREAK or STOP
          at,           \* where exec is; "ui" at the prompt, "closed" after it
          n,            \* instructions left to execute
          is_nemu_hlt,
          eflags_IF,    \* cpu.eflags.IF
          frames,       \* exception frames, innermost first
          intr, intr_no, \* cpu.intr and i8259_intr_no
          due,          \* devices whose poll interval has elapsed
          sdl_queue,    \* events SDL has and the program has not polled
          keyboard_active, scan_code_buf,
          unread,       \* history: the guest has not read scan_code_buf
          paused        \* history: no instruction and no interrupt since a watchpoint hit

ui_vars  == <<nemu_state, n, paused>>
cpu_vars == <<is_nemu_hlt, eflags_IF, frames>>
pic_vars == <<intr, intr_no>>
dev_vars == <<due, sdl_queue, keyboard_active, scan_code_buf, unread>>
vars == <<at, ui_vars, cpu_vars, pic_vars, dev_vars>>

\* init_cpu, init_sdl; then ui_mainloop.
Init ==
    /\ nemu_state = "READY" /\ at = "ui" /\ n = 0 /\ paused = FALSE
    /\ is_nemu_hlt = FALSE /\ eflags_IF = 0 /\ frames = <<>>
    /\ intr = 0 /\ intr_no = I8259_NO_INTR
    /\ due = {} /\ sdl_queue = <<>>
    /\ keyboard_active = TRUE /\ scan_code_buf = NoKey /\ unread = FALSE

i8259_raise_intr(i) ==
    /\ intr_no' = Prioritised(intr_no, i)
    /\ intr' = 1

\* Variant for the mutation check: the gate's type is not looked at.
RaiseThroughTrapGate(v) ==
    /\ frames' = <<[vector |-> v, flag |-> eflags_IF]>> \o frames
    /\ UNCHANGED eflags_IF

\* raise_intr: push the frame; an interrupt gate clears IF, a trap gate does not.
raise_intr(v) ==
    /\ frames' = <<[vector |-> v, flag |-> eflags_IF]>> \o frames
    /\ eflags_IF' = IF v \in InterruptGate THEN 0 ELSE eflags_IF

-----------------------------------------------------------------------------
(* The world outside.                                                      *)

\* The clock: 10 ms of the timer, or 1 ms of the keyboard poll, have passed.
Elapse(d) ==
    /\ d \notin due /\ at # "closed"
    /\ due' = due \cup {d}
    /\ UNCHANGED <<at, ui_vars, cpu_vars, pic_vars, sdl_queue, keyboard_active,
                   scan_code_buf, unread>>

\* An event that comes while do_keyboard polls is as one that came before.
WindowEvent(e) ==
    /\ Len(sdl_queue) < MaxEvents /\ at \notin {"poll", "closed"}
    /\ sdl_queue' = Append(sdl_queue, e)
    /\ UNCHANGED <<at, ui_vars, cpu_vars, pic_vars, due, keyboard_active,
                   scan_code_buf, unread>>

\* The commands c and si N: enter exec(k).
Command(k) ==
    /\ at = "ui"
    /\ nemu_state' = "RUN"
    /\ n' = k
    /\ at' = "inst"
    /\ UNCHANGED <<paused, cpu_vars, pic_vars, dev_vars>>

-----------------------------------------------------------------------------
(* One turn of the loop: an instruction, unless the CPU is halted, then    *)
(* do_devices, then do_intr, then the loop's condition.                    *)

\* exec_inst and what follows it, for an instruction that leaves nemu_state at
\* s; each instruction is this with its effect.  A watchpoint that hits puts
\* READY over s and breaks out of the loop, past do_devices and do_intr.
Retire(s) ==
    /\ at = "inst" /\ ~is_nemu_hlt
    /\ n' = n - 1
    /\ \/ at' = "timer" /\ nemu_state' = s /\ paused' = FALSE
       \/ Watching /\ at' = "exit" /\ nemu_state' = "READY" /\ paused' = TRUE

\* Any instruction that leaves the interrupt state alone.
plain ==
    /\ Retire(nemu_state)
    /\ UNCHANGED <<cpu_vars, pic_vars, dev_vars>>

cli ==
    /\ Retire(nemu_state)
    /\ eflags_IF' = 0
    /\ UNCHANGED <<is_nemu_hlt, frames, pic_vars, dev_vars>>

\* The bound: a handler that enables interrupts may be interrupted.
sti ==
    /\ Retire(nemu_state) /\ Len(frames) < MaxFrames
    /\ eflags_IF' = 1
    /\ UNCHANGED <<is_nemu_hlt, frames, pic_vars, dev_vars>>

hlt ==
    /\ Retire(nemu_state)
    /\ is_nemu_hlt' = TRUE
    /\ UNCHANGED <<eflags_IF, frames, pic_vars, dev_vars>>

\* int 0x80: raise_sw_intr.
int_ ==
    /\ Retire(nemu_state) /\ Len(frames) + eflags_IF < MaxFrames
    /\ raise_intr(SYSCALL)
    /\ UNCHANGED <<is_nemu_hlt, pic_vars, dev_vars>>

iret ==
    /\ Retire(nemu_state) /\ frames # <<>>
    /\ eflags_IF' = Head(frames).flag
    /\ frames' = Tail(frames)
    /\ UNCHANGED <<is_nemu_hlt, pic_vars, dev_vars>>

\* in from port 0x60: handler_keyboard_data.
in_keyboard ==
    /\ Retire(nemu_state)
    /\ unread' = FALSE
    /\ UNCHANGED <<cpu_vars, pic_vars, due, sdl_queue, keyboard_active,
                   scan_code_buf>>

\* out of the read command to the disk: handler_ide answers at once.
out_read_disk ==
    /\ Retire(nemu_state)
    /\ i8259_raise_intr(IDE_IRQ)
    /\ UNCHANGED <<cpu_vars, dev_vars>>

nemu_trap ==
    /\ Retire("STOP")
    /\ UNCHANGED <<cpu_vars, pic_vars, dev_vars>>

\* int3 in the guest's own code: find_breakpoint finds nothing.
break_point ==
    /\ Retire("BREAK")
    /\ UNCHANGED <<cpu_vars, pic_vars, dev_vars>>

\* Variant for the mutation check: a halted CPU skips the rest of the turn.
HaltSkipsDevices ==
    /\ at = "inst" /\ is_nemu_hlt
    /\ UNCHANGED vars

Halted ==
    /\ at = "inst" /\ is_nemu_hlt
    /\ at' = "timer"
    /\ UNCHANGED <<ui_vars, cpu_vars, pic_vars, dev_vars>>

do_timer ==
    /\ at = "timer"
    /\ at' = "keyboard"
    /\ due' = due \ {"timer"}
    /\ IF "timer" \in due /\ nemu_state = "RUN"
       THEN i8259_raise_intr(TIMER_IRQ)
       ELSE UNCHANGED pic_vars
    /\ UNCHANGED <<ui_vars, cpu_vars, sdl_queue, keyboard_active, scan_code_buf, unread>>

do_keyboard ==
    /\ at = "keyboard"
    /\ IF keyboard_active /\ "keyboard" \in due
       THEN at' = "poll" /\ due' = due \ {"keyboard"}
       ELSE at' = "intr" /\ UNCHANGED due
    /\ UNCHANGED <<ui_vars, cpu_vars, pic_vars, sdl_queue, keyboard_active,
                   scan_code_buf, unread>>

\* keyboard_down and keyboard_up.
PollKey ==
    /\ at = "poll" /\ sdl_queue # <<>> /\ Head(sdl_queue) # Quit
    /\ sdl_queue' = Tail(sdl_queue)
    /\ scan_code_buf' = Head(sdl_queue)
    /\ unread' = TRUE
    /\ i8259_raise_intr(KEYBOARD_IRQ)
    /\ UNCHANGED <<at, ui_vars, cpu_vars, due, keyboard_active>>

\* The window is closed; the polling loop goes on.
PollQuit ==
    /\ at = "poll" /\ sdl_queue # <<>> /\ Head(sdl_queue) = Quit
    /\ sdl_queue' = Tail(sdl_queue)
    /\ nemu_state' = "STOP"
    /\ keyboard_active' = FALSE
    /\ UNCHANGED <<at, n, paused, cpu_vars, pic_vars, due, scan_code_buf, unread>>

PollEmpty ==
    /\ at = "poll" /\ sdl_queue = <<>>
    /\ at' = "intr"
    /\ UNCHANGED <<ui_vars, cpu_vars, pic_vars, dev_vars>>

\* Variant: i8259_ack_intr clears the slot and leaves cpu.intr up.
AckLeavesWire ==
    /\ at = "intr"
    /\ at' = IF n > 0 /\ nemu_state = "RUN" THEN "inst" ELSE "exit"
    /\ IF intr = 1 /\ eflags_IF = 1
       THEN /\ is_nemu_hlt' = FALSE
            /\ intr_no' = I8259_NO_INTR /\ UNCHANGED intr
            /\ raise_intr(intr_no)
            /\ paused' = FALSE
       ELSE UNCHANGED <<paused, cpu_vars, pic_vars>>
    /\ UNCHANGED <<nemu_state, n, dev_vars>>

do_intr ==
    /\ at = "intr"
    /\ at' = IF n > 0 /\ nemu_state = "RUN" THEN "inst" ELSE "exit"
    /\ IF intr = 1 /\ eflags_IF = 1
       THEN /\ is_nemu_hlt' = FALSE
            /\ intr' = 0 /\ intr_no' = I8259_NO_INTR
            /\ raise_intr(intr_no)
            /\ paused' = FALSE
       ELSE UNCHANGED <<paused, cpu_vars, pic_vars>>
    /\ UNCHANGED <<nemu_state, n, dev_vars>>

\* Variant: n == 0 is tested before NEMU_STOP.
ExitReadyFirst ==
    /\ at = "exit"
    /\ at' = IF nemu_state = "STOP" /\ n # 0 THEN "closed" ELSE "ui"
    /\ nemu_state' = IF n = 0 THEN "READY" ELSE nemu_state
    /\ UNCHANGED <<n, paused, cpu_vars, pic_vars, dev_vars>>

\* After the loop: on STOP the controller is destroyed and the monitor ends.
Exit ==
    /\ at = "exit"
    /\ at' = IF nemu_state = "STOP" THEN "closed" ELSE "ui"
    /\ nemu_state' = IF nemu_state # "STOP" /\ n = 0 THEN "READY" ELSE nemu_state
    /\ UNCHANGED <<n, paused, cpu_vars, pic_vars, dev_vars>>

Devices == do_timer \/ do_keyboard \/ PollKey \/ PollQuit \/ PollEmpty

Instruction ==
    \/ plain \/ cli \/ sti \/ hlt \/ int_ \/ iret
    \/ in_keyboard \/ out_read_disk \/ nemu_trap \/ break_point

Loop == Instruction \/ Halted \/ Devices \/ do_intr \/ Exit

World ==
    \/ \E d \in {"timer", "keyboard"} : Elapse(d)
    \/ \E e \in ScanCode \cup {Quit} : WindowEvent(e)
    \/ \E k \in 1 .. MaxInstr : Command(k)

Next == Loop \/ World

\* exec never waits and time passes; the users may do nothing.
Fairness == WF_vars(Loop) /\ WF_vars(Elapse("timer"))

Spec == Init /\ [][Next]_vars /\ Fairness

-----------------------------------------------------------------------------
(* Correctness.                                                            *)

Hardware == {IRQ_BASE + i : i \in {TIMER_IRQ, KEYBOARD_IRQ, IDE_IRQ}}

TypeOK ==
    /\ nemu_state \in {"READY", "RUN", "BREAK", "STOP"}
    /\ at \in {"ui", "inst", "timer", "keyboard", "poll", "intr", "exit", "closed"}
    /\ n \in 0 .. MaxInstr
    /\ is_nemu_hlt \in BOOLEAN /\ eflags_IF \in {0, 1}
    /\ frames \in Seq([vector : Hardware \cup {SYSCALL}, flag : {0, 1}])
    /\ intr \in {0, 1} /\ intr_no \in Hardware \cup {I8259_NO_INTR}
    /\ due \subseteq {"timer", "keyboard"}
    /\ sdl_queue \in Seq(ScanCode \cup {Quit})
    /\ keyboard_active \in BOOLEAN /\ unread \in BOOLEAN /\ paused \in BOOLEAN
    /\ scan_code_buf \in ScanCode \cup {NoKey}

\* What do_intr asserts, and its converse: the wire to the CPU is up exactly
\* when a vector is pending, and a handler's frame never carries "none".
WireIffPending ==
    /\ intr = 1 <=> intr_no # I8259_NO_INTR
    /\ \A i \in 1 .. Len(frames) : frames[i].vector # I8259_NO_INTR

\* The disk's request is never lost: whatever the timer, the keyboard, the
\* guest and the monitor do, it leaves the slot only into the guest's handler,
\* which is entered with interrupts off and wakes the CPU.
DiskRequestDelivered ==
    [][intr_no = IRQ_BASE + IDE_IRQ /\ intr_no' # intr_no =>
          /\ frames' = <<[vector |-> intr_no, flag |-> 1]>> \o frames
          /\ eflags_IF' = 0 /\ ~is_nemu_hlt']_vars

\* A guest halted with interrupts on, while exec runs, is woken: at the latest
\* the timer gets through to it, although hlt stops the instruction counter.
HaltedWakes ==
    (is_nemu_hlt /\ eflags_IF = 1 /\ nemu_state = "RUN")
        ~> (~is_nemu_hlt \/ nemu_state # "RUN")

\* Once an instruction has been retired with STOP, or the window was closed, the
\* monitor ends, whatever the rest of the turn brings (keys, an interrupt, the
\* last instruction of si N).  A trap on which a watchpoint hits is not retired
\* with STOP: the pause has replaced it (Retire; TrapLostOnlyToWatch in Monitor
\* says when).
StopEnds == nemu_state = "STOP" ~> at = "closed"

\* What a guest sees is Machine, with one exception.  Whatever the turns of
\* exec, the poll intervals and the monitor do, devices raise between
\* instructions, and no instruction runs while an interrupt that the CPU accepts
\* is pending, unless a watchpoint has paused exec past its do_intr: then one
\* instruction, the next, goes before it.  A user who sets none sees Machine.
SeenByGuest == INSTANCE Machine
ImplementsMachine ==
    /\ SeenByGuest!PowerOn
    /\ [][SeenByGuest!MachineNext \/ (paused /\ Instruction)]_(SeenByGuest!machine_vars)
=============================================================================
