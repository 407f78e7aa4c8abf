-------------------------------- MODULE Echo --------------------------------
(***************************************************************************)
(* The emulator running a real guest: the kernel's interrupt entry         *)
(* (kernel/src/irq, do_syscall) and the test program echo                  *)
(* (testcase/src/echo.c), which registers a keyboard handler and halts for *)
(* ever; the handler reads the scan code and prints it if it is a letter.  *)
(* The emulator is module Exec; what echo's code allows restricts which    *)
(* instruction comes next.                                                 *)
(***************************************************************************)
EXTENDS Exec

CONSTANT Letter   \* scan codes translate_key knows: presses of a letter

ASSUME EchoAssumption == Letter \subseteq ScanCode

VARIABLES code,       \* what is left to execute, per frame, innermost first
          registered, \* handles[1] holds keyboard_event_handler
          key_pressed \* local of keyboard_event_handler

guest_vars == <<code, registered, key_pressed>>
echo_vars == <<vars, guest_vars>>

Timer    == IRQ_BASE + TIMER_IRQ
Keyboard == IRQ_BASE + KEYBOARD_IRQ

\* init_idt enables interrupts; main registers and then halts in a loop.
Main == <<"sti", "register", "hlt">>

\* asm_do_irq with irq_handle: the routines of the line, one by one.
\* ide_writeback finds no dirty sector: echo never writes to the disk.
Routines(v) ==
    IF v = Keyboard /\ registered THEN <<"read", "print", "iret">>
    ELSE <<"plain", "iret">>

\* do_syscall, case 0 and SYS_write.
SyscallAddIrqHandle == <<"cli", "add_irq_handle", "sti", "iret">>
SyscallWrite == <<"plain", "iret">>

EchoInit ==
    /\ Init
    /\ code = <<Main>>
    /\ registered = FALSE
    /\ key_pressed = NoKey

Upcoming == Head(Head(code))
Onward == <<Tail(Head(code))>> \o Tail(code)
Advance == code' = Onward

\* An instruction of echo that only moves on: the emulator does op.
Runs(name, op) ==
    /\ Upcoming = name /\ op
    /\ Advance
    /\ UNCHANGED <<registered, key_pressed>>

\* while (1) hlt
EchoHalt ==
    /\ Upcoming = "hlt" /\ hlt
    /\ UNCHANGED guest_vars

EchoReturn ==
    /\ Upcoming = "iret" /\ iret
    /\ code' = Tail(code)
    /\ UNCHANGED <<registered, key_pressed>>

EchoRegister ==
    /\ Upcoming = "register" /\ int_
    /\ code' = <<SyscallAddIrqHandle>> \o Onward
    /\ UNCHANGED <<registered, key_pressed>>

EchoAddHandle ==
    /\ Upcoming = "add_irq_handle" /\ plain
    /\ Advance
    /\ registered' = TRUE
    /\ UNCHANGED key_pressed

EchoRead ==
    /\ Upcoming = "read" /\ in_keyboard
    /\ Advance
    /\ key_pressed' = scan_code_buf
    /\ UNCHANGED registered

\* printc of a letter is a system call; of anything else, nothing.
EchoPrint ==
    /\ Upcoming = "print"
    /\ IF key_pressed \in Letter
       THEN int_ /\ code' = <<SyscallWrite>> \o Onward
       ELSE plain /\ Advance
    /\ UNCHANGED <<registered, key_pressed>>

EchoDispatch ==
    /\ do_intr
    /\ code' = IF frames' = frames THEN code ELSE <<Routines(intr_no)>> \o code
    /\ UNCHANGED <<registered, key_pressed>>

EchoInstruction ==
    \/ Runs("plain", plain) \/ Runs("sti", sti) \/ Runs("cli", cli)
    \/ EchoHalt \/ EchoReturn \/ EchoRegister \/ EchoAddHandle \/ EchoRead \/ EchoPrint

EchoLoop ==
    \/ EchoInstruction \/ EchoDispatch
    \/ (Halted \/ Devices \/ Exit) /\ UNCHANGED guest_vars

EchoNext ==
    \/ EchoLoop
    \/ World /\ UNCHANGED guest_vars

\* As in Exec; and the user at the prompt lets the program go on.
EchoFairness ==
    /\ WF_echo_vars(EchoLoop) /\ WF_echo_vars(Elapse("timer") /\ UNCHANGED guest_vars)
    /\ WF_echo_vars(World /\ at = "ui" /\ at' = "inst" /\ UNCHANGED guest_vars)

EchoSpec == EchoInit /\ [][EchoNext]_echo_vars /\ EchoFairness

-----------------------------------------------------------------------------
(* Correctness.                                                            *)

\* The interrupt gates of idt.c keep the kernel's stack small: at most one
\* hardware handler is ever active, interrupts are off in it and in the system
\* call it makes, and no more than three frames are ever on the stack.
HandlersDoNotNest ==
    /\ \A i, j \in 1 .. Len(frames) :
          frames[i].vector \in Hardware =>
              eflags_IF = 0 /\ (frames[j].vector \in Hardware => i = j)
    /\ Len(frames) <= 3

\* A keyboard request that is pending once the handler is registered is served:
\* the scan code then in the buffer is read, timer ticks, halts and the end of
\* a command notwithstanding, unless the machine is stopped.
LastKeyIsRead ==
    registered /\ intr_no = Keyboard ~> ~unread \/ at = "closed"

TakesKey == at = "poll" /\ sdl_queue # <<>> /\ Head(sdl_queue) # Quit
            /\ sdl_queue' = Tail(sdl_queue)

\* doc/guide/ch/ch_pa-4-2-device_io.md:70 says that echo registers for keyboard
\* events and decides on each one whether to print it: with the handler
\* registered, no event takes the buffer before the one in it has been read.
EveryKeyIsRead == [][registered /\ TakesKey => ~unread]_echo_vars
=============================================================================
