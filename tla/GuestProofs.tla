---------------------------- MODULE GuestProofs ----------------------------
(***************************************************************************)
(* The main loop of NEMU with any guest, and with the two guests modelled: *)
(* echo and the kernel's disk driver.                                      *)
(*                                                                         *)
(* Any guest: besides the types and the wire to the CPU, the inductive     *)
(* invariant says that a turn begins only with instructions left, so that  *)
(* n never goes below 0.                                                   *)
(*                                                                         *)
(* echo: what is left to execute of each frame fits the vector that pushed *)
(* it (EchoStack): a handler's frame lies on main or on main's one system  *)
(* call, and nothing but the system call of printc lies on a handler's.    *)
(*                                                                         *)
(* The driver implements a block device, for any disk, any geometry of     *)
(* the sector cache and any interrupts: a used slot holds its sector, but  *)
(* for the slot being filled (SectorsHoldTheDisk); the words already taken *)
(* into that one are those of the sector asked for, and the drive stands   *)
(* at the next (FillInProgress).  That the driver sleeps only after a      *)
(* watchpoint's pause rests on the main loop as well, whose invariant      *)
(* carries over (DiskStepsAreExecSteps).                                   *)
(***************************************************************************)
EXTENDS Disk, Echo, TLAPS

Budgeted == at = "inst" => n > 0

WatchedPauses == paused => Watching

IInv == TypeOK /\ Budgeted /\ WireIffPending /\ WatchedPauses

Frame == [vector : Hardware \cup {SYSCALL}, flag : {0, 1}]

\* The vectors are numbers, none of them I8259_NO_INTR.
LEMMA HardwareVectors == Hardware = {32, 33, 46}
BY DEF Hardware, IRQ_BASE, TIMER_IRQ, KEYBOARD_IRQ, IDE_IRQ

\* A raise leaves a vector pending and the wire up.
LEMMA RaiseKeeps ==
    ASSUME IInv, NEW k \in {TIMER_IRQ, KEYBOARD_IRQ, IDE_IRQ}, i8259_raise_intr(k)
    PROVE  intr_no' \in Hardware /\ intr' = 1
BY HardwareVectors DEF IInv, TypeOK, i8259_raise_intr, Prioritised, IRQ_BASE, I8259_NO_INTR,
   TIMER_IRQ, KEYBOARD_IRQ, IDE_IRQ

\* raise_intr of a real vector pushes a well-formed frame.
LEMMA DispatchKeeps ==
    ASSUME IInv, NEW v \in Hardware \cup {SYSCALL}, raise_intr(v)
    PROVE  /\ frames' \in Seq(Frame) /\ eflags_IF' \in {0, 1}
           /\ \A k \in 1 .. Len(frames') : frames'[k].vector # I8259_NO_INTR
<1> DEFINE f == [vector |-> v, flag |-> eflags_IF]
<1>1. f \in Frame /\ <<f>> \in Seq(Frame) /\ frames \in Seq(Frame)
  BY DEF IInv, TypeOK, Frame
<1>2. frames' = <<f>> \o frames
  BY DEF raise_intr
<1>3. frames' \in Seq(Frame)
  BY <1>1, <1>2
<1>4. eflags_IF' \in {0, 1}
  BY DEF raise_intr, IInv, TypeOK
<1>5. ASSUME NEW s \in Seq(Frame), NEW k \in 1 .. Len(s) PROVE s[k].vector # I8259_NO_INTR
  <2>1. s[k] \in Frame
    OBVIOUS
  <2>2. QED
    BY <2>1, HardwareVectors DEF Frame, SYSCALL, I8259_NO_INTR
<1>6. QED
  BY <1>3, <1>4, <1>5

LEMMA InitInv == Init => IInv
<1> SUFFICES ASSUME Init PROVE IInv
  OBVIOUS
<1>1. frames = <<>> /\ sdl_queue = <<>> /\ Len(frames) = 0
  BY DEF Init
<1>2. frames \in Seq([vector : Hardware \cup {SYSCALL}, flag : {0, 1}])
  BY <1>1
<1>3. sdl_queue \in Seq(ScanCode \cup {Quit})
  BY <1>1
<1>4. /\ is_nemu_hlt \in BOOLEAN /\ keyboard_active \in BOOLEAN /\ unread \in BOOLEAN
      /\ paused \in BOOLEAN
  BY Zenon DEF Init
<1>5. TypeOK
  BY <1>2, <1>3, <1>4, ExecAssumption DEF Init, TypeOK
<1>6. WireIffPending
  BY <1>1 DEF Init, WireIffPending
<1>7. QED
  BY <1>5, <1>6 DEF Init, IInv, Budgeted, WatchedPauses

\* A pause is a watchpoint's.
LEMMA PausesKeep == IInv /\ [Next]_vars => paused' \in BOOLEAN /\ WatchedPauses'
<1> SUFFICES ASSUME IInv, [Next]_vars PROVE paused' \in BOOLEAN /\ (paused' => Watching)
  BY DEF WatchedPauses
<1>1. paused \in BOOLEAN /\ (paused => Watching)
  BY Zenon DEF IInv, TypeOK, WatchedPauses
<1>2. ASSUME NEW s, Retire(s) PROVE paused' \in BOOLEAN /\ (paused' => Watching)
  BY <1>2, Zenon DEF Retire
<1>3. CASE Instruction
  BY <1>2, <1>3, Zenon DEF Instruction, plain, cli, sti, hlt, int_, iret, in_keyboard,
     out_read_disk, nemu_trap, break_point
<1>4. CASE do_intr
  BY <1>1, <1>4, Zenon DEF do_intr
<1>5. CASE UNCHANGED paused
  BY <1>1, <1>5, Zenon
<1>6. Halted \/ Devices \/ Exit \/ World \/ UNCHANGED vars => UNCHANGED paused
  BY DEF Halted, Devices, do_timer, do_keyboard, PollKey, PollQuit, PollEmpty, Exit, World, Elapse,
     WindowEvent, Command, vars, ui_vars
<1>7. QED
  BY <1>3, <1>4, <1>5, <1>6 DEF Next, Loop

LEMMA NextInv == IInv /\ [Next]_vars => IInv'
<1> SUFFICES ASSUME IInv, [Next]_vars PROVE IInv'
  OBVIOUS
<1>0. paused' \in BOOLEAN /\ WatchedPauses'
  BY PausesKeep
<1> USE <1>0, ExecAssumption DEF IInv, TypeOK, Budgeted, WireIffPending, ui_vars, cpu_vars, pic_vars, dev_vars,
        Retire
<1>1. CASE plain
  BY <1>1 DEF plain
<1>2. CASE cli
  BY <1>2 DEF cli
<1>3. CASE sti
  BY <1>3 DEF sti
<1>4. CASE hlt
  BY <1>4 DEF hlt
<1>5. CASE int_
  <2>1. raise_intr(SYSCALL) /\ SYSCALL \in Hardware \cup {SYSCALL}
    BY <1>5 DEF int_
  <2>2. /\ frames' \in Seq(Frame) /\ eflags_IF' \in {0, 1}
        /\ \A k \in 1 .. Len(frames') : frames'[k].vector # I8259_NO_INTR
    BY <2>1, DispatchKeeps
  <2>3. QED
    BY <1>5, <2>2 DEF int_, Frame
<1>6. CASE iret
  <2>1. /\ frames \in Seq(Frame) /\ frames # <<>>
        /\ frames' = Tail(frames) /\ eflags_IF' = Head(frames).flag
    BY <1>6 DEF iret, Frame
  <2>2. frames' \in Seq(Frame) /\ eflags_IF' \in {0, 1}
    <3>1. Head(frames) \in Frame /\ Tail(frames) \in Seq(Frame)
      BY <2>1
    <3>2. QED
      BY <2>1, <3>1 DEF Frame
  <2>3. \A k \in 1 .. Len(frames') : frames'[k].vector # I8259_NO_INTR
    BY <2>1
  <2>4. QED
    BY <1>6, <2>2, <2>3 DEF iret, Frame
<1>7. CASE in_keyboard
  <2>1. unread' \in BOOLEAN
    BY <1>7, Zenon DEF in_keyboard
  <2>2. QED
    BY <1>7, <2>1 DEF in_keyboard
<1>8. CASE out_read_disk
  BY <1>8, RaiseKeeps, HardwareVectors DEF out_read_disk, I8259_NO_INTR
<1>9. CASE nemu_trap
  BY <1>9 DEF nemu_trap
<1>10. CASE break_point
  BY <1>10 DEF break_point
<1>11. CASE Halted
  BY <1>11 DEF Halted
<1>12. CASE do_timer
  BY <1>12, RaiseKeeps, HardwareVectors DEF do_timer, I8259_NO_INTR
<1>13. CASE do_keyboard
  BY <1>13 DEF do_keyboard
<1>14. CASE PollKey
  BY <1>14, RaiseKeeps, HardwareVectors DEF PollKey, I8259_NO_INTR
<1>15. CASE PollQuit
  <2>1. keyboard_active' \in BOOLEAN
    BY <1>15, Zenon DEF PollQuit
  <2>2. QED
    BY <1>15, <2>1 DEF PollQuit
<1>16. CASE PollEmpty
  BY <1>16 DEF PollEmpty
<1>17. CASE do_intr
  <2>1. CASE intr = 1 /\ eflags_IF = 1
    <3>1. intr_no \in Hardware
      BY <2>1
    <3>2. raise_intr(intr_no) /\ intr' = 0 /\ intr_no' = I8259_NO_INTR /\ is_nemu_hlt' = FALSE
      BY <1>17, <2>1 DEF do_intr
    <3>3. /\ frames' \in Seq(Frame) /\ eflags_IF' \in {0, 1}
          /\ \A k \in 1 .. Len(frames') : frames'[k].vector # I8259_NO_INTR
      BY <3>1, <3>2, DispatchKeeps
    <3>4. is_nemu_hlt' \in BOOLEAN
      BY <3>2, Zenon
    <3>5. QED
      BY <1>17, <3>2, <3>3, <3>4 DEF do_intr, Frame
  <2>2. CASE ~(intr = 1 /\ eflags_IF = 1)
    BY <1>17, <2>2 DEF do_intr
  <2>3. QED
    BY <2>1, <2>2
<1>18. CASE Exit
  BY <1>18 DEF Exit
<1>19. ASSUME NEW d \in {"timer", "keyboard"}, Elapse(d) PROVE IInv'
  BY <1>19 DEF Elapse
<1>20. ASSUME NEW e \in ScanCode \cup {Quit}, WindowEvent(e) PROVE IInv'
  BY <1>20 DEF WindowEvent
<1>21. ASSUME NEW k \in 1 .. MaxInstr, Command(k) PROVE IInv'
  BY <1>21 DEF Command
<1>22. CASE UNCHANGED vars
  BY <1>22 DEF vars
<1>23. QED
  BY <1>1, <1>2, <1>3, <1>4, <1>5, <1>6, <1>7, <1>8, <1>9, <1>10, <1>11, <1>12, <1>13,
     <1>14, <1>15, <1>16, <1>17, <1>18, <1>19, <1>20, <1>21, <1>22
     DEF Next, Loop, Instruction, Devices, World

-----------------------------------------------------------------------------
\* No raise displaces the disk's request.
LEMMA RaiseKeepsDisk ==
    ASSUME intr_no = IRQ_BASE + IDE_IRQ, NEW k \in {TIMER_IRQ, KEYBOARD_IRQ, IDE_IRQ},
           i8259_raise_intr(k)
    PROVE  intr_no' = intr_no
BY DEF i8259_raise_intr, Prioritised, IRQ_BASE, I8259_NO_INTR, TIMER_IRQ, KEYBOARD_IRQ, IDE_IRQ

\* A step that takes the disk's request out of the slot dispatches it.
LEMMA DiskStep ==
    ASSUME IInv, Next, intr_no = IRQ_BASE + IDE_IRQ, intr_no' # intr_no
    PROVE  /\ frames' = <<[vector |-> intr_no, flag |-> 1]>> \o frames
           /\ eflags_IF' = 0 /\ ~is_nemu_hlt'
<1>1. CASE do_intr
  <2>1. intr = 1 /\ eflags_IF = 1 /\ raise_intr(intr_no) /\ is_nemu_hlt' = FALSE
    BY <1>1 DEF do_intr, pic_vars
  <2>2. intr_no \in InterruptGate
    BY ExecAssumption
  <2>3. QED
    BY <2>1, <2>2 DEF raise_intr
<1>2. CASE out_read_disk
  BY <1>2, RaiseKeepsDisk DEF out_read_disk
<1>3. CASE do_timer
  BY <1>3, RaiseKeepsDisk DEF do_timer, pic_vars
<1>4. CASE PollKey
  BY <1>4, RaiseKeepsDisk DEF PollKey
<1>5. CASE plain \/ cli \/ sti \/ hlt \/ int_ \/ iret \/ in_keyboard \/ nemu_trap \/ break_point
  BY <1>5 DEF plain, cli, sti, hlt, int_, iret, in_keyboard, nemu_trap, break_point, pic_vars
<1>6. CASE Halted \/ do_keyboard \/ PollQuit \/ PollEmpty \/ Exit
  BY <1>6 DEF Halted, do_keyboard, PollQuit, PollEmpty, Exit, pic_vars
<1>7. CASE World
  BY <1>7 DEF World, Elapse, WindowEvent, Command, pic_vars
<1>8. QED
  BY <1>1, <1>2, <1>3, <1>4, <1>5, <1>6, <1>7 DEF Next, Loop, Instruction, Devices

-----------------------------------------------------------------------------
\* IInv is an invariant of the main loop.
THEOREM ExecInvariant == Spec => []IInv
BY InitInv, NextInv, PTL DEF Spec

\* Type correctness; in particular the instruction counter never wraps.
THEOREM ExecTypeCorrect == Spec => []TypeOK
BY ExecInvariant, PTL DEF IInv

\* The wire to the CPU is up exactly when a vector is pending.
THEOREM ExecWireIffPending == Spec => []WireIffPending
BY ExecInvariant, PTL DEF IInv

\* The disk's request leaves the slot only into the guest's handler.
THEOREM ExecDeliversDiskRequest == Spec => DiskRequestDelivered
<1>1. IInv /\ [Next]_vars =>
        [intr_no = IRQ_BASE + IDE_IRQ /\ intr_no' # intr_no =>
          /\ frames' = <<[vector |-> intr_no, flag |-> 1]>> \o frames
          /\ eflags_IF' = 0 /\ ~is_nemu_hlt']_vars
  BY DiskStep
<1>2. QED
  BY <1>1, ExecInvariant, PTL DEF Spec, DiskRequestDelivered

-----------------------------------------------------------------------------
(* Exec implements Machine.  Between two turns of the loop no interrupt is *)
(* left that the CPU accepts, because do_intr has just dispatched it; but  *)
(* for a turn that a watchpoint broke off before its do_intr.              *)

NoneAccepted == at \in {"ui", "inst", "exit"} /\ ~paused => ~(intr = 1 /\ eflags_IF = 1)

LEMMA NoneAcceptedNext == IInv /\ NoneAccepted /\ [Next]_vars => NoneAccepted'
<1> SUFFICES ASSUME IInv, NoneAccepted, [Next]_vars PROVE NoneAccepted'
  OBVIOUS
<1> USE DEF NoneAccepted, ui_vars, cpu_vars, pic_vars, dev_vars
<1>1. CASE Instruction
  BY <1>1 DEF Instruction, plain, cli, sti, hlt, int_, iret, in_keyboard, out_read_disk,
     nemu_trap, break_point, Retire
<1>2. CASE Halted
  BY <1>2 DEF Halted
<1>3. CASE Devices
  BY <1>3 DEF Devices, do_timer, do_keyboard, PollKey, PollQuit, PollEmpty
<1>4. CASE do_intr
  BY <1>4 DEF do_intr
<1>5. CASE Exit
  BY <1>5 DEF Exit
<1>6. CASE World
  BY <1>6 DEF World, Elapse, WindowEvent, Command
<1>7. CASE UNCHANGED vars
  BY <1>7 DEF vars
<1>8. QED
  BY <1>1, <1>2, <1>3, <1>4, <1>5, <1>6, <1>7 DEF Next, Loop

\* Machine's controller is Exec's.
LEMMA SamePic ==
    /\ SeenByGuest!TIMER_IRQ = TIMER_IRQ /\ SeenByGuest!KEYBOARD_IRQ = KEYBOARD_IRQ
    /\ SeenByGuest!IDE_IRQ = IDE_IRQ /\ SeenByGuest!SYSCALL = SYSCALL
    /\ SeenByGuest!I8259_NO_INTR = I8259_NO_INTR
    /\ \A slot, k : SeenByGuest!Prioritised(slot, k) = Prioritised(slot, k)
BY DEF SeenByGuest!TIMER_IRQ, TIMER_IRQ, SeenByGuest!KEYBOARD_IRQ, KEYBOARD_IRQ,
   SeenByGuest!IDE_IRQ, IDE_IRQ, SeenByGuest!SYSCALL, SYSCALL, SeenByGuest!IRQ_BASE, IRQ_BASE,
   SeenByGuest!I8259_NO_INTR, I8259_NO_INTR, SeenByGuest!Prioritised, Prioritised

\* An instruction of Exec is one of Machine, which fetches it.
LEMMA InstructionIsMachines ==
    ASSUME IInv, NoneAccepted, ~paused, Instruction
    PROVE  SeenByGuest!MachineNext \/ UNCHANGED SeenByGuest!machine_vars
<1> USE DEF ui_vars, cpu_vars, pic_vars, dev_vars, SeenByGuest!machine_vars
<1>1. SeenByGuest!Fetches
  <2>1. at = "inst" /\ ~is_nemu_hlt
    BY DEF Instruction, plain, cli, sti, hlt, int_, iret, in_keyboard, out_read_disk,
       nemu_trap, break_point, Retire
  <2>2. QED
    BY <2>1, SamePic DEF NoneAccepted, IInv, TypeOK, WireIffPending, SeenByGuest!Fetches, SeenByGuest!Accepts
<1>2. CASE plain \/ in_keyboard \/ nemu_trap \/ break_point
  BY <1>2 DEF plain, in_keyboard, nemu_trap, break_point
<1>3. CASE cli
  BY <1>1, <1>3 DEF cli, SeenByGuest!Cli, SeenByGuest!MachineNext
<1>4. CASE sti
  BY <1>1, <1>4 DEF sti, SeenByGuest!Sti, SeenByGuest!MachineNext
<1>5. CASE hlt
  BY <1>1, <1>5 DEF hlt, SeenByGuest!Hlt, SeenByGuest!MachineNext
<1>6. CASE int_
  BY <1>1, <1>6, SamePic DEF int_, raise_intr, SeenByGuest!Int80, SeenByGuest!Enter,
     SeenByGuest!MachineNext
<1>7. CASE iret
  BY <1>1, <1>7 DEF iret, SeenByGuest!Iret, SeenByGuest!MachineNext
<1>8. CASE out_read_disk
  BY <1>1, <1>8, SamePic DEF out_read_disk, i8259_raise_intr, SeenByGuest!OutDisk,
     SeenByGuest!MachineNext
<1>9. QED
  BY <1>2, <1>3, <1>4, <1>5, <1>6, <1>7, <1>8 DEF Instruction

\* A poll of the devices raises a line as Machine's devices do, or nothing.
LEMMA DevicesAreMachines ==
    ASSUME IInv, Devices
    PROVE  SeenByGuest!MachineNext \/ UNCHANGED SeenByGuest!machine_vars
<1> USE DEF ui_vars, cpu_vars, pic_vars, SeenByGuest!machine_vars
<1>1. CASE do_timer
  BY <1>1, SamePic DEF do_timer, i8259_raise_intr, SeenByGuest!Tick, SeenByGuest!MachineNext
<1>2. CASE PollKey
  <2>1. Head(sdl_queue) \in ScanCode
    <3>1. sdl_queue \in Seq(ScanCode \cup {Quit}) /\ sdl_queue # <<>>
      BY <1>2 DEF PollKey, IInv, TypeOK
    <3>2. Head(sdl_queue) \in ScanCode \cup {Quit}
      BY <3>1
    <3>3. QED
      BY <1>2, <3>2 DEF PollKey
  <2>2. SeenByGuest!Key(Head(sdl_queue))
    BY <1>2, SamePic DEF PollKey, i8259_raise_intr, SeenByGuest!Key
  <2>3. QED
    BY <2>1, <2>2 DEF SeenByGuest!MachineNext
<1>3. CASE do_keyboard \/ PollQuit \/ PollEmpty
  BY <1>3 DEF do_keyboard, PollQuit, PollEmpty, dev_vars
<1>4. QED
  BY <1>1, <1>2, <1>3 DEF Devices

\* do_intr takes the pending interrupt, or changes nothing the guest sees.
LEMMA IntrIsMachines ==
    ASSUME IInv, do_intr
    PROVE  SeenByGuest!MachineNext \/ UNCHANGED SeenByGuest!machine_vars
<1> USE DEF cpu_vars, pic_vars, dev_vars, SeenByGuest!machine_vars
<1>1. CASE intr = 1 /\ eflags_IF = 1
  <2>1. SeenByGuest!Accepts
    BY <1>1, SamePic DEF IInv, WireIffPending, SeenByGuest!Accepts
  <2>2. SeenByGuest!Interrupt
    BY <1>1, <2>1, SamePic DEF do_intr, raise_intr, SeenByGuest!Interrupt, SeenByGuest!Enter
  <2>3. QED
    BY <2>2 DEF SeenByGuest!MachineNext
<1>2. CASE ~(intr = 1 /\ eflags_IF = 1)
  BY <1>2 DEF do_intr
<1>3. QED
  BY <1>1, <1>2

LEMMA StepIsMachines ==
    ASSUME IInv, NoneAccepted, [Next]_vars
    PROVE  [SeenByGuest!MachineNext \/ (paused /\ Instruction)]_(SeenByGuest!machine_vars)
<1> USE DEF ui_vars, cpu_vars, pic_vars, dev_vars
<1>1. CASE Instruction
  BY <1>1, InstructionIsMachines
<1>2. CASE Devices
  BY <1>2, DevicesAreMachines
<1>3. CASE do_intr
  BY <1>3, IntrIsMachines
<1>4. CASE Halted \/ Exit
  BY <1>4 DEF Halted, Exit, SeenByGuest!machine_vars
<1>5. CASE World
  BY <1>5 DEF World, Elapse, WindowEvent, Command, SeenByGuest!machine_vars
<1>6. CASE UNCHANGED vars
  BY <1>6 DEF vars, SeenByGuest!machine_vars
<1>7. QED
  BY <1>1, <1>2, <1>3, <1>4, <1>5, <1>6 DEF Next, Loop

\* Where the main loop starts.
LEMMA InitIsMachines == Init => NoneAccepted /\ SeenByGuest!PowerOn
BY SamePic DEF Init, NoneAccepted, SeenByGuest!PowerOn

\* For any guest, any keys and any use of the debugger: devices raise between
\* instructions, and no instruction goes before an interrupt the CPU accepts, but
\* for the one that follows a watchpoint's pause.
THEOREM ExecImplementsMachine == Spec => ImplementsMachine
<1>1. IInv /\ NoneAccepted /\ [Next]_vars
        => [SeenByGuest!MachineNext \/ (paused /\ Instruction)]_(SeenByGuest!machine_vars)
  BY StepIsMachines
<1>2. QED
  BY <1>1, InitIsMachines, NoneAcceptedNext, ExecInvariant, PTL DEF Spec, ImplementsMachine

\* Where no watchpoint is set there is no exception: Exec implements Machine.
THEOREM UnwatchedExecIsMachine ==
    ASSUME ~Watching
    PROVE  Spec => SeenByGuest!MachineSpec
<1>1. IInv /\ NoneAccepted /\ [Next]_vars => [SeenByGuest!MachineNext]_(SeenByGuest!machine_vars)
  <2> SUFFICES ASSUME IInv, NoneAccepted, [Next]_vars
               PROVE  [SeenByGuest!MachineNext]_(SeenByGuest!machine_vars)
    OBVIOUS
  <2>1. ~paused
    BY Zenon DEF IInv, WatchedPauses
  <2>2. QED
    BY <2>1, StepIsMachines
<1>2. QED
  BY <1>1, InitIsMachines, NoneAcceptedNext, ExecInvariant, PTL DEF Spec, SeenByGuest!MachineSpec

-----------------------------------------------------------------------------
(* echo on the kernel.                                                     *)

\* The suffixes of main, of the two system calls and of a handler.
MainLeft    == {<<"sti", "register", "hlt">>, <<"register", "hlt">>, <<"hlt">>}
AddLeft     == {<<"cli", "add_irq_handle", "sti", "iret">>, <<"add_irq_handle", "sti", "iret">>,
                <<"sti", "iret">>, <<"iret">>}
HandlerLeft == {<<"read", "print", "iret">>, <<"print", "iret">>, <<"plain", "iret">>, <<"iret">>}
WriteLeft   == {<<"plain", "iret">>, <<"iret">>}

Op == {"sti", "register", "hlt", "cli", "add_irq_handle", "iret", "read", "print", "plain"}

\* main, or the system call in which it registers.
Foreground(fs, cs) ==
    /\ cs # <<>>
    /\ \/ fs = <<>> /\ Head(cs) \in MainLeft /\ Tail(cs) = <<>>
       \/ /\ fs # <<>> /\ Tail(fs) = <<>> /\ Head(fs).vector = SYSCALL
          /\ Head(cs) \in AddLeft /\ Tail(cs) = <<<<"hlt">>>>

\* A handler on it.
Serving(fs, cs) ==
    /\ fs # <<>> /\ cs # <<>>
    /\ Head(fs).vector \in Hardware /\ Head(cs) \in HandlerLeft
    /\ Foreground(Tail(fs), Tail(cs))

\* printc's system call on a handler.
Writing(fs, cs) ==
    /\ fs # <<>> /\ cs # <<>>
    /\ Head(fs).vector = SYSCALL /\ Head(fs).flag = 0 /\ Head(cs) \in WriteLeft
    /\ Serving(Tail(fs), Tail(cs))

EchoStack ==
    /\ code \in Seq(Seq(Op))
    /\ \/ Foreground(frames, code)
       \/ eflags_IF = 0 /\ (Serving(frames, code) \/ Writing(frames, code))

EchoInv == IInv /\ EchoStack

\* What is left begins with an instruction and ends with a suffix of its kind.
LEMMA Sequels ==
    /\ Head(<<"sti", "register", "hlt">>) = "sti"
    /\ Tail(<<"sti", "register", "hlt">>) = <<"register", "hlt">>
    /\ Head(<<"register", "hlt">>) = "register" /\ Tail(<<"register", "hlt">>) = <<"hlt">>
    /\ Head(<<"hlt">>) = "hlt"
    /\ Head(<<"cli", "add_irq_handle", "sti", "iret">>) = "cli"
    /\ Tail(<<"cli", "add_irq_handle", "sti", "iret">>) = <<"add_irq_handle", "sti", "iret">>
    /\ Head(<<"add_irq_handle", "sti", "iret">>) = "add_irq_handle"
    /\ Tail(<<"add_irq_handle", "sti", "iret">>) = <<"sti", "iret">>
    /\ Head(<<"sti", "iret">>) = "sti" /\ Tail(<<"sti", "iret">>) = <<"iret">>
    /\ Head(<<"iret">>) = "iret"
    /\ Head(<<"read", "print", "iret">>) = "read"
    /\ Tail(<<"read", "print", "iret">>) = <<"print", "iret">>
    /\ Head(<<"print", "iret">>) = "print" /\ Tail(<<"print", "iret">>) = <<"iret">>
    /\ Head(<<"plain", "iret">>) = "plain" /\ Tail(<<"plain", "iret">>) = <<"iret">>
OBVIOUS

LEMMA LeftAreCode ==
    ASSUME NEW c \in MainLeft \cup AddLeft \cup HandlerLeft \cup WriteLeft
    PROVE  c \in Seq(Op) /\ c # <<>>
<1>1. /\ <<"sti", "register", "hlt">> \in Seq(Op) /\ <<"sti", "register", "hlt">> # <<>>
      /\ <<"register", "hlt">> \in Seq(Op) /\ <<"register", "hlt">> # <<>>
      /\ <<"hlt">> \in Seq(Op) /\ <<"hlt">> # <<>>
  BY DEF Op
<1>2. /\ <<"cli", "add_irq_handle", "sti", "iret">> \in Seq(Op)
      /\ <<"cli", "add_irq_handle", "sti", "iret">> # <<>>
      /\ <<"add_irq_handle", "sti", "iret">> \in Seq(Op)
      /\ <<"add_irq_handle", "sti", "iret">> # <<>>
      /\ <<"sti", "iret">> \in Seq(Op) /\ <<"sti", "iret">> # <<>>
      /\ <<"iret">> \in Seq(Op) /\ <<"iret">> # <<>>
  BY DEF Op
<1>3. /\ <<"read", "print", "iret">> \in Seq(Op) /\ <<"read", "print", "iret">> # <<>>
      /\ <<"print", "iret">> \in Seq(Op) /\ <<"print", "iret">> # <<>>
      /\ <<"plain", "iret">> \in Seq(Op) /\ <<"plain", "iret">> # <<>>
  BY DEF Op
<1>4. QED
  BY <1>1, <1>2, <1>3, Zenon DEF MainLeft, AddLeft, HandlerLeft, WriteLeft

LEMMA MainOps ==
    ASSUME NEW c \in MainLeft
    PROVE  /\ Head(c) \in {"sti", "register", "hlt"}
           /\ Head(c) # "hlt" => Tail(c) \in MainLeft
           /\ Head(c) = "register" => Tail(c) = <<"hlt">>
BY Sequels, Zenon DEF MainLeft

LEMMA AddOps ==
    ASSUME NEW c \in AddLeft
    PROVE  /\ Head(c) \in {"cli", "add_irq_handle", "sti", "iret"}
           /\ Head(c) # "iret" => Tail(c) \in AddLeft
BY Sequels, Zenon DEF AddLeft

LEMMA HandlerOps ==
    ASSUME NEW c \in HandlerLeft
    PROVE  /\ Head(c) \in {"read", "print", "plain", "iret"}
           /\ Head(c) # "iret" => Tail(c) \in HandlerLeft
BY Sequels, Zenon DEF HandlerLeft

LEMMA WriteOps ==
    ASSUME NEW c \in WriteLeft
    PROVE  /\ Head(c) \in {"plain", "iret"}
           /\ Head(c) # "iret" => Tail(c) \in WriteLeft
BY Sequels, Zenon DEF WriteLeft

\* A frame, or what is left of one, on the others.
LEMMA PushedOn ==
    ASSUME NEW S, NEW e \in S, NEW f \in Seq(S)
    PROVE  /\ <<e>> \o f \in Seq(S) /\ <<e>> \o f # <<>> /\ Head(<<e>> \o f) = e
           /\ Tail(<<e>> \o f) = f /\ Len(<<e>> \o f) = Len(f) + 1
OBVIOUS

\* The pieces the stack's description speaks of.
LEMMA StackPieces ==
    ASSUME EchoStack
    PROVE  /\ code # <<>> /\ Head(code) \in Seq(Op) /\ Head(code) # <<>>
           /\ Tail(code) \in Seq(Seq(Op)) /\ Onward \in Seq(Seq(Op)) /\ Onward # <<>>
           /\ Head(Onward) = Tail(Head(code)) /\ Tail(Onward) = Tail(code)
<1>1. code \in Seq(Seq(Op)) /\ code # <<>>
  BY Zenon DEF EchoStack, Foreground, Serving, Writing
<1>2. Head(code) \in Seq(Op) /\ Tail(code) \in Seq(Seq(Op))
  BY <1>1
<1>3. Head(code) \in MainLeft \cup AddLeft \cup HandlerLeft \cup WriteLeft
  BY Zenon DEF EchoStack, Foreground, Serving, Writing
<1>4. Head(code) # <<>>
  BY <1>3, LeftAreCode
<1>5. Tail(Head(code)) \in Seq(Op)
  BY <1>2, <1>4
<1>6. Onward \in Seq(Seq(Op)) /\ Onward # <<>>
      /\ Head(Onward) = Tail(Head(code)) /\ Tail(Onward) = Tail(code)
  BY <1>2, <1>5, PushedOn DEF Onward
<1>7. QED
  BY <1>1, <1>2, <1>4, <1>6

\* Going on to the next instruction of the innermost frame keeps its kind.
LEMMA OnwardKeeps ==
    ASSUME NEW fs, NEW cs, NEW ds, ds # <<>>, Head(ds) = Tail(Head(cs)), Tail(ds) = Tail(cs),
           Head(Head(cs)) # "hlt", Head(Head(cs)) # "iret"
    PROVE  /\ Foreground(fs, cs) => Foreground(fs, ds)
           /\ Serving(fs, cs) => Serving(fs, ds)
           /\ Writing(fs, cs) => Writing(fs, ds)
<1>1. Foreground(fs, cs) => Foreground(fs, ds)
  BY MainOps, AddOps, Zenon DEF Foreground
<1>2. Serving(fs, cs) => Serving(fs, ds)
  BY HandlerOps, Zenon DEF Serving
<1>3. Writing(fs, cs) => Writing(fs, ds)
  BY WriteOps, Zenon DEF Writing
<1>4. QED
  BY <1>1, <1>2, <1>3

\* In a handler, and in the system call it makes, IF is off, and what comes
\* next is one of their instructions.
LEMMA HandlerUpcoming ==
    ASSUME EchoStack, ~Foreground(frames, code)
    PROVE  eflags_IF = 0 /\ Upcoming \in {"read", "print", "plain", "iret"}
BY HandlerOps, WriteOps, Zenon DEF EchoStack, Serving, Writing, Upcoming

\* An instruction that only moves on.
LEMMA AdvanceKeeps ==
    ASSUME EchoStack, Advance, UNCHANGED frames, Upcoming # "hlt", Upcoming # "iret",
           eflags_IF' = eflags_IF \/ Upcoming \in {"sti", "cli"}
    PROVE  EchoStack'
<1>1. code' \in Seq(Seq(Op)) /\ code' # <<>>
      /\ Head(code') = Tail(Head(code)) /\ Tail(code') = Tail(code)
  BY StackPieces, Zenon DEF Advance
<1>2. /\ Foreground(frames, code) => Foreground(frames, code')
      /\ Serving(frames, code) => Serving(frames, code')
      /\ Writing(frames, code) => Writing(frames, code')
  BY <1>1, OnwardKeeps, Zenon DEF Upcoming
<1>3. CASE Foreground(frames, code)
  BY <1>1, <1>2, <1>3, Zenon DEF EchoStack, Foreground
<1>4. CASE ~Foreground(frames, code)
  <2>1. eflags_IF' = 0
    BY <1>4, HandlerUpcoming
  <2>2. Serving(frames, code') \/ Writing(frames, code')
    BY <1>2, <1>4, Zenon DEF EchoStack
  <2>3. QED
    BY <1>1, <2>1, <2>2, Zenon DEF EchoStack, Serving, Writing, Foreground
<1>5. QED
  BY <1>3, <1>4

\* A step that leaves the guest's stack and what is left of it alone.
LEMMA IdleKeeps ==
    ASSUME EchoStack, UNCHANGED <<code, frames>>, eflags_IF' = eflags_IF
    PROVE  EchoStack'
BY Zenon DEF EchoStack, Foreground, Serving, Writing

\* iret: the flag of a system call's frame on a handler is 0.
LEMMA ReturnKeeps ==
    ASSUME IInv, EchoStack, EchoReturn
    PROVE  EchoStack'
<1>1. Upcoming = "iret" /\ code' = Tail(code) /\ frames' = Tail(frames)
      /\ eflags_IF' = Head(frames).flag
  BY DEF EchoReturn, iret
<1>2. code' \in Seq(Seq(Op))
  BY <1>1, StackPieces
<1>3. CASE Foreground(frames, code)
  <2>1. Head(code) \notin MainLeft
    BY <1>1, MainOps, Zenon DEF Upcoming
  <2>2. frames' = <<>> /\ code' = <<<<"hlt">>>>
    BY <1>1, <1>3, <2>1, Zenon DEF Foreground
  <2>3. code' # <<>> /\ Head(code') = <<"hlt">> /\ Tail(code') = <<>>
    BY <2>2
  <2>4. Foreground(frames', code')
    BY <2>2, <2>3, Zenon DEF Foreground, MainLeft
  <2>5. QED
    BY <1>2, <2>4, Zenon DEF EchoStack, Foreground, MainLeft
<1>4. CASE Serving(frames, code)
  <2>1. Foreground(frames', code')
    BY <1>1, <1>4, Zenon DEF Serving
  <2>2. QED
    BY <1>2, <2>1, Zenon DEF EchoStack, Foreground
<1>5. CASE Writing(frames, code)
  <2>1. Serving(frames', code') /\ eflags_IF' = 0
    BY <1>1, <1>5, Zenon DEF Writing
  <2>2. QED
    BY <1>2, <2>1, Zenon DEF EchoStack, Serving, Foreground
<1>6. QED
  BY <1>3, <1>4, <1>5, Zenon DEF EchoStack

\* What a raise pushes.
LEMMA RaisePushes ==
    ASSUME IInv, NEW v \in Hardware \cup {SYSCALL}, raise_intr(v)
    PROVE  /\ frames' # <<>> /\ Head(frames').vector = v /\ Head(frames').flag = eflags_IF
           /\ Tail(frames') = frames /\ frames' # frames
<1> DEFINE f == [vector |-> v, flag |-> eflags_IF]
<1>1. f \in Frame /\ frames \in Seq(Frame)
  BY DEF IInv, TypeOK, Frame
<1>2. frames' = <<f>> \o frames
  BY DEF raise_intr
<1>3. f.vector = v /\ f.flag = eflags_IF
  OBVIOUS
<1> HIDE DEF f
<1>4. /\ frames' # <<>> /\ Head(frames') = f /\ Tail(frames') = frames
      /\ Len(frames') = Len(frames) + 1
  BY <1>1, <1>2, PushedOn
<1>5. frames' # frames
  BY <1>1, <1>4
<1>6. QED
  BY <1>3, <1>4, <1>5

\* The system call in which main registers.
LEMMA RegisterKeeps ==
    ASSUME IInv, EchoStack, EchoRegister
    PROVE  EchoStack'
<1>1. Upcoming = "register" /\ raise_intr(SYSCALL) /\ code' = <<SyscallAddIrqHandle>> \o Onward
  BY DEF EchoRegister, int_
<1>2. Foreground(frames, code) /\ Head(code) \in MainLeft /\ frames = <<>> /\ Tail(code) = <<>>
  <2>1. Foreground(frames, code)
    BY <1>1, HandlerUpcoming
  <2>2. Head(code) \notin AddLeft
    BY <1>1, AddOps, Zenon DEF Upcoming
  <2>3. QED
    BY <2>1, <2>2, Zenon DEF Foreground
<1>3. Tail(Head(code)) = <<"hlt">>
  BY <1>1, <1>2, MainOps, Zenon DEF Upcoming
<1>4. Onward = <<<<"hlt">>>>
  <2>1. Onward = <<<<"hlt">>>> \o <<>>
    BY <1>2, <1>3, Zenon DEF Onward
  <2>2. QED
    BY <2>1
<1>5. SyscallAddIrqHandle \in AddLeft /\ SyscallAddIrqHandle \in Seq(Op)
  BY LeftAreCode, Zenon DEF SyscallAddIrqHandle, AddLeft
<1>6. /\ code' \in Seq(Seq(Op)) /\ code' # <<>>
      /\ Head(code') = SyscallAddIrqHandle /\ Tail(code') = <<<<"hlt">>>>
  <2>1. Onward \in Seq(Seq(Op))
    BY StackPieces
  <2>2. /\ code' \in Seq(Seq(Op)) /\ code' # <<>>
        /\ Head(code') = SyscallAddIrqHandle /\ Tail(code') = Onward
    BY <1>1, <1>5, <2>1, PushedOn
  <2>3. QED
    BY <1>4, <2>2, Zenon
<1>7. frames' # <<>> /\ Head(frames').vector = SYSCALL /\ Tail(frames') = <<>>
  BY <1>1, <1>2, RaisePushes
<1>8. QED
  BY <1>5, <1>6, <1>7, Zenon DEF EchoStack, Foreground

\* printc's system call, from the handler: IF is off.
LEMMA WriteKeeps ==
    ASSUME IInv, EchoStack, Upcoming = "print", int_, code' = <<SyscallWrite>> \o Onward
    PROVE  EchoStack'
<1>1. Serving(frames, code) /\ eflags_IF = 0
  <2>1. Head(code) \notin WriteLeft
    BY WriteOps, Zenon DEF Upcoming
  <2>2. ~Foreground(frames, code)
    BY MainOps, AddOps, Zenon DEF Foreground, Upcoming
  <2>3. QED
    BY <2>1, <2>2, Zenon DEF EchoStack, Writing
<1>2. SyscallWrite \in WriteLeft /\ SyscallWrite \in Seq(Op)
  BY LeftAreCode, Zenon DEF SyscallWrite, WriteLeft
<1>3. Serving(frames, Onward)
  BY <1>1, StackPieces, OnwardKeeps, Zenon DEF Upcoming
<1>4. /\ code' \in Seq(Seq(Op)) /\ code' # <<>>
      /\ Head(code') = SyscallWrite /\ Tail(code') = Onward
  BY <1>2, StackPieces, PushedOn
<1>5. raise_intr(SYSCALL)
  BY DEF int_
<1>6. /\ frames' # <<>> /\ Head(frames').vector = SYSCALL /\ Head(frames').flag = 0
      /\ Tail(frames') = frames
  BY <1>1, <1>5, RaisePushes
<1>7. eflags_IF' = 0
  BY <1>1, <1>5 DEF raise_intr
<1>8. Writing(frames', code')
  BY <1>2, <1>3, <1>4, <1>6, Zenon DEF Writing
<1>9. QED
  BY <1>4, <1>7, <1>8, Zenon DEF EchoStack, Writing, Serving, Foreground

\* Interrupts are accepted in main and in its system call only, and the gates
\* of the hardware's vectors turn IF off.
LEMMA EchoDispatchKeeps ==
    ASSUME IInv, EchoStack, EchoDispatch
    PROVE  EchoStack'
<1>1. CASE intr = 1 /\ eflags_IF = 1
  <2>1. intr_no \in Hardware /\ raise_intr(intr_no)
    BY <1>1 DEF EchoDispatch, do_intr, IInv, TypeOK, WireIffPending
  <2>2. Foreground(frames, code)
    BY <1>1, HandlerUpcoming
  <2>3. /\ frames' # <<>> /\ Head(frames').vector = intr_no /\ Tail(frames') = frames
        /\ frames' # frames
    BY <2>1, RaisePushes
  <2>4. eflags_IF' = 0
    BY <2>1, ExecAssumption DEF raise_intr, Hardware
  <2>5. code' = <<Routines(intr_no)>> \o code
    BY <2>3 DEF EchoDispatch
  <2>6. Routines(intr_no) \in HandlerLeft /\ Routines(intr_no) \in Seq(Op)
    BY LeftAreCode, Zenon DEF Routines, HandlerLeft
  <2>7. code \in Seq(Seq(Op))
    BY DEF EchoStack
  <2>8. /\ code' \in Seq(Seq(Op)) /\ code' # <<>>
        /\ Head(code') = Routines(intr_no) /\ Tail(code') = code
    BY <2>5, <2>6, <2>7, PushedOn
  <2>9. Serving(frames', code')
    BY <2>1, <2>2, <2>3, <2>6, <2>8, Zenon DEF Serving
  <2>10. QED
    BY <2>4, <2>8, <2>9, Zenon DEF EchoStack, Serving, Foreground
<1>2. CASE ~(intr = 1 /\ eflags_IF = 1)
  <2>1. frames' = frames /\ eflags_IF' = eflags_IF
    BY <1>2 DEF EchoDispatch, do_intr, cpu_vars
  <2>2. code' = code
    BY <2>1 DEF EchoDispatch
  <2>3. QED
    BY <2>1, <2>2, IdleKeeps
<1>3. QED
  BY <1>1, <1>2

LEMMA EchoNextStack ==
    ASSUME IInv, EchoStack, [EchoNext]_echo_vars
    PROVE  EchoStack'
<1>1. CASE Runs("plain", plain)
  BY <1>1, AdvanceKeeps DEF Runs, plain, cpu_vars
<1>2. CASE Runs("sti", sti)
  BY <1>2, AdvanceKeeps DEF Runs, sti
<1>3. CASE Runs("cli", cli)
  BY <1>3, AdvanceKeeps DEF Runs, cli
<1>4. CASE EchoHalt
  BY <1>4, IdleKeeps DEF EchoHalt, hlt, guest_vars
<1>5. CASE EchoReturn
  BY <1>5, ReturnKeeps
<1>6. CASE EchoRegister
  BY <1>6, RegisterKeeps
<1>7. CASE EchoAddHandle
  BY <1>7, AdvanceKeeps DEF EchoAddHandle, plain, cpu_vars
<1>8. CASE EchoRead
  BY <1>8, AdvanceKeeps DEF EchoRead, in_keyboard, cpu_vars
<1>9. CASE EchoPrint
  <2>1. CASE key_pressed \in Letter
    BY <1>9, <2>1, WriteKeeps DEF EchoPrint
  <2>2. CASE key_pressed \notin Letter
    BY <1>9, <2>2, AdvanceKeeps DEF EchoPrint, plain, cpu_vars
  <2>3. QED
    BY <2>1, <2>2
<1>10. CASE EchoDispatch
  BY <1>10, EchoDispatchKeeps
<1>11. CASE (Halted \/ Devices \/ Exit) /\ UNCHANGED guest_vars
  BY <1>11, IdleKeeps DEF guest_vars, Halted, Devices, do_timer, do_keyboard, PollKey, PollQuit,
     PollEmpty, Exit, cpu_vars
<1>12. CASE World /\ UNCHANGED guest_vars
  BY <1>12, IdleKeeps DEF guest_vars, World, Elapse, WindowEvent, Command, cpu_vars
<1>13. CASE UNCHANGED echo_vars
  BY <1>13, IdleKeeps DEF echo_vars, guest_vars, vars, cpu_vars
<1>14. QED
  BY <1>1, <1>2, <1>3, <1>4, <1>5, <1>6, <1>7, <1>8, <1>9, <1>10, <1>11, <1>12, <1>13
     DEF EchoNext, EchoLoop, EchoInstruction

\* What echo does to the machine, the guest of module Exec may do.
LEMMA EchoStepsAreExecSteps == [EchoNext]_echo_vars => [Next]_vars
BY DEF EchoNext, EchoLoop, EchoInstruction, Runs, EchoHalt, EchoReturn, EchoRegister,
       EchoAddHandle, EchoRead, EchoPrint, EchoDispatch, echo_vars,
       Next, Loop, Instruction

LEMMA InitEchoInv == EchoInit => EchoInv
<1> SUFFICES ASSUME EchoInit PROVE EchoInv
  OBVIOUS
<1>1. Main \in MainLeft /\ Main \in Seq(Op)
  BY LeftAreCode, Zenon DEF Main, MainLeft
<1>2. code = <<Main>> /\ frames = <<>>
  BY DEF EchoInit, Init
<1>3. code \in Seq(Seq(Op)) /\ code # <<>> /\ Head(code) = Main /\ Tail(code) = <<>>
  BY <1>1, <1>2
<1>4. EchoStack
  BY <1>1, <1>2, <1>3, Zenon DEF EchoStack, Foreground
<1>5. QED
  BY <1>4, InitInv DEF EchoInit, EchoInv

LEMMA NextEchoInv == EchoInv /\ [EchoNext]_echo_vars => EchoInv'
BY EchoStepsAreExecSteps, NextInv, EchoNextStack DEF EchoInv

\* Below the first frame, a stack of frames is its tail.
LEMMA FramesBelow ==
    ASSUME NEW fs \in Seq(Frame), fs # <<>>
    PROVE  /\ Tail(fs) \in Seq(Frame) /\ Len(fs) = Len(Tail(fs)) + 1 /\ fs[1] = Head(fs)
           /\ \A k \in 1 .. Len(fs) : k # 1 => k - 1 \in 1 .. Len(Tail(fs)) /\ fs[k] = Tail(fs)[k - 1]
OBVIOUS

LEMMA ForegroundFrames ==
    ASSUME NEW fs \in Seq(Frame), NEW cs, Foreground(fs, cs)
    PROVE  Len(fs) <= 1 /\ \A k \in 1 .. Len(fs) : fs[k].vector \notin Hardware
<1>1. CASE fs = <<>>
  BY <1>1
<1>2. CASE fs # <<>>
  <2>1. Tail(fs) = <<>> /\ Head(fs).vector = SYSCALL
    BY <1>2, Zenon DEF Foreground
  <2>2. Len(fs) = 1 /\ fs[1] = Head(fs)
    <3>1. Len(fs) = Len(Tail(fs)) + 1 /\ fs[1] = Head(fs)
      BY <1>2, FramesBelow
    <3>2. Len(<<>>) = 0
      OBVIOUS
    <3>3. Len(Tail(fs)) = 0
      BY <2>1, <3>2, Zenon
    <3>4. QED
      BY <3>1, <3>3
  <2>3. SYSCALL \notin Hardware
    BY HardwareVectors DEF SYSCALL
  <2>4. QED
    BY <2>1, <2>2, <2>3
<1>3. QED
  BY <1>1, <1>2

LEMMA ServingFrames ==
    ASSUME NEW fs \in Seq(Frame), NEW cs, Serving(fs, cs)
    PROVE  Len(fs) <= 2 /\ \A k \in 1 .. Len(fs) : fs[k].vector \in Hardware => k = 1
<1>1. fs # <<>> /\ Foreground(Tail(fs), Tail(cs))
  BY Zenon DEF Serving
<1>2. Len(Tail(fs)) <= 1 /\ \A k \in 1 .. Len(Tail(fs)) : Tail(fs)[k].vector \notin Hardware
  BY <1>1, FramesBelow, ForegroundFrames
<1>3. QED
  BY <1>1, <1>2, FramesBelow

LEMMA WritingFrames ==
    ASSUME NEW fs \in Seq(Frame), NEW cs, Writing(fs, cs)
    PROVE  Len(fs) <= 3 /\ \A k \in 1 .. Len(fs) : fs[k].vector \in Hardware => k = 2
<1>1. fs # <<>> /\ Serving(Tail(fs), Tail(cs)) /\ Head(fs).vector = SYSCALL
  BY Zenon DEF Writing
<1>2. Len(Tail(fs)) <= 2 /\ \A k \in 1 .. Len(Tail(fs)) : Tail(fs)[k].vector \in Hardware => k = 1
  BY <1>1, FramesBelow, ServingFrames
<1>3. SYSCALL \notin Hardware
  BY HardwareVectors DEF SYSCALL
<1>4. QED
  BY <1>1, <1>2, <1>3, FramesBelow

LEMMA EchoInvKeepsStackSmall == EchoInv => HandlersDoNotNest
<1> SUFFICES ASSUME EchoInv PROVE HandlersDoNotNest
  OBVIOUS
<1>1. frames \in Seq(Frame)
  BY DEF EchoInv, IInv, TypeOK, Frame
<1>2. CASE Foreground(frames, code)
  BY <1>1, <1>2, ForegroundFrames DEF HandlersDoNotNest
<1>3. CASE eflags_IF = 0 /\ Serving(frames, code)
  BY <1>1, <1>3, ServingFrames DEF HandlersDoNotNest
<1>4. CASE eflags_IF = 0 /\ Writing(frames, code)
  BY <1>1, <1>4, WritingFrames DEF HandlersDoNotNest
<1>5. QED
  BY <1>2, <1>3, <1>4, Zenon DEF EchoInv, EchoStack

\* In every run of echo, each frame's code fits the vector that pushed it.
THEOREM EchoInvariant == EchoSpec => []EchoInv
BY InitEchoInv, NextEchoInv, PTL DEF EchoSpec

\* For any keys and any bounds: one hardware handler at a time, with interrupts
\* off in it and in its system call, and at most three frames on the stack.
THEOREM EchoHandlersNeverNest == EchoSpec => []HandlersDoNotNest
BY EchoInvariant, EchoInvKeepsStackSmall, PTL

\* echo on the emulator is the main loop of Exec under one guest: all that is
\* said of exec holds of it.
THEOREM EchoRunsOnExec == EchoSpec => Init /\ [][Next]_vars
<1>1. EchoInit => Init
  BY DEF EchoInit
<1>2. QED
  BY <1>1, EchoStepsAreExecSteps, PTL DEF EchoSpec

-----------------------------------------------------------------------------
(* The disk driver.                                                        *)

Filling == main \in {"in", "fetched"}

Asked == main \notin {"boot", "idle"}

RequestOpen == Asked <=> offset # Nothing

Base == sector * SectorSize

SectorsHoldTheDisk ==
    \A s \in Slot : cache[s].used /\ ~(Filling /\ s = ptr) =>
        \A k \in Index : cache[s].content[k] \in AtPosition(cache[s].sector * SectorSize + k)

FillInProgress ==
    /\ main = "issue" => sector_ports = sector
    /\ main \in {"wait", "halt", "clear_seen"} => i = 0 /\ disk_pos = Base
    /\ Filling =>
        /\ \A k \in Index : k < i => cache[ptr].content[k] \in AtPosition(Base + k)
        /\ disk_pos = Base + i \/ (disk_pos >= Size /\ Base + i >= Size)
    /\ main = "in" => i < SectorSize
    /\ main = "fetched" => i = SectorSize
    /\ main = "return" => CacheHit

Counted ==
    /\ byte_cnt \in 0 .. SectorSize
    /\ main \in {"wait", "halt", "clear_seen", "in", "fetched"} => byte_cnt = i

DInv == DiskTypeOK /\ RequestOpen /\ SectorsHoldTheDisk /\ FillInProgress /\ Counted

-----------------------------------------------------------------------------
\* A word's offset is rebuilt from its sector and its place in it.
LEMMA OffsetSplit ==
    ASSUME NEW a \in Nat, NEW b \in Nat \ {0}
    PROVE  /\ a \div b \in Nat
           /\ a % b \in 0 .. b - 1
           /\ a = (a \div b) * b + (a % b)
BY SMT

\* An open request is for a word of some sector, which has a slot.
LEMMA Located ==
    ASSUME DInv, Asked
    PROVE  /\ offset \in Nat /\ offset # Nothing
           /\ sector \in Nat /\ ptr \in Slot /\ Base \in Nat
           /\ offset % SectorSize \in Index
           /\ offset = Base + (offset % SectorSize)
<1>1. offset \in Nat
  BY DiskAssumption DEF DInv, DiskTypeOK, RequestOpen
<1>2. sector \in Nat /\ offset % SectorSize \in Index /\ offset = Base + (offset % SectorSize)
  BY <1>1, OffsetSplit, DiskAssumption DEF sector, Base, Index
<1>3. ptr \in Slot
  BY <1>2, OffsetSplit, DiskAssumption DEF ptr, Slot
<1>4. ASSUME NEW s \in Nat PROVE s * SectorSize \in Nat
  BY DiskAssumption, SMT
<1>5. QED
  BY <1>1, <1>2, <1>3, <1>4 DEF Base, DInv, RequestOpen

\* What the disk holds at a position is a word.
LEMMA DiskHoldsWords == ASSUME NEW p \in Nat PROVE AtPosition(p) \subseteq Word
BY DiskAssumption DEF AtPosition

LEMMA InitDInv == DiskInit => DInv
<1> SUFFICES ASSUME DiskInit PROVE DInv
  OBVIOUS
<1> USE DiskAssumption DEF DiskInit
<1>1. DiskTypeOK
  BY DEF DiskTypeOK
<1>2. RequestOpen
  BY DEF RequestOpen, Asked
<1>3. SectorsHoldTheDisk
  BY DEF SectorsHoldTheDisk
<1>4. FillInProgress /\ Counted
  BY DEF FillInProgress, Filling, Counted
<1>5. QED
  BY <1>1, <1>2, <1>3, <1>4 DEF DInv

-----------------------------------------------------------------------------
\* The step that moves a word from the drive into the slot being filled.
LEMMA InLongInv == ASSUME DInv, in_long PROVE DInv'
<1> USE DiskAssumption
<1>1. main = "in" /\ Asked /\ Filling
  BY DEF in_long, Executes, Asked, Filling
<1>2. /\ Base \in Nat /\ ptr \in Slot /\ sector \in Nat /\ offset \in Nat
      /\ i \in Index /\ i \in Nat /\ i < SectorSize /\ disk_pos \in Nat
  BY <1>1, Located DEF DInv, DiskTypeOK, FillInProgress, Index
<1>3. PICK w \in AtPosition(disk_pos) : cache' = [cache EXCEPT ![ptr].content[i] = w]
  BY DEF in_long
<1>4. /\ offset' = offset /\ result' = result /\ sector_ports' = sector_ports
      /\ has_ide_intr' = has_ide_intr /\ handler' = handler
      /\ i' = i + 1 /\ byte_cnt' = byte_cnt + 1
      /\ disk_pos' = IF disk_pos < Size THEN disk_pos + 1 ELSE disk_pos
      /\ main' = IF i + 1 < SectorSize THEN "in" ELSE "fetched"
  BY DEF in_long, Executes, call_vars, MoreWords
<1>5. Base' = Base /\ ptr' = ptr /\ sector' = sector
  BY <1>4 DEF Base, ptr, sector
<1>6. w \in Word /\ w \in AtPosition(Base + i)
  BY <1>1, <1>2, DiskHoldsWords DEF DInv, FillInProgress, AtPosition
<1>7. /\ cache' \in [Slot -> [used : BOOLEAN, sector : Nat,
                              content : [Index -> Word \cup {Nothing}]]]
      /\ \A s \in Slot : s # ptr => cache'[s] = cache[s]
      /\ cache'[ptr].content[i] = w
      /\ \A k \in Index : k # i => cache'[ptr].content[k] = cache[ptr].content[k]
  BY <1>2, <1>3, <1>6 DEF DInv, DiskTypeOK
<1>8. DiskTypeOK'
  BY <1>2, <1>4, <1>7 DEF DInv, DiskTypeOK
<1>9. RequestOpen'
  BY <1>1, <1>4 DEF DInv, RequestOpen, Asked
<1>10. SectorsHoldTheDisk'
  BY <1>1, <1>4, <1>5, <1>7 DEF DInv, SectorsHoldTheDisk, Filling, AtPosition
<1>11. FillInProgress'
  <2>1. \A k \in Index : k < i + 1 => cache'[ptr].content[k] \in AtPosition(Base + k)
    <3> SUFFICES ASSUME NEW k \in Index, k < i + 1
                 PROVE  cache'[ptr].content[k] \in AtPosition(Base + k)
      OBVIOUS
    <3>1. CASE k = i
      BY <1>6, <1>7, <3>1
    <3>2. CASE k # i
      <4>1. k < i
        BY <1>2, <3>2 DEF Index
      <4>2. QED
        BY <1>1, <1>7, <3>2, <4>1 DEF DInv, FillInProgress
    <3>3. QED
      BY <3>1, <3>2
  <2>2. disk_pos' = Base + (i + 1) \/ (disk_pos' >= Size /\ Base + (i + 1) >= Size)
    BY <1>1, <1>2, <1>4 DEF DInv, FillInProgress
  <2>3. (main' = "in" => i' < SectorSize) /\ (main' = "fetched" => i' = SectorSize)
    BY <1>2, <1>4
  <2>4. main' \in {"in", "fetched"}
    BY <1>4
  <2>5. QED
    BY <1>4, <1>5, <2>1, <2>2, <2>3, <2>4 DEF FillInProgress, Filling, AtPosition
<1>12. Counted'
  BY <1>1, <1>2, <1>4 DEF DInv, Counted
<1>13. QED
  BY <1>8, <1>9, <1>10, <1>11, <1>12 DEF DInv

\* The step that declares the slot filled.
LEMMA FetchedInv == ASSUME DInv, cache_fetched PROVE DInv'
<1> USE DiskAssumption
<1>1. main = "fetched" /\ Asked /\ Filling /\ i = SectorSize
  BY DEF cache_fetched, Executes, Asked, Filling, DInv, FillInProgress
<1>2. Base \in Nat /\ ptr \in Slot /\ sector \in Nat
  BY <1>1, Located
<1>3. /\ cache' = [cache EXCEPT ![ptr].used = TRUE, ![ptr].sector = sector]
      /\ main' = "return" /\ offset' = offset /\ result' = result /\ i' = i
      /\ has_ide_intr' = has_ide_intr /\ handler' = handler
      /\ UNCHANGED <<sector_ports, disk_pos, byte_cnt>>
  BY DEF cache_fetched, Executes, call_vars, drive_vars
<1>4. ptr' = ptr /\ sector' = sector
  BY <1>3 DEF ptr, sector
<1>5. /\ cache' \in [Slot -> [used : BOOLEAN, sector : Nat,
                              content : [Index -> Word \cup {Nothing}]]]
      /\ \A s \in Slot : s # ptr => cache'[s] = cache[s]
      /\ cache'[ptr].used /\ cache'[ptr].sector = sector
      /\ cache'[ptr].content = cache[ptr].content
  BY <1>2, <1>3 DEF DInv, DiskTypeOK
<1>6. \A k \in Index : cache[ptr].content[k] \in AtPosition(sector * SectorSize + k)
  BY <1>1 DEF DInv, FillInProgress, Base, Index
<1>7. DiskTypeOK'
  BY <1>3, <1>5 DEF DInv, DiskTypeOK
<1>8. RequestOpen' /\ Counted'
  BY <1>1, <1>3 DEF DInv, RequestOpen, Asked, Counted
<1>9. SectorsHoldTheDisk'
  <2> SUFFICES ASSUME NEW s \in Slot, cache'[s].used, NEW k \in Index
               PROVE  cache'[s].content[k] \in AtPosition(cache'[s].sector * SectorSize + k)
    BY DEF SectorsHoldTheDisk, AtPosition
  <2>1. CASE s = ptr
    BY <1>5, <1>6, <2>1
  <2>2. CASE s # ptr
    BY <1>5, <2>2 DEF DInv, SectorsHoldTheDisk
  <2>3. QED
    BY <2>1, <2>2
<1>10. FillInProgress'
  BY <1>3, <1>4, <1>5 DEF FillInProgress, Filling, CacheHit
<1>11. QED
  BY <1>7, <1>8, <1>9, <1>10 DEF DInv

\* A step that leaves the cache, and is not about a slot being filled, leaves
\* what the slots hold.
LEMMA CacheKept ==
    ASSUME DInv, UNCHANGED cache, ~Filling, ~Filling' \/ UNCHANGED <<offset>>
    PROVE  SectorsHoldTheDisk'
BY DEF DInv, SectorsHoldTheDisk, AtPosition

LEMMA NextDInv == DInv /\ [DiskNext]_disk_vars => DInv'
<1> SUFFICES ASSUME DInv, [DiskNext]_disk_vars PROVE DInv'
  OBVIOUS
<1> USE DiskAssumption
<1> USE DEF DInv, DiskTypeOK, RequestOpen, Asked, FillInProgress, Filling, Counted,
        Executes, Following, call_vars, driver_vars, drive_vars
<1>1. CASE Boot
  <2>1. SectorsHoldTheDisk'
    BY <1>1, CacheKept DEF Boot
  <2>2. QED
    BY <1>1, <2>1 DEF Boot
<1>2. ASSUME NEW a \in Offset, read_byte(a) PROVE DInv'
  <2>1. SectorsHoldTheDisk'
    BY <1>2, CacheKept DEF read_byte
  <2>2. QED
    BY <1>2, <2>1 DEF read_byte
<1>3. CASE cache_fetch
  <2>1. SectorsHoldTheDisk'
    BY <1>3, CacheKept DEF cache_fetch
  <2>2. QED
    BY <1>3, <2>1 DEF cache_fetch, CacheHit, ptr, sector
<1>4. CASE clear_ide_intr
  <2>1. SectorsHoldTheDisk'
    BY <1>4, CacheKept DEF clear_ide_intr
  <2>2. QED
    BY <1>4, <2>1 DEF clear_ide_intr
<1>5. CASE ide_prepare
  <2>1. SectorsHoldTheDisk'
    BY <1>5, CacheKept DEF ide_prepare
  <2>2. sector \in Nat
    BY <1>5, Located DEF ide_prepare
  <2>3. QED
    BY <1>5, <2>1, <2>2 DEF ide_prepare, sector
<1>6. CASE issue_read
  <2>1. SectorsHoldTheDisk'
    BY <1>6, CacheKept DEF issue_read
  <2>2. Base \in Nat /\ sector_ports = sector
    BY <1>6, Located DEF issue_read
  <2>3. QED
    BY <1>6, <2>1, <2>2 DEF issue_read, Base, sector
<1>7. CASE wait_ide_intr
  <2>1. SectorsHoldTheDisk'
    BY <1>7, CacheKept DEF wait_ide_intr
  <2>2. QED
    BY <1>7, <2>1 DEF wait_ide_intr, Base, sector
<1>8. CASE clear_seen
  <2>1. SectorsHoldTheDisk'
    BY <1>8 DEF clear_seen, SectorsHoldTheDisk, AtPosition
  <2>2. Base \in Nat
    BY <1>8, Located DEF clear_seen
  <2>3. QED
    BY <1>8, <2>1, <2>2 DEF clear_seen, Base, sector, ptr, Index
<1>9. CASE in_long
  BY <1>9, InLongInv
<1>10. CASE cache_fetched
  BY <1>10, FetchedInv
<1>11. CASE return
  <2>1. SectorsHoldTheDisk'
    BY <1>11, CacheKept DEF return
  <2>2. ptr \in Slot /\ offset % SectorSize \in Index
    BY <1>11, Located DEF return
  <2>3. result' \in Word \cup {Nothing}
    BY <1>11, <2>2 DEF return
  <2>4. QED
    BY <1>11, <2>1, <2>3 DEF return
<1>12. CASE ExecuteHandler
  <2>1. handler' \in {<<>>, <<"iret">>, <<"ide_intr", "iret">>, <<"plain", "iret">>}
    <3>1. Tail(<<"iret">>) = <<>> /\ Tail(<<"ide_intr", "iret">>) = <<"iret">>
          /\ Tail(<<"plain", "iret">>) = <<"iret">>
      OBVIOUS
    <3>2. handler' = Tail(handler) /\ handler # <<>>
      BY <1>12 DEF ExecuteHandler
    <3>3. QED
      BY <3>1, <3>2
  <2>2. has_ide_intr' \in {0, 1}
    BY <1>12 DEF ExecuteHandler
  <2>3. UNCHANGED <<main, offset, result, cache, i, sector_ports, disk_pos, byte_cnt>>
    BY <1>12 DEF ExecuteHandler
  <2>4. QED
    BY <2>1, <2>2, <2>3 DEF SectorsHoldTheDisk, AtPosition, Base, sector, ptr, CacheHit
<1>13. CASE Dispatch
  <2>1. handler' \in {<<>>, <<"iret">>, <<"ide_intr", "iret">>, <<"plain", "iret">>}
    BY <1>13 DEF Dispatch, IrqHandler
  <2>2. UNCHANGED <<main, offset, result, cache, i, has_ide_intr, sector_ports, disk_pos, byte_cnt>>
    BY <1>13 DEF Dispatch
  <2>3. QED
    BY <2>1, <2>2 DEF SectorsHoldTheDisk, AtPosition, Base, sector, ptr, CacheHit
<1>14. CASE UNCHANGED <<main, handler, call_vars, driver_vars, drive_vars>>
  <2>1. UNCHANGED <<main, handler, offset, result, cache, i, has_ide_intr,
                    sector_ports, disk_pos, byte_cnt>>
    BY <1>14
  <2>2. DiskTypeOK' /\ RequestOpen' /\ Counted'
    BY <2>1
  <2>3. SectorsHoldTheDisk'
    BY <2>1 DEF SectorsHoldTheDisk, AtPosition, Base, sector, ptr
  <2>4. FillInProgress'
    BY <2>1 DEF AtPosition, Base, sector, ptr, CacheHit
  <2>5. QED
    BY <2>2, <2>3, <2>4
<1>15. QED
  BY <1>1, <1>2, <1>3, <1>4, <1>5, <1>6, <1>7, <1>8, <1>9, <1>10, <1>11, <1>12, <1>13, <1>14
     DEF DiskNext, DiskLoop, DiskWorld, MainInstruction, Rest, disk_vars

\* The inductive invariant of the driver holds in every run.
THEOREM DiskInvariant == DiskSpec => []DInv
BY InitDInv, NextDInv, PTL DEF DiskSpec

\* disk_do_read, cache_fetch and the drive keep to their types; in particular
\* no word is stored past the end of a slot (cache.c, disk.c).
THEOREM DiskTypeCorrect == DiskSpec => []DiskTypeOK
<1>1. DInv => DiskTypeOK
  BY DEF DInv
<1>2. QED
  BY <1>1, DiskInvariant, PTL

\* handler_ide's assertion: never more than a sector is taken for a command.
THEOREM DiskNeverOverruns == DiskSpec => []NeverOverrunsSector
<1>1. DInv => NeverOverrunsSector
  BY DiskAssumption DEF DInv, Counted, FillInProgress, NeverOverrunsSector
<1>2. QED
  BY <1>1, DiskInvariant, PTL

-----------------------------------------------------------------------------
(* The driver implements BlockDevice.                                      *)

\* A step of the emulator is a request, an answer, or nothing to the caller.
LEMMA DeviceStep == DInv /\ [DiskNext]_disk_vars => [Device!Next]_(Device!vars)
<1> SUFFICES ASSUME DInv, [DiskNext]_disk_vars PROVE [Device!Next]_(Device!vars)
  OBVIOUS
<1>1. ASSUME NEW a \in Offset, read_byte(a) PROVE Device!Next
  <2>1. main = "idle" /\ offset' = a /\ result' = result
    BY <1>1 DEF read_byte, Executes
  <2>2. offset = Nothing
    BY <2>1 DEF DInv, RequestOpen, Asked
  <2>3. QED
    BY <2>1, <2>2, DiskAssumption DEF Device!Next, Device!Request
<1>2. CASE return
  <2>1. /\ main = "return" /\ offset' = Nothing
        /\ result' = cache[ptr].content[offset % SectorSize]
    BY <1>2 DEF return, Executes
  <2>2. Asked /\ ~Filling
    BY <2>1 DEF Asked, Filling
  <2>3. /\ offset # Nothing /\ ptr \in Slot /\ offset % SectorSize \in Index
        /\ offset = Base + (offset % SectorSize)
    BY <2>2, Located
  <2>4. cache[ptr].used /\ cache[ptr].sector = sector
    BY <2>1 DEF DInv, FillInProgress, CacheHit
  <2>5. result' \in AtPosition(cache[ptr].sector * SectorSize + (offset % SectorSize))
    BY <2>1, <2>2, <2>3, <2>4 DEF DInv, SectorsHoldTheDisk
  <2>6. result' \in AtPosition(offset)
    BY <2>3, <2>4, <2>5 DEF Base
  <2>7. QED
    BY <2>1, <2>3, <2>6 DEF Device!Next, Device!Answer, Device!Holds, AtPosition
<1>3. CASE UNCHANGED call_vars
  BY <1>3 DEF call_vars, Device!vars
<1>4. QED
  BY <1>1, <1>2, <1>3
     DEF DiskNext, DiskLoop, DiskWorld, MainInstruction, Rest, disk_vars, Boot, cache_fetch,
         clear_ide_intr, ide_prepare, issue_read, wait_ide_intr, clear_seen, in_long,
         cache_fetched, ExecuteHandler, Dispatch

\* read_byte answers every request with what the disk holds there: the cache,
\* its evictions and the interrupts are invisible to the caller.
THEOREM DiskImplementsBlockDevice == DiskSpec => ImplementsBlockDevice
<1>1. DiskInit => Device!Init
  BY DEF DiskInit, Device!Init
<1>2. QED
  BY <1>1, DeviceStep, DiskInvariant, PTL DEF DiskSpec, ImplementsBlockDevice, Device!Spec

-----------------------------------------------------------------------------
(* The driver sleeps only after a pause.                                   *)

\* What the driver does to the machine, the guest of module Exec may do.
LEMMA DiskStepsAreExecSteps == [DiskNext]_disk_vars => [Next]_vars
BY DEF DiskNext, DiskLoop, DiskWorld, MainInstruction, Rest, disk_vars, Executes, Boot,
       read_byte, cache_fetch, clear_ide_intr, ide_prepare, issue_read, wait_ide_intr,
       clear_seen, in_long, cache_fetched, return, ExecuteHandler, Dispatch,
       Next, Loop, World, Instruction, Devices

\* One handler at a time, entered with interrupts off from a main program that
\* has them on.
HandlerOrMain ==
    /\ handler = <<>> => frames = <<>> /\ (main # "boot" => eflags_IF = 1)
    /\ main = "boot" => handler = <<>> /\ eflags_IF = 0
    /\ handler # <<>> => /\ eflags_IF = 0 /\ frames # <<>>
                        /\ Head(frames).flag = 1 /\ Tail(frames) = <<>>

\* From the command on, the drive's answer is pending, in a turn that will take
\* it or after a pause, or its handler has just been entered, or the flag is set.
AnswerAtHand ==
    main \in {"wait", "halt"} =>
        \/ has_ide_intr = 1
        \/ handler = <<"ide_intr", "iret">>
        \/ /\ handler = <<>> /\ intr = 1 /\ intr_no = IRQ_BASE + IDE_IRQ
           /\ at \in {"timer", "keyboard", "poll", "intr"} \/ paused

SInv == IInv /\ DInv /\ HandlerOrMain /\ AnswerAtHand

LEMMA InitSInv == DiskInit => SInv
<1> SUFFICES ASSUME DiskInit PROVE SInv
  OBVIOUS
<1>1. IInv /\ DInv
  BY InitInv, InitDInv DEF DiskInit
<1>2. HandlerOrMain /\ AnswerAtHand
  BY DEF DiskInit, Init, HandlerOrMain, AnswerAtHand
<1>3. QED
  BY <1>1, <1>2 DEF SInv

\* An instruction of the main program other than the command and the test.
LEMMA MainKeeps ==
    ASSUME SInv, handler = <<>>, handler' = handler, main # "boot", main' # "wait", main' # "halt",
           main' # "boot", UNCHANGED <<frames, eflags_IF>>
    PROVE  HandlerOrMain' /\ AnswerAtHand'
BY DEF SInv, HandlerOrMain, AnswerAtHand

LEMMA NextSInv == SInv /\ [DiskNext]_disk_vars => SInv'
<1> SUFFICES ASSUME SInv, [DiskNext]_disk_vars PROVE SInv'
  OBVIOUS
<1>1. IInv' /\ DInv'
  BY DiskStepsAreExecSteps, NextInv, NextDInv DEF SInv
<1> SUFFICES HandlerOrMain' /\ AnswerAtHand'
  BY <1>1 DEF SInv
<1> USE DEF Executes, Following
<1>2. CASE Boot
  BY <1>2 DEF Boot, sti, SInv, HandlerOrMain, AnswerAtHand
<1>3. ASSUME NEW a \in Offset, read_byte(a)
      PROVE  HandlerOrMain' /\ AnswerAtHand'
  BY <1>3, MainKeeps DEF read_byte, plain, cpu_vars
<1>4. CASE cache_fetch
  BY <1>4, MainKeeps DEF cache_fetch, plain, cpu_vars
<1>5. CASE clear_ide_intr
  BY <1>5, MainKeeps DEF clear_ide_intr, plain, cpu_vars
<1>6. CASE ide_prepare
  BY <1>6, MainKeeps DEF ide_prepare, plain, cpu_vars
<1>7. CASE issue_read
  <2>1. main = "issue" /\ main' = "wait" /\ handler = <<>> /\ handler' = <<>> /\ out_read_disk
    BY <1>7 DEF issue_read
  <2>2. intr' = 1 /\ intr_no' = IRQ_BASE + IDE_IRQ
    BY <2>1, HardwareVectors DEF out_read_disk, i8259_raise_intr, Prioritised, SInv, IInv, TypeOK,
       IRQ_BASE, IDE_IRQ, I8259_NO_INTR
  <2>3. at' = "timer" \/ paused'
    BY <2>1, Zenon DEF out_read_disk, Retire
  <2>4. UNCHANGED <<frames, eflags_IF>>
    BY <2>1 DEF out_read_disk, cpu_vars
  <2>5. QED
    BY <2>1, <2>2, <2>3, <2>4 DEF SInv, HandlerOrMain, AnswerAtHand
<1>8. CASE wait_ide_intr
  <2>1. /\ main \in {"wait", "halt"} /\ at = "inst" /\ handler = <<>>
        /\ UNCHANGED <<frames, eflags_IF, handler, intr, intr_no, has_ide_intr>>
    BY <1>8 DEF wait_ide_intr, plain, hlt, Retire, cpu_vars, pic_vars, driver_vars
  <2>2. at' = "timer" \/ paused'
    BY <1>8, Zenon DEF wait_ide_intr, plain, hlt, Retire
  <2>3. main' \in {"wait", "halt", "clear_seen"}
    BY <1>8 DEF wait_ide_intr
  <2>4. QED
    BY <2>1, <2>2, <2>3 DEF SInv, HandlerOrMain, AnswerAtHand
<1>9. CASE clear_seen
  BY <1>9, MainKeeps DEF clear_seen, plain, cpu_vars
<1>10. CASE in_long
  BY <1>10, MainKeeps DEF in_long, plain, cpu_vars
<1>11. CASE cache_fetched
  BY <1>11, MainKeeps DEF cache_fetched, plain, cpu_vars
<1>12. CASE return
  BY <1>12, MainKeeps DEF return, plain, cpu_vars
<1>13. CASE ExecuteHandler
  <2>1. /\ handler \in {<<"iret">>, <<"ide_intr", "iret">>, <<"plain", "iret">>}
        /\ main' = main
    BY <1>13 DEF ExecuteHandler, SInv, DInv, DiskTypeOK
  <2>2. CASE handler = <<"iret">>
    <3>1. Head(handler) = "iret" /\ handler' = <<>>
      BY <1>13, <2>2 DEF ExecuteHandler
    <3>2. frames' = <<>> /\ eflags_IF' = 1 /\ has_ide_intr' = has_ide_intr
      BY <1>13, <2>2, <3>1 DEF ExecuteHandler, iret, SInv, HandlerOrMain
    <3>3. main \in {"wait", "halt"} => has_ide_intr = 1
      BY <2>2 DEF SInv, AnswerAtHand
    <3>4. QED
      BY <2>1, <2>2, <3>1, <3>2, <3>3 DEF SInv, HandlerOrMain, AnswerAtHand
  <2>3. CASE handler \in {<<"ide_intr", "iret">>, <<"plain", "iret">>}
    <3>1. Head(handler) # "iret" /\ handler' = <<"iret">>
      <4>1. Tail(<<"ide_intr", "iret">>) = <<"iret">> /\ Tail(<<"plain", "iret">>) = <<"iret">>
        OBVIOUS
      <4>2. Head(handler) # "iret" /\ handler' = Tail(handler)
        BY <1>13, <2>3 DEF ExecuteHandler
      <4>3. QED
        BY <2>3, <4>1, <4>2
    <3>2. UNCHANGED <<frames, eflags_IF>>
      BY <1>13, <3>1 DEF ExecuteHandler, plain, cpu_vars
    <3>3. has_ide_intr' = IF handler = <<"ide_intr", "iret">> THEN 1 ELSE has_ide_intr
      BY <1>13, <2>3 DEF ExecuteHandler
    <3>4. main \in {"wait", "halt"} => has_ide_intr' = 1
      BY <2>3, <3>3 DEF SInv, AnswerAtHand
    <3>5. QED
      BY <2>1, <2>3, <3>1, <3>2, <3>4 DEF SInv, HandlerOrMain, AnswerAtHand
  <2>4. QED
    BY <2>1, <2>2, <2>3
<1>14. CASE Dispatch
  <2>1. CASE intr = 1 /\ eflags_IF = 1
    <3>1. handler = <<>> /\ frames = <<>> /\ main # "boot"
      BY <2>1 DEF SInv, HandlerOrMain
    <3>2. /\ frames' = <<[vector |-> intr_no, flag |-> eflags_IF]>> \o frames
          /\ main' = main /\ has_ide_intr' = has_ide_intr
      BY <1>14, <2>1 DEF Dispatch, do_intr, raise_intr, driver_vars
    <3>3. frames' = <<[vector |-> intr_no, flag |-> 1]>>
      BY <2>1, <3>1, <3>2
    <3>4. eflags_IF' = 0
      <4>1. intr_no \in Hardware
        BY <2>1 DEF SInv, IInv, TypeOK, WireIffPending
      <4>2. Hardware \subseteq InterruptGate
        BY ExecAssumption DEF Hardware
      <4>3. QED
        BY <1>14, <2>1, <4>1, <4>2 DEF Dispatch, do_intr, raise_intr
    <3>5. handler' = IrqHandler(intr_no)
      <4>1. frames' # frames
        BY <3>1, <3>3
      <4>2. QED
        BY <1>14, <4>1 DEF Dispatch
    <3>6. frames' # <<>> /\ Head(frames').flag = 1 /\ Tail(frames') = <<>>
      BY <3>3
    <3>7. handler' # <<>> /\ HandlerOrMain'
      BY <3>1, <3>2, <3>4, <3>5, <3>6 DEF IrqHandler, HandlerOrMain
    <3>8. main \in {"wait", "halt"} => has_ide_intr = 1 \/ handler' = <<"ide_intr", "iret">>
      BY <3>1, <3>5 DEF IrqHandler, SInv, AnswerAtHand
    <3>9. QED
      BY <3>2, <3>7, <3>8 DEF SInv, AnswerAtHand
  <2>2. CASE ~(intr = 1 /\ eflags_IF = 1)
    BY <1>14, <2>2 DEF Dispatch, do_intr, cpu_vars, pic_vars, driver_vars,
       SInv, HandlerOrMain, AnswerAtHand
  <2>3. QED
    BY <2>1, <2>2
<1>15. CASE Rest(Halted \/ do_timer \/ do_keyboard \/ PollEmpty \/ Exit)
  <2>1. UNCHANGED <<main, handler, has_ide_intr>>
    BY <1>15 DEF Rest, driver_vars
  <2>2. UNCHANGED <<frames, eflags_IF>>
    BY <1>15 DEF Rest, Halted, do_timer, do_keyboard, PollEmpty, Exit, cpu_vars
  <2>3. ASSUME intr = 1, intr_no = IRQ_BASE + IDE_IRQ,
               at \in {"timer", "keyboard", "poll", "intr"} \/ paused
        PROVE  /\ intr' = 1 /\ intr_no' = IRQ_BASE + IDE_IRQ
               /\ at' \in {"timer", "keyboard", "poll", "intr"} \/ paused'
    <3>1. CASE do_timer
      BY <2>3, <3>1 DEF do_timer, i8259_raise_intr, Prioritised, pic_vars,
         ui_vars, IRQ_BASE, IDE_IRQ, TIMER_IRQ, I8259_NO_INTR
    <3>2. CASE do_keyboard \/ PollEmpty
      BY <2>3, <3>2 DEF do_keyboard, PollEmpty, pic_vars, ui_vars
    <3>3. CASE Halted \/ Exit
      BY <2>3, <3>3 DEF Halted, Exit, pic_vars, ui_vars
    <3>4. QED
      BY <1>15, <3>1, <3>2, <3>3 DEF Rest
  <2>4. QED
    BY <2>1, <2>2, <2>3 DEF SInv, HandlerOrMain, AnswerAtHand
<1>16. ASSUME NEW d \in {"timer", "keyboard"}, Rest(Elapse(d))
       PROVE  HandlerOrMain' /\ AnswerAtHand'
  BY <1>16 DEF Rest, Elapse, ui_vars, cpu_vars, pic_vars, driver_vars,
     SInv, HandlerOrMain, AnswerAtHand
<1>17. ASSUME NEW k \in 1 .. MaxInstr, Rest(Command(k))
       PROVE  HandlerOrMain' /\ AnswerAtHand'
  BY <1>17 DEF Rest, Command, cpu_vars, pic_vars, driver_vars,
     SInv, HandlerOrMain, AnswerAtHand
<1>18. CASE UNCHANGED disk_vars
  BY <1>18 DEF disk_vars, vars, ui_vars, cpu_vars, pic_vars, driver_vars,
     SInv, HandlerOrMain, AnswerAtHand
<1>19. QED
  BY <1>2, <1>3, <1>4, <1>5, <1>6, <1>7, <1>8, <1>9, <1>10, <1>11, <1>12, <1>13, <1>14,
     <1>15, <1>16, <1>17, <1>18
     DEF DiskNext, DiskLoop, DiskWorld, MainInstruction

\* The test of the flag fails only as the first instruction after a pause.
LEMMA TestFindsAnswer ==
    ASSUME SInv, [DiskNext]_disk_vars, main' = "halt", main # "halt"
    PROVE  paused
<1>1. wait_ide_intr
  BY DEF DiskNext, DiskLoop, DiskWorld, MainInstruction, Executes, Following, Boot, read_byte,
     cache_fetch, clear_ide_intr, ide_prepare, issue_read, clear_seen, in_long, cache_fetched,
     return, ExecuteHandler, Dispatch, Rest, disk_vars
<1>2. main = "wait" /\ has_ide_intr = 0 /\ at = "inst" /\ handler = <<>>
  BY <1>1 DEF wait_ide_intr, Executes, plain, Retire, SInv, DInv, DiskTypeOK
<1>3. QED
  BY <1>2 DEF SInv, AnswerAtHand

\* The drive answers within the command, in a slot that nothing outranks, and
\* the handler runs before the test, unless a watchpoint's pause comes between.
THEOREM DiskSleepsOnlyAfterPause == DiskSpec => SleepsOnlyAfterPause
<1>1. SInv /\ [DiskNext]_disk_vars => [main = "wait" /\ main' = "halt" => paused]_disk_vars
  BY TestFindsAnswer
<1>2. QED
  BY <1>1, InitSInv, NextSInv, PTL DEF DiskSpec, SleepsOnlyAfterPause

\* Where no watchpoint is set, wait_ide_intr never reaches its hlt.
THEOREM UnwatchedDiskNeverSleeps ==
    ASSUME ~Watching
    PROVE  DiskSpec => [](main # "halt")
<1>1. DiskInit => main # "halt"
  BY DEF DiskInit
<1>2. SInv /\ main # "halt" /\ [DiskNext]_disk_vars => (main # "halt")'
  BY TestFindsAnswer, Zenon DEF SInv, IInv, WatchedPauses
<1>3. QED
  BY <1>1, <1>2, InitSInv, NextSInv, PTL DEF DiskSpec

\* The emulator running the driver is the main loop of Exec under one guest:
\* all that is said of exec holds of it.
THEOREM DiskRunsOnExec == DiskSpec => Init /\ [][Next]_vars
<1>1. DiskInit => Init
  BY DEF DiskInit
<1>2. QED
  BY <1>1, DiskStepsAreExecSteps, PTL DEF DiskSpec
=============================================================================
