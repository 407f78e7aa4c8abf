------------------------------ MODULE Machine ------------------------------
(***************************************************************************)
(* What a guest can see of the emulated CPU and of the clock and keyboard  *)
(* on its interrupt line: the abstract specification of module Exec.  The  *)
(* turns of exec, the monitor, the poll intervals and the queue of events  *)
(* are gone: a device may raise its line between any two instructions, and *)
(* an interrupt the CPU accepts comes before the next instruction.  Exec   *)
(* implements it as long as no watchpoint of the debugger pauses it.       *)
(***************************************************************************)
EXTENDS PicSlot, Sequences

CONSTANTS ScanCode,      \* what the keyboard puts in its buffer
          NoKey,         \* the buffer before any key
          InterruptGate  \* vectors whose IDT entry has type 14

VARIABLES is_nemu_hlt,   \* the CPU sleeps in hlt
          eflags_IF,
          frames,        \* exception frames, innermost first
          intr_no,       \* the vector pending at the controller
          scan_code_buf  \* what port 0x60 returns

machine_vars == <<is_nemu_hlt, eflags_IF, frames, intr_no, scan_code_buf>>

PowerOn ==
    /\ is_nemu_hlt = FALSE /\ eflags_IF = 0 /\ frames = <<>>
    /\ intr_no = I8259_NO_INTR /\ scan_code_buf = NoKey

-----------------------------------------------------------------------------
(* The devices.                                                            *)

Tick ==
    /\ intr_no' = Prioritised(intr_no, TIMER_IRQ)
    /\ UNCHANGED <<is_nemu_hlt, eflags_IF, frames, scan_code_buf>>

\* A key goes down or up: its code replaces one that was not read.
Key(c) ==
    /\ scan_code_buf' = c
    /\ intr_no' = Prioritised(intr_no, KEYBOARD_IRQ)
    /\ UNCHANGED <<is_nemu_hlt, eflags_IF, frames>>

-----------------------------------------------------------------------------
(* The CPU.                                                                *)

Accepts == eflags_IF = 1 /\ intr_no # I8259_NO_INTR

Enter(v) ==
    /\ frames' = <<[vector |-> v, flag |-> eflags_IF]>> \o frames
    /\ eflags_IF' = IF v \in InterruptGate THEN 0 ELSE eflags_IF

\* The pending interrupt is taken, and wakes a halted CPU.
Interrupt ==
    /\ Accepts
    /\ Enter(intr_no)
    /\ intr_no' = I8259_NO_INTR /\ is_nemu_hlt' = FALSE
    /\ UNCHANGED scan_code_buf

\* No instruction goes before an interrupt the CPU accepts.
Fetches == ~is_nemu_hlt /\ ~Accepts

\* Any instruction that leaves the interrupt state alone.
Plain == Fetches /\ UNCHANGED machine_vars

Cli ==
    /\ Fetches /\ eflags_IF' = 0
    /\ UNCHANGED <<is_nemu_hlt, frames, intr_no, scan_code_buf>>

Sti ==
    /\ Fetches /\ eflags_IF' = 1
    /\ UNCHANGED <<is_nemu_hlt, frames, intr_no, scan_code_buf>>

Hlt ==
    /\ Fetches /\ is_nemu_hlt' = TRUE
    /\ UNCHANGED <<eflags_IF, frames, intr_no, scan_code_buf>>

Int80 ==
    /\ Fetches /\ Enter(SYSCALL)
    /\ UNCHANGED <<is_nemu_hlt, intr_no, scan_code_buf>>

Iret ==
    /\ Fetches /\ frames # <<>>
    /\ eflags_IF' = Head(frames).flag /\ frames' = Tail(frames)
    /\ UNCHANGED <<is_nemu_hlt, intr_no, scan_code_buf>>

\* The command to the disk, which answers at once.
OutDisk ==
    /\ Fetches /\ intr_no' = Prioritised(intr_no, IDE_IRQ)
    /\ UNCHANGED <<is_nemu_hlt, eflags_IF, frames, scan_code_buf>>

MachineNext ==
    \/ Tick \/ (\E c \in ScanCode : Key(c)) \/ Interrupt
    \/ Cli \/ Sti \/ Hlt \/ Int80 \/ Iret \/ OutDisk

MachineSpec == PowerOn /\ [][MachineNext]_machine_vars
=============================================================================
