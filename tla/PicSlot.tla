------------------------------ MODULE PicSlot -------------------------------
(* The pending slot of the interrupt controller, i8259_intr_no, and the    *)
(* lines and vectors of the machine.                                       *)
EXTENDS Integers

TIMER_IRQ == 0
KEYBOARD_IRQ == 1
IDE_IRQ == 14
SYSCALL == 128           \* the vector of the guest's int instruction

IRQ_BASE == 32
I8259_NO_INTR == 255

\* Variants for the mutation check: the newest request wins whatever its line;
\* IRQ_BASE is forgotten.
NewestWins(slot, i) == i + IRQ_BASE
NoBase(slot, i) == IF slot = I8259_NO_INTR \/ i > slot THEN i ELSE slot

\* The higher line number wins; the loser is dropped.
Prioritised(slot, i) ==
    IF slot = I8259_NO_INTR \/ i > slot - IRQ_BASE THEN i + IRQ_BASE ELSE slot
=============================================================================
