------------------------------- MODULE I8259 --------------------------------
(***************************************************************************)
(* The interrupt controller (nemu/src/device/i8259_pic.c) and the side of  *)
(* the CPU that drains it (do_intr in nemu/src/cpu/cpu.c).                 *)
(*                                                                         *)
(* The controller has one pending slot, i8259_intr_no, and one wire to the *)
(* CPU, cpu.intr.  i8259_raise_intr and i8259_ack_intr change both under   *)
(* i8259_mutex; do_intr tests cpu.intr and reads the slot without it.  The *)
(* emulator thread raises (timer, keyboard, disk) and acknowledges; in the *)
(* builds with audio other threads raise too (Raiser).  Every memory       *)
(* access and every lock operation is a step of its own, in program order. *)
(***************************************************************************)
EXTENDS PicSlot

CONSTANTS Cpu,        \* the emulator thread, the only one that acknowledges
          Raiser,     \* other threads that call i8259_raise_intr
          Lines,      \* [Thread -> SUBSET IRQ number]: what each may raise
          NoThread    \* the holder of a free mutex

Thread == Raiser \cup {Cpu}
IRQ == UNION {Lines[t] : t \in Thread}

ASSUME PicAssumption ==
    /\ Cpu \notin Raiser /\ NoThread \notin Thread
    /\ Lines \in [Thread -> SUBSET (0 .. I8259_NO_INTR - IRQ_BASE - 1)]

VARIABLES intr_no,    \* i8259_intr_no
          intr,       \* cpu.intr
          holder,     \* the thread inside i8259_mutex, or NoThread
          destroyed,  \* NEMU_STOP was reached and i8259_destroy called
          pc,         \* where each thread is
          irq,        \* irq_no of the raise each thread is in
          vector,     \* intr_no of do_intr
          raised      \* history: lines raised since the last acknowledge

vars == <<intr_no, intr, holder, destroyed, pc, irq, vector, raised>>

Goto(t, l) == pc' = [pc EXCEPT ![t] = l]

Init ==
    /\ intr_no = I8259_NO_INTR
    /\ intr = 0
    /\ holder = NoThread
    /\ destroyed = FALSE
    /\ pc = [t \in Thread |-> "idle"]
    /\ irq = [t \in Thread |-> I8259_NO_INTR]
    /\ vector = I8259_NO_INTR
    /\ raised = {}

-----------------------------------------------------------------------------
(* i8259_raise_intr                                                        *)

Raise(t, i) ==
    /\ pc[t] = "idle" /\ (t = Cpu => ~destroyed)
    /\ irq' = [irq EXCEPT ![t] = i]
    /\ Goto(t, "raise_lock")
    /\ UNCHANGED <<intr_no, intr, holder, destroyed, vector, raised>>

\* Variant for the mutation check: cpu.intr is set before the slot.
LineBeforeSlot(t) ==
    /\ pc[t] = "raise_lock"
    /\ holder = NoThread
    /\ holder' = t
    /\ intr' = 1
    /\ Goto(t, "raise_slot")
    /\ UNCHANGED <<intr_no, destroyed, irq, vector, raised>>

\* Also on a destroyed mutex whose memory still looks like one.
RaiseLock(t) ==
    /\ pc[t] = "raise_lock"
    /\ holder = NoThread
    /\ holder' = t
    /\ Goto(t, "raise_slot")
    /\ UNCHANGED <<intr_no, intr, destroyed, irq, vector, raised>>

\* SDL_LockMutex may fail once the mutex is destroyed; nemu_state is NEMU_STOP
\* then.  That the freed memory is reused is not modelled.
RaiseGiveUp(t) ==
    /\ pc[t] = "raise_lock" /\ destroyed
    /\ Goto(t, "idle")
    /\ UNCHANGED <<intr_no, intr, holder, destroyed, irq, vector, raised>>

RaiseSlot(t) ==
    /\ pc[t] = "raise_slot"
    /\ intr_no' = Prioritised(intr_no, irq[t])
    /\ raised' = raised \cup {irq[t]}
    /\ Goto(t, "raise_line")
    /\ UNCHANGED <<intr, holder, destroyed, irq, vector>>

RaiseLine(t) ==
    /\ pc[t] = "raise_line"
    /\ intr' = 1
    /\ Goto(t, "raise_unlock")
    /\ UNCHANGED <<intr_no, holder, destroyed, irq, vector, raised>>

RaiseUnlock(t) ==
    /\ pc[t] = "raise_unlock"
    /\ holder' = NoThread
    /\ Goto(t, "idle")
    /\ UNCHANGED <<intr_no, intr, destroyed, irq, vector, raised>>

-----------------------------------------------------------------------------
(* do_intr, and the i8259_query_intr_no and i8259_ack_intr it calls.       *)
(* Whether EFLAGS.IF is set is up to the guest: DoIntr may not be taken.   *)

DoIntr ==
    /\ pc[Cpu] = "idle" /\ ~destroyed
    /\ intr = 1
    /\ Goto(Cpu, "query")
    /\ UNCHANGED <<intr_no, intr, holder, destroyed, irq, vector, raised>>

QueryIntrNo ==
    /\ pc[Cpu] = "query"
    /\ vector' = intr_no
    /\ Goto(Cpu, "ack_lock")
    /\ UNCHANGED <<intr_no, intr, holder, destroyed, irq, raised>>

\* Variant: i8259_ack_intr does not wait for the mutex.
AckUnlocked ==
    /\ pc[Cpu] = "ack_lock"
    /\ Goto(Cpu, "ack_slot")
    /\ UNCHANGED <<intr_no, intr, holder, destroyed, irq, vector, raised>>

AckLock ==
    /\ pc[Cpu] = "ack_lock"
    /\ holder = NoThread
    /\ holder' = Cpu
    /\ Goto(Cpu, "ack_slot")
    /\ UNCHANGED <<intr_no, intr, destroyed, irq, vector, raised>>

AckSlot ==
    /\ pc[Cpu] = "ack_slot"
    /\ intr_no' = I8259_NO_INTR
    /\ raised' = {}
    /\ Goto(Cpu, "ack_line")
    /\ UNCHANGED <<intr, holder, destroyed, irq, vector>>

AckLine ==
    /\ pc[Cpu] = "ack_line"
    /\ intr' = 0
    /\ Goto(Cpu, "ack_unlock")
    /\ UNCHANGED <<intr_no, holder, destroyed, irq, vector, raised>>

\* Then raise_intr(vector) enters the guest's handler.
AckUnlock ==
    /\ pc[Cpu] = "ack_unlock"
    /\ holder' = NoThread
    /\ Goto(Cpu, "idle")
    /\ UNCHANGED <<intr_no, intr, destroyed, irq, vector, raised>>

\* The end of exec on NEMU_STOP.
Destroy ==
    /\ pc[Cpu] = "idle" /\ ~destroyed
    /\ destroyed' = TRUE
    /\ UNCHANGED <<intr_no, intr, holder, pc, irq, vector, raised>>

RaiseSteps(t) ==
    \/ \E i \in Lines[t] : Raise(t, i)
    \/ RaiseLock(t) \/ RaiseGiveUp(t) \/ RaiseSlot(t) \/ RaiseLine(t) \/ RaiseUnlock(t)

DoIntrSteps ==
    DoIntr \/ QueryIntrNo \/ AckLock \/ AckSlot \/ AckLine \/ AckUnlock

Next == (\E t \in Thread : RaiseSteps(t)) \/ DoIntrSteps \/ Destroy

Spec == Init /\ [][Next]_vars

-----------------------------------------------------------------------------
(* Correctness.                                                            *)

RaiseCritical == {"raise_slot", "raise_line", "raise_unlock"}
AckCritical   == {"ack_slot", "ack_line", "ack_unlock"}
Dispatching   == {"query", "ack_lock"} \cup AckCritical

\* Values of the slot and of do_intr's local, control points of the threads.
TypeOK ==
    /\ intr_no \in {i + IRQ_BASE : i \in IRQ} \cup {I8259_NO_INTR}
    /\ vector \in {i + IRQ_BASE : i \in IRQ} \cup {I8259_NO_INTR}
    /\ intr \in {0, 1}
    /\ holder \in Thread \cup {NoThread}
    /\ destroyed \in BOOLEAN
    /\ pc \in [Thread -> {"idle", "raise_lock"} \cup RaiseCritical \cup Dispatching]
    /\ irq \in [Thread -> IRQ \cup {I8259_NO_INTR}]
    /\ raised \in SUBSET IRQ

\* The one slot of the controller holds the highest of the lines raised since
\* the last acknowledge, and is empty exactly when there is none: whatever the
\* order of the raises, a lower line never displaces a higher one.
PendingIsHighest ==
    IF raised = {} THEN intr_no = I8259_NO_INTR
    ELSE /\ intr_no - IRQ_BASE \in raised
         /\ \A i \in raised : i <= intr_no - IRQ_BASE

\* A request is never in the slot with the wire to the CPU down, unless its
\* raiser is about to set it: an acknowledge that overlaps a raise on another
\* thread does not clear the wire the raise has just set.
NoForgottenRequest ==
    raised # {} => intr = 1 \/ \E t \in Thread : pc[t] = "raise_line"

\* The assertion of do_intr, intr_no != I8259_NO_INTR, although cpu.intr and
\* the slot are read without the mutex: the vector dispatched is that of a
\* line raised since the last acknowledge, never above the pending one.
NoSpuriousDispatch ==
    /\ pc[Cpu] \in Dispatching \ {"query"} => vector # I8259_NO_INTR
    /\ pc[Cpu] \in {"ack_lock", "ack_slot"} =>
          vector - IRQ_BASE \in raised /\ vector <= intr_no

\* "the i8259_mutex is to protect the i8259_intr_no and cpu.intr"
\* (i8259_pic.c:25): what the acknowledge clears is the request do_intr read.
AcksWhatItRead == pc[Cpu] = "ack_slot" => intr_no = vector
=============================================================================
