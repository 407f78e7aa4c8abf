---------------------------- MODULE I8259Proofs -----------------------------
(***************************************************************************)
(* The safety of the interrupt controller, for any set of raising threads  *)
(* and any lines.  The argument: the mutex serialises the critical         *)
(* sections (MutexHeld), so "slot written, wire not yet" and "slot         *)
(* cleared, wire not yet" never overlap; hence the wire is up only while a *)
(* request is pending (WireTellsTheTruth), which is what do_intr relies on *)
(* when it reads both without the mutex.                                   *)
(***************************************************************************)
EXTENDS I8259, TLAPS

\* A thread is inside a critical section iff it holds the mutex.
MutexHeld ==
    \A t \in Thread : pc[t] \in RaiseCritical \cup AckCritical <=> holder = t

\* Only the emulator thread acknowledges.
OnlyCpuDispatches == \A t \in Thread : pc[t] \in Dispatching => t = Cpu

\* irq_no of a raise in progress is one of the lines of its thread.
RaisesItsLines ==
    \A t \in Thread : pc[t] \in {"raise_lock"} \cup RaiseCritical => irq[t] \in Lines[t]

\* The wire is up, or will be, only for a pending request, except in the
\* middle of an acknowledge, when there is none.
WireTellsTheTruth ==
    /\ intr = 1 /\ pc[Cpu] # "ack_line" => raised # {}
    /\ \A t \in Thread : pc[t] = "raise_line" => raised # {}
    /\ pc[Cpu] \in {"query", "ack_lock", "ack_slot"} => raised # {}
    /\ pc[Cpu] = "ack_line" => raised = {}

IInv ==
    /\ TypeOK /\ MutexHeld /\ OnlyCpuDispatches /\ RaisesItsLines
    /\ WireTellsTheTruth
    /\ PendingIsHighest /\ NoForgottenRequest /\ NoSpuriousDispatch

-----------------------------------------------------------------------------
\* Every line number is a natural number whose vector is not I8259_NO_INTR.
LEMMA LinesBounded == IRQ \subseteq 0 .. 222
BY PicAssumption DEF IRQ, IRQ_BASE, I8259_NO_INTR

\* The lines of a thread are lines.
LEMMA LinesAreIRQs == ASSUME NEW t \in Thread PROVE Lines[t] \subseteq IRQ
BY DEF IRQ

LEMMA InitInv == Init => IInv
<1> SUFFICES ASSUME Init PROVE IInv
  OBVIOUS
<1> USE PicAssumption DEF Init, I8259_NO_INTR
<1>1. TypeOK
  BY DEF TypeOK
<1>2. MutexHeld /\ OnlyCpuDispatches /\ RaisesItsLines
  BY DEF MutexHeld, OnlyCpuDispatches, RaisesItsLines, RaiseCritical, AckCritical,
         Dispatching, Thread
<1>3. Cpu \in Thread
  BY DEF Thread
<1>4. WireTellsTheTruth
  BY <1>3 DEF WireTellsTheTruth
<1>5. PendingIsHighest /\ NoForgottenRequest
  BY DEF PendingIsHighest, NoForgottenRequest
<1>6. NoSpuriousDispatch
  BY <1>3 DEF NoSpuriousDispatch, Dispatching, AckCritical
<1>7. QED
  BY <1>1, <1>2, <1>4, <1>5, <1>6 DEF IInv

\* What every step may use of the invariant.
LEMMA Facts ==
    ASSUME IInv
    PROVE  /\ Cpu \in Thread
           /\ raised \subseteq 0 .. 222
           /\ intr_no \in 32 .. 255
           /\ raised # {} => /\ intr_no - 32 \in raised /\ intr_no # 255
                             /\ \A i \in raised : i <= intr_no - 32
<1>1. Cpu \in Thread
  BY DEF Thread
<1>2. raised \subseteq 0 .. 222 /\ intr_no \in 32 .. 255
  BY LinesBounded DEF IInv, TypeOK, IRQ_BASE, I8259_NO_INTR
<1>3. raised # {} => intr_no - 32 \in raised /\ \A i \in raised : i <= intr_no - 32
  BY DEF IInv, PendingIsHighest, IRQ_BASE
<1>4. raised # {} => intr_no - 32 \in 0 .. 222
  BY <1>2, <1>3
<1>5. QED
  BY <1>1, <1>2, <1>3, <1>4

LEMMA RaiseSlotInv == ASSUME IInv, NEW t \in Thread, RaiseSlot(t) PROVE IInv'
<1> USE DEF RaiseSlot, Goto, IInv
<1>1. /\ Cpu \in Thread
      /\ raised \subseteq 0 .. 222
      /\ intr_no \in 32 .. 255
  BY Facts
<1>2. /\ irq[t] \in IRQ /\ irq[t] \in 0 .. 222
      /\ holder = t
  BY LinesAreIRQs, LinesBounded DEF RaisesItsLines, MutexHeld, RaiseCritical
<1>3. \A u \in Thread : u # t => pc[u] \notin RaiseCritical \cup AckCritical
  BY <1>2 DEF MutexHeld
<1>4. /\ intr_no' \in {intr_no, irq[t] + 32}
      /\ intr_no' # 255 /\ irq[t] + 32 <= intr_no'
      /\ intr_no # 255 => intr_no <= intr_no'
      /\ intr_no' \in 32 .. 255
  BY <1>1, <1>2 DEF Prioritised, IRQ_BASE, I8259_NO_INTR
<1>5. TypeOK'
  <2>1. intr_no' \in {i + IRQ_BASE : i \in IRQ} \cup {I8259_NO_INTR}
    BY <1>2, <1>4 DEF TypeOK, IRQ_BASE
  <2>2. QED
    BY <1>2, <2>1 DEF TypeOK, RaiseCritical
<1>6. (MutexHeld /\ OnlyCpuDispatches /\ RaisesItsLines)'
  BY DEF TypeOK, MutexHeld, OnlyCpuDispatches, RaisesItsLines, RaiseCritical, AckCritical,
         Dispatching
<1>7. t # Cpu => pc'[Cpu] = pc[Cpu] /\ pc[Cpu] \notin AckCritical
  BY <1>1, <1>3 DEF TypeOK
<1>8. t = Cpu => pc'[Cpu] = "raise_line"
  BY <1>1 DEF TypeOK
<1>9. WireTellsTheTruth'
  BY <1>7, <1>8 DEF WireTellsTheTruth, AckCritical
<1>10. PendingIsHighest'
  <2>1. raised' = raised \cup {irq[t]}
    OBVIOUS
  <2>2. CASE raised = {}
    BY <2>1, <2>2, <1>2, <1>4 DEF PendingIsHighest, IRQ_BASE, I8259_NO_INTR
  <2>3. CASE raised # {}
    <3>1. /\ intr_no - 32 \in raised /\ intr_no # 255
          /\ \A i \in raised : i <= intr_no - 32
      BY <2>3, Facts
    <3>2. intr_no' - 32 \in raised'
      BY <3>1, <2>1, <1>1, <1>2, <1>4
    <3>3. \A i \in raised' : i <= intr_no' - 32
      <4> SUFFICES ASSUME NEW i \in raised' PROVE i <= intr_no' - 32
        OBVIOUS
      <4>1. CASE i = irq[t]
        BY <4>1, <1>2, <1>4
      <4>2. CASE i \in raised
        BY <4>2, <3>1, <1>1, <1>4
      <4>3. QED
        BY <4>1, <4>2, <2>1
    <3>4. QED
      BY <3>2, <3>3, <2>1 DEF PendingIsHighest, IRQ_BASE
  <2>4. QED
    BY <2>2, <2>3
<1>11. NoForgottenRequest'
  BY DEF TypeOK, NoForgottenRequest
<1>12. NoSpuriousDispatch'
  <2>1. CASE t = Cpu
    BY <2>1, <1>8 DEF NoSpuriousDispatch, Dispatching, AckCritical
  <2>2. CASE t # Cpu /\ pc[Cpu] \in {"ack_lock"}
    <3>1. /\ vector - 32 \in raised /\ vector <= intr_no
          /\ raised # {} /\ vector # 255
      BY <2>2 DEF NoSpuriousDispatch, IRQ_BASE, I8259_NO_INTR, Dispatching
    <3>2. vector \in 32 .. 255
      BY LinesBounded DEF TypeOK, IRQ_BASE, I8259_NO_INTR
    <3>3. intr_no # 255
      BY <3>1, Facts
    <3>4. vector <= intr_no'
      BY <3>1, <3>3, <3>2, <1>1, <1>4
    <3>5. QED
      BY <2>2, <3>1, <3>4, <1>7 DEF NoSpuriousDispatch, IRQ_BASE, I8259_NO_INTR
  <2>3. CASE t # Cpu /\ pc[Cpu] \notin {"ack_lock"}
    BY <2>3, <1>7 DEF NoSpuriousDispatch, Dispatching, AckCritical
  <2>4. QED
    BY <2>1, <2>2, <2>3
<1>13. QED
  BY <1>5, <1>6, <1>9, <1>10, <1>11, <1>12

LEMMA NextInv == IInv /\ [Next]_vars => IInv'
<1> SUFFICES ASSUME IInv, [Next]_vars PROVE IInv'
  OBVIOUS
<1> USE PicAssumption, LinesBounded
<1> USE DEF Thread, IRQ_BASE, I8259_NO_INTR, Goto, RaiseCritical, AckCritical, Dispatching
<1> USE DEF IInv, TypeOK, MutexHeld, OnlyCpuDispatches, RaisesItsLines,
            WireTellsTheTruth, PendingIsHighest, NoForgottenRequest, NoSpuriousDispatch
<1>1. ASSUME NEW t \in Thread, NEW i \in Lines[t], Raise(t, i) PROVE IInv'
  <2>1. i \in IRQ
    BY LinesAreIRQs
  <2>2. QED
    BY <1>1, <2>1 DEF Raise
<1>2. ASSUME NEW t \in Thread, RaiseLock(t) PROVE IInv'
  BY <1>2 DEF RaiseLock
<1>3. ASSUME NEW t \in Thread, RaiseGiveUp(t) PROVE IInv'
  BY <1>3 DEF RaiseGiveUp
<1>4. ASSUME NEW t \in Thread, RaiseSlot(t) PROVE IInv'
  BY <1>4, RaiseSlotInv
<1>5. ASSUME NEW t \in Thread, RaiseLine(t) PROVE IInv'
  BY <1>5 DEF RaiseLine
<1>6. ASSUME NEW t \in Thread, RaiseUnlock(t) PROVE IInv'
  BY <1>6 DEF RaiseUnlock
<1>7. CASE DoIntr
  BY <1>7 DEF DoIntr
<1>8. CASE QueryIntrNo
  <2>1. raised # {} /\ intr_no - 32 \in raised /\ intr_no \in 32 .. 255
    BY <1>8, Facts DEF QueryIntrNo
  <2>2. intr_no # 255
    BY <2>1
  <2>3. vector' = intr_no /\ UNCHANGED <<raised, intr_no>>
    BY <1>8 DEF QueryIntrNo
  <2>4. NoSpuriousDispatch'
    BY <2>1, <2>2, <2>3
  <2>5. QED
    BY <1>8, <2>4 DEF QueryIntrNo
<1>9. CASE AckLock
  BY <1>9 DEF AckLock
<1>10. CASE AckSlot
  BY <1>10 DEF AckSlot
<1>11. CASE AckLine
  <2>1. raised = {} /\ UNCHANGED raised
    BY <1>11 DEF AckLine
  <2>2. (TypeOK /\ MutexHeld /\ OnlyCpuDispatches /\ RaisesItsLines)'
    BY <1>11 DEF AckLine
  <2>3. (PendingIsHighest /\ NoForgottenRequest)'
    BY <1>11, <2>1 DEF AckLine
  <2>4. (WireTellsTheTruth /\ NoSpuriousDispatch)'
    BY <1>11, <2>1 DEF AckLine
  <2>5. QED
    BY <2>2, <2>3, <2>4
<1>12. CASE AckUnlock
  BY <1>12 DEF AckUnlock
<1>13. CASE Destroy
  BY <1>13 DEF Destroy
<1>14. CASE UNCHANGED vars
  BY <1>14 DEF vars
<1>15. QED
  BY <1>1, <1>2, <1>3, <1>4, <1>5, <1>6, <1>7, <1>8, <1>9, <1>10, <1>11, <1>12, <1>13,
     <1>14 DEF Next, RaiseSteps, DoIntrSteps

-----------------------------------------------------------------------------
\* IInv is an invariant of the controller.
THEOREM PicInvariant == Spec => []IInv
<1>1. QED
  BY InitInv, NextInv, PTL DEF Spec

\* Type correctness of the controller and of the threads that use it.
THEOREM PicTypeCorrect == Spec => []TypeOK
BY PicInvariant, PTL DEF IInv

\* The slot holds the highest line raised since the last acknowledge.
THEOREM PicKeepsTheHighest == Spec => []PendingIsHighest
BY PicInvariant, PTL DEF IInv

\* No request waits in the slot with the wire to the CPU down.
THEOREM PicForgetsNoRequest == Spec => []NoForgottenRequest
BY PicInvariant, PTL DEF IInv

\* The assertion of do_intr holds: what it dispatches was raised.
THEOREM PicDispatchesRaised == Spec => []NoSpuriousDispatch
BY PicInvariant, PTL DEF IInv

-----------------------------------------------------------------------------
(* Without audio the emulator thread is the only one that raises.          *)

\* From the read of the slot to its acknowledge nobody raises in between.
ReadIsPending == pc[Cpu] \in {"ack_lock", "ack_slot"} => intr_no = vector

LEMMA ReadStaysPending ==
    ASSUME Raiser = {}, IInv, ReadIsPending, [Next]_vars
    PROVE  ReadIsPending'
<1>1. Thread = {Cpu} /\ pc \in [Thread -> {"idle", "raise_lock"} \cup RaiseCritical \cup Dispatching]
  BY DEF Thread, IInv, TypeOK
<1>2. CASE \E t \in Thread : RaiseSteps(t)
  <2>1. RaiseSteps(Cpu)
    BY <1>1, <1>2
  <2>2. pc'[Cpu] \notin {"ack_lock", "ack_slot"}
    BY <1>1, <2>1
       DEF RaiseSteps, Raise, RaiseLock, RaiseGiveUp, RaiseSlot, RaiseLine, RaiseUnlock, Goto
  <2>3. QED
    BY <2>2 DEF ReadIsPending
<1>3. CASE DoIntrSteps
  BY <1>1, <1>3
     DEF DoIntrSteps, DoIntr, QueryIntrNo, AckLock, AckSlot, AckLine, AckUnlock, Goto, ReadIsPending
<1>4. CASE Destroy \/ UNCHANGED vars
  BY <1>4 DEF Destroy, vars, ReadIsPending
<1>5. QED
  BY <1>2, <1>3, <1>4 DEF Next

\* What the comment on i8259_mutex promises, and what module Exec takes for granted
\* when do_intr is one step of it: the acknowledge clears the request do_intr has
\* read.  It holds for one raising thread, and AcksWhatItRead fails with a second.
THEOREM AloneAcksWhatItRead ==
    ASSUME Raiser = {}
    PROVE  Spec => []AcksWhatItRead
<1>1. Init => ReadIsPending
  BY DEF Init, ReadIsPending, Thread
<1>2. IInv /\ ReadIsPending /\ [Next]_vars => ReadIsPending'
  BY ReadStaysPending
<1>3. ReadIsPending => AcksWhatItRead
  BY DEF ReadIsPending, AcksWhatItRead
<1>4. QED
  BY <1>1, <1>2, <1>3, PicInvariant, PTL DEF Spec
=============================================================================
