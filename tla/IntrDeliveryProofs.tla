------------------------- MODULE IntrDeliveryProofs -------------------------
(***************************************************************************)
(* Proofs about IntrDelivery, for any set of device threads and any bound  *)
(* on the nesting of handlers: its safety invariants, from one inductive   *)
(* invariant IInv, and that every step of the threads is a step of the     *)
(* abstract slot IrqLatch or leaves it unchanged.                          *)
(***************************************************************************)
EXTENDS IntrDelivery, SequenceTheorems, TLAPS

(* The critical section of a thread is where its pc says it is.            *)
InSection(t) == pc[t] \in {"latch", "set", "ackno", "ackintr"}

MutexInv ==
  /\ destroyed <=> pc[Cpu] = "done"
  /\ ~destroyed => /\ \A t \in Threads : t \in holders <=> InSection(t)
                   /\ \A s, t \in holders : s = t

(* The line is never up over an empty slot, except in the middle of an     *)
(* acknowledgement, and a filled slot keeps the line up or is about to.    *)
LineInv ==
  /\ \A t \in Threads : pc[t] = "set" => i8259_intr_no # NO_INTR
  /\ intr = 1 => pc[Cpu] = "ackintr" \/ i8259_intr_no # NO_INTR
  /\ pc[Cpu] = "ackintr" => i8259_intr_no = NO_INTR
  /\ i8259_intr_no # NO_INTR => intr = 1 \/ \E t \in Threads : pc[t] = "set"

SlotInv ==
  /\ i8259_intr_no # NO_INTR => i8259_intr_no - IRQ_BASE \in outstanding
  /\ SyncNeverLost

(* From the check to the delivery: IF stays set, the line stays up, and    *)
(* the queried vector can only be outbid by a device.                      *)
AckInv ==
  /\ pc[Cpu] \in {"query", "acklock", "ackno", "ackintr", "deliver"} => intrFlag = 1
  /\ pc[Cpu] \in {"query", "acklock", "ackno"} =>
       intr = 1 /\ i8259_intr_no # NO_INTR
  /\ pc[Cpu] \in {"acklock", "ackno", "ackintr", "deliver"} => intr_no # NO_INTR
  /\ pc[Cpu] \in {"acklock", "ackno"} =>
       /\ intr_no <= i8259_intr_no
       /\ intr_no - IRQ_BASE \in outstanding
       /\ SyncIrq \in outstanding => intr_no = SyncIrq + IRQ_BASE

IInv == TypeOK /\ MutexInv /\ LineInv /\ SlotInv /\ AckInv
-----------------------------------------------------------------------------
(* Lines and vectors correspond, and no vector is NO_INTR.                 *)
LEMMA VectorFacts ==
  /\ Irqs \subseteq Nat /\ SyncIrq \in Irqs /\ SyncIrq \notin AsyncIrqs
  /\ \A i \in Irqs : i + IRQ_BASE \in Vectors /\ (i + IRQ_BASE) - IRQ_BASE = i
  /\ \A v \in Vectors : /\ v \in Nat /\ v # NO_INTR
                         /\ v - IRQ_BASE \in Irqs
                         /\ (v - IRQ_BASE) + IRQ_BASE = v
BY IrqAssumption DEF Irqs, Vectors, IRQ_BASE, NO_INTR

(* The threads, their lines, and the bound on the guest.                   *)
LEMMA LineFacts ==
  /\ LineOf(Cpu) = SyncIrq
  /\ \A t \in AsyncIrqs : LineOf(t) = t /\ t < SyncIrq /\ t # Cpu /\ t \in Irqs
  /\ Cpu \in Threads /\ AsyncIrqs \subseteq Threads
  /\ MaxDepth \in Nat
  /\ \A t \in Threads : LineOf(t) \in Irqs /\ (t = Cpu \/ t \in AsyncIrqs)
BY IrqAssumption DEF LineOf, Irqs, Threads

(* What winning or losing the slot does to it.                             *)
LEMMA RaiseLatchFacts ==
  ASSUME TypeOK, SyncNeverLost, NEW t \in Threads, RaiseLatch(t)
  PROVE  /\ i8259_intr_no' \in Vectors
         /\ i8259_intr_no # NO_INTR => i8259_intr_no <= i8259_intr_no'
         /\ i8259_intr_no' \in {i8259_intr_no, LineOf(t) + IRQ_BASE}
         /\ SyncIrq \in outstanding' => i8259_intr_no' = SyncIrq + IRQ_BASE
<1> DEFINE new == LineOf(t) + IRQ_BASE
<1>1. i8259_intr_no \in Vectors \cup {NO_INTR}
  BY DEF TypeOK
<1>2. LineOf(t) \in Irqs /\ LineOf(t) \in Nat /\ new \in Vectors
  BY LineFacts, VectorFacts
<1>3. /\ i8259_intr_no' = IF \/ i8259_intr_no = NO_INTR
                            \/ LineOf(t) > i8259_intr_no - IRQ_BASE
                         THEN new ELSE i8259_intr_no
      /\ outstanding' = outstanding \cup {LineOf(t)}
  BY DEF RaiseLatch
<1>4. i8259_intr_no # NO_INTR => i8259_intr_no \in Nat
  BY <1>1, VectorFacts
<1>5. i8259_intr_no' \in Vectors /\ i8259_intr_no' \in {i8259_intr_no, new}
  BY <1>1, <1>2, <1>3
<1>6. i8259_intr_no # NO_INTR => i8259_intr_no <= i8259_intr_no'
  BY <1>2, <1>3, <1>4 DEF IRQ_BASE
<1>7. CASE t = Cpu
  <2>1. LineOf(t) = SyncIrq /\ SyncIrq \in Nat
    BY <1>2, <1>7, LineFacts
  <2>2. CASE i8259_intr_no = NO_INTR
    BY <1>3, <1>5, <1>6, <2>1, <2>2
  <2>3. CASE i8259_intr_no # NO_INTR
    <3>1. PICK i \in Irqs : i8259_intr_no = i + IRQ_BASE
      BY <1>1, <2>3 DEF Vectors
    <3>2. i \in Nat /\ i <= SyncIrq
      BY <2>1, <3>1, VectorFacts, IrqAssumption DEF Irqs
    <3>3. i8259_intr_no' = SyncIrq + IRQ_BASE
      BY <1>3, <2>1, <2>3, <3>1, <3>2 DEF IRQ_BASE
    <3>4. QED
      BY <1>5, <1>6, <3>3
  <2>4. QED
    BY <2>2, <2>3
<1>8. CASE t \in AsyncIrqs
  <2>1. LineOf(t) = t /\ t < SyncIrq /\ t \in Nat /\ SyncIrq \in Nat
    BY <1>8, LineFacts, VectorFacts
  <2>2. ASSUME SyncIrq \in outstanding'
        PROVE  i8259_intr_no' = SyncIrq + IRQ_BASE
    <3>1. SyncIrq \in outstanding
      BY <1>3, <2>1, <2>2
    <3>2. i8259_intr_no = SyncIrq + IRQ_BASE
      BY <3>1 DEF SyncNeverLost
    <3>3. i8259_intr_no # NO_INTR
      BY <3>2, VectorFacts
    <3>4. QED
      BY <1>3, <2>1, <3>2, <3>3 DEF IRQ_BASE
  <2>3. QED
    BY <1>5, <1>6, <2>2
<1>9. QED
  BY <1>7, <1>8, LineFacts

(* A step keeps every variable in its type and the guest within its bound. *)
LEMMA TypeStep ==
  ASSUME IInv, [Next]_vars
  PROVE  TypeOK'
<1> USE VectorFacts, LineFacts DEF IInv, TypeOK, AckInv, IRQ_BASE, NO_INTR, Goto, AfterRaise, DevicePc, CpuPc, picVars, guestVars, runVars
<1>1. ASSUME NEW t \in Threads, RaiseLock(t)  PROVE TypeOK'
  <2>1. CASE Acquire(t, "latch")
    BY <1>1, <2>1 DEF RaiseLock, Acquire
  <2>2. CASE GiveUp(t, AfterRaise(t))
    BY <1>1, <2>2 DEF RaiseLock, GiveUp
  <2>3. QED
    BY <1>1, <2>1, <2>2 DEF RaiseLock
<1>2. ASSUME NEW t \in Threads, RaiseLatch(t)  PROVE TypeOK'
  <2>1. i8259_intr_no' \in Vectors
    BY <1>2, RaiseLatchFacts DEF SlotInv
  <2>2. outstanding' \subseteq Irqs
    <3>1. outstanding' = outstanding \cup {LineOf(t)} /\ outstanding \subseteq Irqs
      BY <1>2 DEF RaiseLatch
    <3>2. LineOf(t) \in Irqs
      BY LineFacts
    <3>3. QED
      BY ONLY <3>1, <3>2
  <2>3. QED
    BY <1>2, <2>1, <2>2 DEF RaiseLatch
<1>3. ASSUME NEW t \in Threads, RaiseSet(t)  PROVE TypeOK'
  BY <1>3 DEF RaiseSet, Release
<1>4. ASSUME NEW d \in AsyncIrqs, Event(d)  PROVE TypeOK'
  BY <1>4 DEF Event
<1>5. CASE Quit
  BY <1>5 DEF Quit
<1>6. CASE Plain
  BY <1>6 DEF Plain, Fetch
<1>7. CASE Sti
  <2>1. Len(frames) \in Nat
    BY LenProperties
  <2>2. Len(frames') + intrFlag' <= MaxDepth
    BY <1>7, <2>1 DEF Sti
  <2>3. QED
    BY <1>7, <2>2 DEF Sti, Fetch
<1>8. CASE Cli
  <2>1. Len(frames) \in Nat
    BY LenProperties
  <2>2. Len(frames') + intrFlag' <= MaxDepth
    BY <1>8, <2>1 DEF Cli
  <2>3. QED
    BY <1>8, <2>2 DEF Cli, Fetch
<1>9. CASE Hlt
  BY <1>9 DEF Hlt, Fetch
<1>10. CASE HltWake
  BY <1>10 DEF HltWake
<1>11. CASE SoftInt
  <2>1. frames' \in Seq([saved : {0, 1}, no : Nat]) /\ Len(frames') = Len(frames) + 1
    BY <1>11, AppendProperties DEF SoftInt, raise_intr, SyscallNo
  <2>2. intrFlag' = intrFlag \/ intrFlag' = 0
    BY <1>11 DEF SoftInt, raise_intr
  <2>3. Len(frames) \in Nat
    BY LenProperties
  <2>4. Len(frames') + intrFlag' <= MaxDepth
    <3>1. Len(frames) + intrFlag < MaxDepth /\ MaxDepth \in Nat
      BY <1>11 DEF SoftInt
    <3>2. intrFlag \in {0, 1}
      OBVIOUS
    <3>3. QED
      BY ONLY <2>1, <2>2, <2>3, <3>1, <3>2
  <2>5. QED
    BY <1>11, <2>1, <2>2, <2>4 DEF SoftInt, Fetch
<1>12. CASE Iret
  <2> DEFINE Frame == [saved : {0, 1}, no : Nat]
  <2>1. Len(frames) \in Nat /\ Len(frames) # 0 /\ \A k \in 1 .. Len(frames) : frames[k] \in Frame
    <3>1. frames \in Seq(Frame) /\ frames # <<>>
      BY <1>12 DEF Iret
    <3>2. QED
      BY ONLY <3>1, LenProperties, EmptySeq
  <2>2. frames' \in Seq(Frame) /\ Len(frames') = Len(frames) - 1
    <3>1. \A k \in 1 .. Len(frames) - 1 : frames[k] \in Frame
      BY <2>1
    <3>2. frames' = SubSeq(frames, 1, Len(frames) - 1)
      BY <1>12 DEF Iret
    <3> DEFINE n == Len(frames) - 1
    <3>3. n \in Nat
      <4>1. Len(frames) \in Nat /\ Len(frames) # 0
        BY <2>1
      <4>2. QED
        BY ONLY <4>1
    <3>4. /\ SubSeq(frames, 1, n) \in Seq(Frame)
          /\ Len(SubSeq(frames, 1, n)) = IF 1 <= n THEN n - 1 + 1 ELSE 0
      <4> HIDE DEF Frame, n
      <4>1. \A k \in 1 .. n : frames[k] \in Frame
        BY <3>1 DEF n
      <4>2. n \in Int /\ 1 \in Int
        BY ONLY <3>3
      <4>3. QED
        BY ONLY <4>1, <4>2, SubSeqProperties
    <3>5. (IF 1 <= n THEN n - 1 + 1 ELSE 0) = n
      <4> HIDE DEF n
      <4>1. QED
        BY ONLY <3>3
    <3>6. frames' = SubSeq(frames, 1, n)
      BY ONLY <3>2
    <3>7. QED
      BY ONLY <3>4, <3>5, <3>6
  <2>3. intrFlag' \in {0, 1}
    <3>1. Len(frames) \in 1 .. Len(frames)
      BY <2>1
    <3>2. QED
      BY <1>12, <2>1, <3>1 DEF Iret
  <2>4. Len(frames') + intrFlag' <= MaxDepth
    <3>1. Len(frames) + intrFlag <= MaxDepth /\ MaxDepth \in Nat /\ intrFlag \in {0, 1}
      OBVIOUS
    <3>2. QED
      BY ONLY <2>1, <2>2, <2>3, <3>1
  <2>5. /\ pc' = [pc EXCEPT ![Cpu] = "check"]
        /\ UNCHANGED <<i8259_intr_no, intr, holders, outstanding, intr_no,
                       destroyed, nemu_state>>
    BY <1>12 DEF Iret
  <2>6. /\ pc' \in [Threads -> CpuPc \cup DevicePc] /\ pc'[Cpu] \in CpuPc
        /\ \A d \in AsyncIrqs : pc'[d] \in DevicePc
    BY <2>5
  <2>7. TypeOK
    OBVIOUS
  <2>8. QED
    BY ONLY <2>2, <2>3, <2>4, <2>5, <2>6, <2>7 DEF TypeOK, CpuPc, DevicePc
<1>13. CASE OutIde
  BY <1>13 DEF OutIde, Fetch
<1>14. CASE NemuTrap
  BY <1>14 DEF NemuTrap, Fetch
<1>15. CASE CheckNone
  BY <1>15 DEF CheckNone
<1>16. CASE CheckSome
  BY <1>16 DEF CheckSome
<1>17. CASE Query
  BY <1>17 DEF Query
<1>18. CASE AckLock
  BY <1>18 DEF AckLock, Acquire
<1>19. CASE AckNo
  <2>1. outstanding' \subseteq Irqs
    <3>1. outstanding' = outstanding \ {intr_no - IRQ_BASE} /\ outstanding \subseteq Irqs
      BY <1>19 DEF AckNo
    <3>2. QED
      BY ONLY <3>1
  <2>2. QED
    BY <1>19, <2>1 DEF AckNo
<1>20. CASE AckIntr
  BY <1>20 DEF AckIntr, Release
<1>21. CASE Deliver
  BY <1>21 DEF Deliver, raise_intr, IsInterruptGate
<1>22. CASE Stop
  BY <1>22 DEF Stop
<1>23. CASE UNCHANGED vars
  BY <1>23 DEF vars, picVars, guestVars, runVars
<1>24. QED
  BY <1>1, <1>2, <1>3, <1>4, <1>5, <1>6, <1>7, <1>8, <1>9, <1>10, <1>11, <1>12, <1>13, <1>14, <1>15, <1>16, <1>17, <1>18, <1>19, <1>20, <1>21, <1>22, <1>23 DEF Next, CpuStep, DeviceStep, RaiseStep, Instruction, InterruptCheck

(* Until exec() destroys it, the mutex is held by at most one thread.      *)
LEMMA MutexStep ==
  ASSUME IInv, [Next]_vars
  PROVE  MutexInv'
<1> USE VectorFacts, LineFacts DEF IInv, TypeOK, AckInv, IRQ_BASE, NO_INTR, Goto, AfterRaise, DevicePc, CpuPc, picVars, guestVars, runVars, MutexInv, InSection
<1>1. ASSUME NEW t \in Threads, RaiseLock(t)  PROVE MutexInv'
  BY <1>1 DEF RaiseLock, Acquire, GiveUp
<1>2. ASSUME NEW t \in Threads, RaiseLatch(t)  PROVE MutexInv'
  BY <1>2 DEF RaiseLatch
<1>3. ASSUME NEW t \in Threads, RaiseSet(t)  PROVE MutexInv'
  BY <1>3 DEF RaiseSet, Release
<1>4. ASSUME NEW d \in AsyncIrqs, Event(d)  PROVE MutexInv'
  BY <1>4 DEF Event
<1>5. CASE Quit
  BY <1>5 DEF Quit
<1>6. CASE Plain
  BY <1>6 DEF Plain, Fetch
<1>7. CASE Sti
  BY <1>7 DEF Sti, Fetch
<1>8. CASE Cli
  BY <1>8 DEF Cli, Fetch
<1>9. CASE Hlt
  BY <1>9 DEF Hlt, Fetch
<1>10. CASE HltWake
  BY <1>10 DEF HltWake
<1>11. CASE SoftInt
  BY <1>11 DEF SoftInt, Fetch, raise_intr
<1>12. CASE Iret
  BY <1>12 DEF Iret, Fetch
<1>13. CASE OutIde
  BY <1>13 DEF OutIde, Fetch
<1>14. CASE NemuTrap
  BY <1>14 DEF NemuTrap, Fetch
<1>15. CASE CheckNone
  BY <1>15 DEF CheckNone
<1>16. CASE CheckSome
  BY <1>16 DEF CheckSome
<1>17. CASE Query
  BY <1>17 DEF Query
<1>18. CASE AckLock
  BY <1>18 DEF AckLock, Acquire
<1>19. CASE AckNo
  BY <1>19 DEF AckNo
<1>20. CASE AckIntr
  BY <1>20 DEF AckIntr, Release
<1>21. CASE Deliver
  BY <1>21 DEF Deliver, raise_intr, IsInterruptGate
<1>22. CASE Stop
  BY <1>22 DEF Stop
<1>23. CASE UNCHANGED vars
  BY <1>23 DEF vars, picVars, guestVars, runVars
<1>24. QED
  BY <1>1, <1>2, <1>3, <1>4, <1>5, <1>6, <1>7, <1>8, <1>9, <1>10, <1>11, <1>12, <1>13, <1>14, <1>15, <1>16, <1>17, <1>18, <1>19, <1>20, <1>21, <1>22, <1>23 DEF Next, CpuStep, DeviceStep, RaiseStep, Instruction, InterruptCheck

(* The line follows the slot.                                             *)
LEMMA LineStep ==
  ASSUME IInv, [Next]_vars
  PROVE  LineInv'
<1> USE VectorFacts, LineFacts DEF IInv, TypeOK, AckInv, IRQ_BASE, NO_INTR, Goto, AfterRaise, DevicePc, CpuPc, picVars, guestVars, runVars, MutexInv, InSection, LineInv
<1>1. ASSUME NEW t \in Threads, RaiseLock(t)  PROVE LineInv'
  BY <1>1 DEF RaiseLock, Acquire, GiveUp
<1>2. ASSUME NEW t \in Threads, RaiseLatch(t)  PROVE LineInv'
  <2>1. i8259_intr_no' # NO_INTR
    BY <1>2, RaiseLatchFacts DEF SlotInv
  <2>2. pc' = [pc EXCEPT ![t] = "set"] /\ t \in Threads /\ intr' = intr
    BY <1>2 DEF RaiseLatch
  <2>3. pc[Cpu] # "ackintr" \/ destroyed
    BY <1>2, <2>2 DEF RaiseLatch
  <2>4. pc'[Cpu] # "ackintr"
    BY <1>2, <2>2, <2>3 DEF RaiseLatch
  <2>5. QED
    BY <2>1, <2>2, <2>4
<1>3. ASSUME NEW t \in Threads, RaiseSet(t)  PROVE LineInv'
  BY <1>3 DEF RaiseSet, Release
<1>4. ASSUME NEW d \in AsyncIrqs, Event(d)  PROVE LineInv'
  BY <1>4 DEF Event
<1>5. CASE Quit
  BY <1>5 DEF Quit
<1>6. CASE Plain
  BY <1>6 DEF Plain, Fetch
<1>7. CASE Sti
  BY <1>7 DEF Sti, Fetch
<1>8. CASE Cli
  BY <1>8 DEF Cli, Fetch
<1>9. CASE Hlt
  BY <1>9 DEF Hlt, Fetch
<1>10. CASE HltWake
  BY <1>10 DEF HltWake
<1>11. CASE SoftInt
  BY <1>11 DEF SoftInt, Fetch, raise_intr
<1>12. CASE Iret
  BY <1>12 DEF Iret, Fetch
<1>13. CASE OutIde
  BY <1>13 DEF OutIde, Fetch
<1>14. CASE NemuTrap
  BY <1>14 DEF NemuTrap, Fetch
<1>15. CASE CheckNone
  BY <1>15 DEF CheckNone
<1>16. CASE CheckSome
  BY <1>16 DEF CheckSome
<1>17. CASE Query
  BY <1>17 DEF Query
<1>18. CASE AckLock
  BY <1>18 DEF AckLock, Acquire
<1>19. CASE AckNo
  BY <1>19 DEF AckNo
<1>20. CASE AckIntr
  BY <1>20 DEF AckIntr, Release
<1>21. CASE Deliver
  BY <1>21 DEF Deliver, raise_intr, IsInterruptGate
<1>22. CASE Stop
  BY <1>22 DEF Stop
<1>23. CASE UNCHANGED vars
  BY <1>23 DEF vars, picVars, guestVars, runVars
<1>24. QED
  BY <1>1, <1>2, <1>3, <1>4, <1>5, <1>6, <1>7, <1>8, <1>9, <1>10, <1>11, <1>12, <1>13, <1>14, <1>15, <1>16, <1>17, <1>18, <1>19, <1>20, <1>21, <1>22, <1>23 DEF Next, CpuStep, DeviceStep, RaiseStep, Instruction, InterruptCheck

(* The slot holds a request that is still owed, the disk's before others.  *)
LEMMA SlotStep ==
  ASSUME IInv, [Next]_vars
  PROVE  SlotInv'
<1> USE VectorFacts, LineFacts DEF IInv, TypeOK, AckInv, IRQ_BASE, NO_INTR, Goto, AfterRaise, DevicePc, CpuPc, picVars, guestVars, runVars, SlotInv, SyncNeverLost
<1>1. ASSUME NEW t \in Threads, RaiseLock(t)  PROVE SlotInv'
  BY <1>1 DEF RaiseLock, Acquire, GiveUp
<1>2. ASSUME NEW t \in Threads, RaiseLatch(t)  PROVE SlotInv'
  <2>1. i8259_intr_no' \in {i8259_intr_no, LineOf(t) + IRQ_BASE}
    BY <1>2, RaiseLatchFacts
  <2>2. SyncNeverLost'
    BY <1>2, RaiseLatchFacts DEF SlotInv
  <2>3. outstanding' = outstanding \cup {LineOf(t)}
    BY <1>2 DEF RaiseLatch
  <2>4. i8259_intr_no' - IRQ_BASE \in outstanding'
    <3>1. LineOf(t) \in Irqs /\ (LineOf(t) + IRQ_BASE) - IRQ_BASE = LineOf(t)
      BY LineFacts, VectorFacts
    <3>2. i8259_intr_no' # NO_INTR
      BY <1>2, RaiseLatchFacts DEF SlotInv
    <3>3. CASE i8259_intr_no' = LineOf(t) + IRQ_BASE
      BY ONLY <2>3, <3>1, <3>3
    <3>4. CASE i8259_intr_no' = i8259_intr_no
      BY <2>3, <3>2, <3>4
    <3>5. QED
      BY <2>1, <3>3, <3>4
  <2>5. QED
    BY <2>2, <2>4
<1>3. ASSUME NEW t \in Threads, RaiseSet(t)  PROVE SlotInv'
  BY <1>3 DEF RaiseSet, Release
<1>4. ASSUME NEW d \in AsyncIrqs, Event(d)  PROVE SlotInv'
  BY <1>4 DEF Event
<1>5. CASE Quit
  BY <1>5 DEF Quit
<1>6. CASE Plain
  BY <1>6 DEF Plain, Fetch
<1>7. CASE Sti
  BY <1>7 DEF Sti, Fetch
<1>8. CASE Cli
  BY <1>8 DEF Cli, Fetch
<1>9. CASE Hlt
  BY <1>9 DEF Hlt, Fetch
<1>10. CASE HltWake
  BY <1>10 DEF HltWake
<1>11. CASE SoftInt
  BY <1>11 DEF SoftInt, Fetch, raise_intr
<1>12. CASE Iret
  BY <1>12 DEF Iret, Fetch
<1>13. CASE OutIde
  BY <1>13 DEF OutIde, Fetch
<1>14. CASE NemuTrap
  BY <1>14 DEF NemuTrap, Fetch
<1>15. CASE CheckNone
  BY <1>15 DEF CheckNone
<1>16. CASE CheckSome
  BY <1>16 DEF CheckSome
<1>17. CASE Query
  BY <1>17 DEF Query
<1>18. CASE AckLock
  BY <1>18 DEF AckLock, Acquire
<1>19. CASE AckNo
  BY <1>19 DEF AckNo
<1>20. CASE AckIntr
  BY <1>20 DEF AckIntr, Release
<1>21. CASE Deliver
  BY <1>21 DEF Deliver, raise_intr, IsInterruptGate
<1>22. CASE Stop
  BY <1>22 DEF Stop
<1>23. CASE UNCHANGED vars
  BY <1>23 DEF vars, picVars, guestVars, runVars
<1>24. QED
  BY <1>1, <1>2, <1>3, <1>4, <1>5, <1>6, <1>7, <1>8, <1>9, <1>10, <1>11, <1>12, <1>13, <1>14, <1>15, <1>16, <1>17, <1>18, <1>19, <1>20, <1>21, <1>22, <1>23 DEF Next, CpuStep, DeviceStep, RaiseStep, Instruction, InterruptCheck

(* What exec() knows between its check and the delivery stays true.        *)
LEMMA AckStep ==
  ASSUME IInv, [Next]_vars
  PROVE  AckInv'
<1> USE VectorFacts, LineFacts DEF IInv, TypeOK, AckInv, IRQ_BASE, NO_INTR, Goto, AfterRaise, DevicePc, CpuPc, picVars, guestVars, runVars, MutexInv, InSection, LineInv, SlotInv, SyncNeverLost
<1>1. ASSUME NEW t \in Threads, RaiseLock(t)  PROVE AckInv'
  BY <1>1 DEF RaiseLock, Acquire, GiveUp
<1>2. ASSUME NEW t \in Threads, RaiseLatch(t)  PROVE AckInv'
  <2>1. /\ i8259_intr_no' \in Vectors
        /\ i8259_intr_no # NO_INTR => i8259_intr_no <= i8259_intr_no'
    BY <1>2, RaiseLatchFacts
  <2>2. CASE t = Cpu
    BY <1>2, <2>1, <2>2 DEF RaiseLatch
  <2>3. CASE t \in AsyncIrqs
    <3>1. pc'[Cpu] = pc[Cpu] /\ outstanding' = outstanding \cup {t}
      BY <1>2, <2>3 DEF RaiseLatch
    <3>2. UNCHANGED <<intr, intrFlag, intr_no>>
      BY <1>2 DEF RaiseLatch
    <3>3. intr_no # NO_INTR => intr_no \in Nat
      OBVIOUS
    <3>4. i8259_intr_no # NO_INTR => i8259_intr_no \in Nat
      OBVIOUS
    <3>5. t # SyncIrq
      BY <2>3
    <3>6. QED
      BY <2>1, <3>1, <3>2, <3>3, <3>4, <3>5
  <2>4. QED
    BY <2>2, <2>3
<1>3. ASSUME NEW t \in Threads, RaiseSet(t)  PROVE AckInv'
  BY <1>3 DEF RaiseSet, Release
<1>4. ASSUME NEW d \in AsyncIrqs, Event(d)  PROVE AckInv'
  BY <1>4 DEF Event
<1>5. CASE Quit
  BY <1>5 DEF Quit
<1>6. CASE Plain
  BY <1>6 DEF Plain, Fetch
<1>7. CASE Sti
  BY <1>7 DEF Sti, Fetch
<1>8. CASE Cli
  BY <1>8 DEF Cli, Fetch
<1>9. CASE Hlt
  BY <1>9 DEF Hlt, Fetch
<1>10. CASE HltWake
  BY <1>10 DEF HltWake
<1>11. CASE SoftInt
  BY <1>11 DEF SoftInt, Fetch, raise_intr
<1>12. CASE Iret
  BY <1>12 DEF Iret, Fetch
<1>13. CASE OutIde
  BY <1>13 DEF OutIde, Fetch
<1>14. CASE NemuTrap
  BY <1>14 DEF NemuTrap, Fetch
<1>15. CASE CheckNone
  BY <1>15 DEF CheckNone
<1>16. CASE CheckSome
  BY <1>16 DEF CheckSome
<1>17. CASE Query
  BY <1>17 DEF Query
<1>18. CASE AckLock
  BY <1>18 DEF AckLock, Acquire
<1>19. CASE AckNo
  BY <1>19 DEF AckNo
<1>20. CASE AckIntr
  BY <1>20 DEF AckIntr, Release
<1>21. CASE Deliver
  BY <1>21 DEF Deliver, raise_intr, IsInterruptGate
<1>22. CASE Stop
  BY <1>22 DEF Stop
<1>23. CASE UNCHANGED vars
  BY <1>23 DEF vars, picVars, guestVars, runVars
<1>24. QED
  BY <1>1, <1>2, <1>3, <1>4, <1>5, <1>6, <1>7, <1>8, <1>9, <1>10, <1>11, <1>12, <1>13, <1>14, <1>15, <1>16, <1>17, <1>18, <1>19, <1>20, <1>21, <1>22, <1>23 DEF Next, CpuStep, DeviceStep, RaiseStep, Instruction, InterruptCheck
-----------------------------------------------------------------------------
(* IInv is inductive.                                                      *)
THEOREM Invariance == Spec => []IInv
<1>1. Init => IInv
  <2> SUFFICES ASSUME Init PROVE IInv
    OBVIOUS
  <2> USE VectorFacts, LineFacts DEF Init
  <2>1. TypeOK
    <3>1. frames \in Seq([saved : {0, 1}, no : Nat]) /\ Len(frames) = 0
      <4>1. frames = <<>>
        OBVIOUS
      <4>2. QED
        BY ONLY <4>1, EmptySeq
    <3>2. Len(frames) + intrFlag <= MaxDepth
      <4>1. intrFlag = 0 /\ MaxDepth \in Nat
        OBVIOUS
      <4>2. QED
        BY ONLY <3>1, <4>1
    <3>3. pc \in [Threads -> CpuPc \cup DevicePc] /\ pc[Cpu] \in CpuPc
      BY DEF CpuPc, DevicePc
    <3>4. \A d \in AsyncIrqs : pc[d] \in DevicePc
      BY DEF DevicePc
    <3>5. QED
      BY <3>1, <3>2, <3>3, <3>4 DEF TypeOK
  <2>2. MutexInv
    BY DEF MutexInv, InSection
  <2>3. LineInv /\ SlotInv /\ AckInv
    BY DEF LineInv, SlotInv, AckInv, SyncNeverLost
  <2>4. QED
    BY <2>1, <2>2, <2>3 DEF IInv
<1>2. IInv /\ [Next]_vars => IInv'
  BY TypeStep, MutexStep, LineStep, SlotStep, AckStep DEF IInv
<1>3. QED
  BY <1>1, <1>2, PTL DEF Spec

(* Every variable keeps its type, and no program of the bound nests more   *)
(* handlers than the bound allows (exec, raise_intr and iret together).    *)
THEOREM TypeCorrect == Spec => []TypeOK
<1>1. IInv => TypeOK
  BY DEF IInv
<1>2. QED
  BY Invariance, <1>1, PTL

(* i8259_pic.c: whenever no thread is inside the mutex, cpu.intr is up     *)
(* exactly when a request is in the slot.                                  *)
THEOREM LineCorrect == Spec => []LineMatchesSlot
<1>1. IInv => LineMatchesSlot
  <2> SUFFICES ASSUME IInv, ~destroyed, holders = {}
               PROVE  intr = 1 <=> i8259_intr_no # NO_INTR
    BY DEF LineMatchesSlot
  <2>1. \A t \in Threads : ~InSection(t)
    BY DEF IInv, MutexInv
  <2>2. \A t \in Threads : pc[t] # "set" /\ pc[t] # "ackintr"
    BY <2>1 DEF InSection
  <2>3. QED
    BY <2>2, LineFacts DEF IInv, LineInv
<1>2. QED
  BY Invariance, <1>1, PTL

(* cpu.c: the assertion that the queried vector is not I8259_NO_INTR.      *)
THEOREM QueryCorrect == Spec => []QueryFindsRequest
<1>1. IInv => QueryFindsRequest
  BY DEF IInv, AckInv, QueryFindsRequest
<1>2. QED
  BY Invariance, <1>1, PTL

(* cpu.c: exec() only acknowledges a request that some device made since   *)
(* that line was last served.                                              *)
THEOREM NoSpuriousInterrupt == Spec => []AcceptedWasRaised
<1>1. IInv => AcceptedWasRaised
  BY DEF IInv, AckInv, AcceptedWasRaised
<1>2. QED
  BY Invariance, <1>1, PTL

(* i8259_pic.c and cpu.c together never lose the request of the disk.      *)
THEOREM DiskInterruptKept == Spec => []SyncNeverLost
<1>1. IInv => SyncNeverLost
  BY DEF IInv, SlotInv
<1>2. QED
  BY Invariance, <1>1, PTL

(* The threads implement the abstract slot: winning or losing the slot is  *)
(* a Raise, clearing it is an Accept, and no other step shows.             *)
THEOREM Refinement == Spec => ImplementsLatch
<1>1. Init => Latch!Init
  BY DEF Init, Latch!Init
<1>2. IInv /\ [Next]_vars => [Latch!Next]_(Latch!latchVars)
  <2> SUFFICES ASSUME IInv, [Next]_vars
               PROVE  \/ Latch!Next
                      \/ UNCHANGED <<i8259_intr_no, outstanding>>
    BY DEF Latch!latchVars
  <2>1. ASSUME NEW t \in Threads, RaiseLatch(t)  PROVE Latch!Next
    <3> DEFINE line == LineOf(t)
    <3>1. line \in Irqs /\ line \in Nat /\ (line + IRQ_BASE) - IRQ_BASE = line
      BY LineFacts, VectorFacts
    <3>2. outstanding' = outstanding \cup {line}
      BY <2>1 DEF RaiseLatch
    <3>3. i8259_intr_no - IRQ_BASE = NO_INTR - IRQ_BASE <=> i8259_intr_no = NO_INTR
      <4>1. i8259_intr_no \in Nat
        BY VectorFacts DEF IInv, TypeOK, NO_INTR
      <4>2. QED
        BY ONLY <4>1 DEF IRQ_BASE, NO_INTR
    <3>4. i8259_intr_no' - IRQ_BASE =
            IF \/ i8259_intr_no - IRQ_BASE = NO_INTR - IRQ_BASE
               \/ line > i8259_intr_no - IRQ_BASE
            THEN line ELSE i8259_intr_no - IRQ_BASE
      BY <2>1, <3>1, <3>3 DEF RaiseLatch
    <3>5. Latch!Raise(line)
      BY <3>2, <3>4 DEF Latch!Raise
    <3>6. QED
      BY <3>1, <3>5 DEF Latch!Next
  <2>2. CASE AckNo
    <3> DEFINE line == intr_no - IRQ_BASE
    <3>1. /\ line \in outstanding /\ line \in Irqs
          /\ i8259_intr_no # NO_INTR /\ intr_no # NO_INTR
          /\ intr_no <= i8259_intr_no
          /\ SyncIrq \in outstanding => intr_no = SyncIrq + IRQ_BASE
      BY <2>2 DEF AckNo, IInv, TypeOK, AckInv
    <3>2. intr_no \in Nat /\ i8259_intr_no \in Nat
      BY <3>1, VectorFacts DEF IInv, TypeOK
    <3>3. /\ i8259_intr_no - IRQ_BASE # NO_INTR - IRQ_BASE
          /\ line <= i8259_intr_no - IRQ_BASE
      BY ONLY <3>1, <3>2 DEF IRQ_BASE, NO_INTR
    <3>4. SyncIrq \in outstanding => line = SyncIrq
      BY <3>1, VectorFacts
    <3>5. /\ i8259_intr_no' - IRQ_BASE = NO_INTR - IRQ_BASE
          /\ outstanding' = outstanding \ {line}
      BY <2>2 DEF AckNo
    <3>6. Latch!Accept(line)
      BY <3>1, <3>3, <3>4, <3>5 DEF Latch!Accept
    <3>7. QED
      BY <3>1, <3>6 DEF Latch!Next
  <2>3. ASSUME NEW t \in Threads, RaiseLock(t) \/ RaiseSet(t)
        PROVE  UNCHANGED <<i8259_intr_no, outstanding>>
    BY <2>3 DEF RaiseLock, RaiseSet
  <2>4. ASSUME NEW d \in AsyncIrqs, Event(d)
        PROVE  UNCHANGED <<i8259_intr_no, outstanding>>
    BY <2>4 DEF Event, picVars
  <2>5. CASE Quit
    BY <2>5 DEF Quit, picVars
  <2>6. CASE Instruction
    BY <2>6 DEF Instruction, Plain, Sti, Cli, Hlt, SoftInt, Iret, OutIde,
                NemuTrap, picVars
  <2>7. CASE HltWake \/ Stop
    BY <2>7 DEF HltWake, Stop, picVars
  <2>8. CASE CheckNone \/ CheckSome \/ Query \/ AckLock \/ AckIntr \/ Deliver
    BY <2>8 DEF CheckNone, CheckSome, Query, AckLock, AckIntr, Deliver, picVars
  <2>9. CASE UNCHANGED vars
    BY <2>9 DEF vars, picVars
  <2>10. QED
    BY <2>1, <2>2, <2>3, <2>4, <2>5, <2>6, <2>7, <2>8, <2>9, LineFacts
       DEF Next, CpuStep, DeviceStep, RaiseStep, InterruptCheck
<1>3. QED
  BY <1>1, <1>2, Invariance, PTL DEF Spec, Latch!Spec, ImplementsLatch
=============================================================================
