---------------------------- MODULE IntrDelivery ----------------------------
(***************************************************************************)
(* How an external interrupt travels from a device thread of NEMU to the   *)
(* guest's handler:                                                        *)
(*   - device/i8259_pic.c: one slot i8259_intr_no and the INTR line        *)
(*     cpu.intr, both written under i8259_mutex but read without it;       *)
(*   - the device threads (timer, keyboard, audio) call i8259_raise_intr   *)
(*     on their own SDL threads, the disk calls it on the CPU thread, from *)
(*     inside the out instruction;                                         *)
(*   - cpu/cpu.c exec(): after every instruction it tests cpu.intr and IF, *)
(*     queries the slot (no lock), acknowledges it (lock) and enters the   *)
(*     handler through the gate (cpu/intr.c).                              *)
(* One action per access to shared state, so that every interleaving of    *)
(* those threads is a behaviour.  The guest is an arbitrary program: any   *)
(* instruction may come next, up to MaxDepth nested handlers.              *)
(***************************************************************************)
EXTENDS Integers, Sequences

CONSTANTS AsyncIrqs,  \* lines raised by device threads, one thread per line
          TimerIrq,   \* TIMER_IRQ: the line whose thread tests nemu_state first
          KeyboardIrq,\* KEYBOARD_IRQ: the line of the thread that polls SDL events
          SyncIrq,    \* IDE_IRQ: the line raised by the CPU thread
          Cpu,        \* the CPU thread
          MaxDepth    \* bound of the model: nested handlers of the guest

IRQ_BASE == 32
NO_INTR == 255   \* I8259_NO_INTR

Irqs == AsyncIrqs \cup {SyncIrq}
Vectors == {i + IRQ_BASE : i \in Irqs}
Threads == AsyncIrqs \cup {Cpu}

(* The disk has the highest line number of the platform (14 against 0, 1   *)
(* and 2), and the vector of every line fits in the uint8_t below NO_INTR. *)
ASSUME IrqAssumption ==
  /\ Irqs \subseteq 0 .. (NO_INTR - IRQ_BASE - 1)
  /\ \A i \in AsyncIrqs : i < SyncIrq
  /\ {TimerIrq, KeyboardIrq} \subseteq AsyncIrqs
  /\ Cpu \notin AsyncIrqs
  /\ MaxDepth \in Nat \ {0}

VARIABLES
  i8259_intr_no,  \* the slot of the controller: a vector or NO_INTR
  intr,           \* cpu.intr, the INTR line
  holders,        \* the threads inside a critical section of i8259_mutex
  destroyed,      \* i8259_destroy has freed the mutex
  nemu_state,     \* "RUN" or "STOP"
  pc,             \* where each thread stands
  intrFlag,       \* cpu.eflags.IF
  frames,         \* the frames pushed by raise_intr and not yet popped
  intr_no,        \* the local of exec() that holds the queried vector
  outstanding     \* history: lines raised since they were last accepted

picVars == <<i8259_intr_no, intr, holders, outstanding>>
guestVars == <<intrFlag, frames, intr_no>>
runVars == <<destroyed, nemu_state>>
vars == <<picVars, guestVars, runVars, pc>>

DevicePc == {"idle", "lock", "latch", "set"}
CpuPc == {"exec", "hlt", "lock", "latch", "set", "check", "query",
          "acklock", "ackno", "ackintr", "deliver", "done"}

(* The line a thread raises, and where it goes once it has.                *)
LineOf(t) == IF t = Cpu THEN SyncIrq ELSE t
AfterRaise(t) == IF t = Cpu THEN "check" ELSE "idle"

Goto(t, to) == pc' = [pc EXCEPT ![t] = to]

Init ==
  /\ i8259_intr_no = NO_INTR
  /\ intr = 0
  /\ holders = {}
  /\ destroyed = FALSE
  /\ nemu_state = "RUN"
  /\ pc = [t \in Threads |-> IF t = Cpu THEN "exec" ELSE "idle"]
  /\ intrFlag = 0
  /\ frames = <<>>
  /\ intr_no = NO_INTR
  /\ outstanding = {}
-----------------------------------------------------------------------------
(* i8259_mutex.  Locking a destroyed mutex is undefined: the call may      *)
(* still go through or fail, and a failure returns because nemu_state is   *)
(* STOP by then.                                                           *)
AcquireUnguarded(t, to) ==
  /\ holders' = holders \cup {t}
  /\ Goto(t, to)

Acquire(t, to) ==
  /\ destroyed \/ holders = {}
  /\ holders' = holders \cup {t}
  /\ Goto(t, to)

GiveUp(t, to) ==
  /\ destroyed /\ nemu_state = "STOP"
  /\ Goto(t, to)
  /\ UNCHANGED holders

Release(t) == holders' = holders \ {t}

(* i8259_raise_intr, called by thread t.                                   *)
RaiseLock(t) ==
  /\ pc[t] = "lock"
  /\ Acquire(t, "latch") \/ GiveUp(t, AfterRaise(t))
  /\ UNCHANGED <<i8259_intr_no, intr, outstanding, guestVars, runVars>>

RaiseLatchLastWins(t) ==
  /\ pc[t] = "latch"
  /\ i8259_intr_no' = LineOf(t) + IRQ_BASE
  /\ outstanding' = outstanding \cup {LineOf(t)}
  /\ Goto(t, "set")
  /\ UNCHANGED <<intr, holders, guestVars, runVars>>

RaiseLatchLowestWins(t) ==
  /\ pc[t] = "latch"
  /\ i8259_intr_no' = IF \/ i8259_intr_no = NO_INTR
                         \/ LineOf(t) < i8259_intr_no - IRQ_BASE
                      THEN LineOf(t) + IRQ_BASE
                      ELSE i8259_intr_no
  /\ outstanding' = outstanding \cup {LineOf(t)}
  /\ Goto(t, "set")
  /\ UNCHANGED <<intr, holders, guestVars, runVars>>

RaiseLatch(t) ==
  /\ pc[t] = "latch"
  /\ i8259_intr_no' = IF \/ i8259_intr_no = NO_INTR
                         \/ LineOf(t) > i8259_intr_no - IRQ_BASE
                      THEN LineOf(t) + IRQ_BASE
                      ELSE i8259_intr_no
  /\ outstanding' = outstanding \cup {LineOf(t)}
  /\ Goto(t, "set")
  /\ UNCHANGED <<intr, holders, guestVars, runVars>>

RaiseSet(t) ==
  /\ pc[t] = "set"
  /\ intr' = 1
  /\ Release(t)
  /\ Goto(t, AfterRaise(t))
  /\ UNCHANGED <<i8259_intr_no, outstanding, guestVars, runVars>>

RaiseStep(t) == RaiseLock(t) \/ RaiseLatch(t) \/ RaiseSet(t)

(* A device thread has something to report: a timer period, a key event, a *)
(* chunk of sound played.  Only the timer looks at nemu_state before it    *)
(* calls i8259_raise_intr.                                                 *)
Event(d) ==
  /\ pc[d] = "idle"
  /\ d = TimerIrq => nemu_state = "RUN"
  /\ Goto(d, "lock")
  /\ UNCHANGED <<picVars, guestVars, runVars>>

(* The user closes the window: the keyboard thread stops the machine.      *)
Quit ==
  /\ pc[KeyboardIrq] = "idle"
  /\ nemu_state = "RUN"
  /\ nemu_state' = "STOP"
  /\ UNCHANGED <<picVars, guestVars, destroyed, pc>>
-----------------------------------------------------------------------------
(* One instruction of the guest.  exec() looks at nemu_state before it     *)
(* fetches each of them.                                                   *)
Fetch == pc[Cpu] = "exec" /\ nemu_state = "RUN"

Plain ==
  /\ Fetch
  /\ Goto(Cpu, "check")
  /\ UNCHANGED <<picVars, guestVars, runVars>>

(* A handler that may itself be interrupted needs room for one more frame. *)
Sti ==
  /\ Fetch
  /\ Len(frames) < MaxDepth
  /\ intrFlag' = 1
  /\ Goto(Cpu, "check")
  /\ UNCHANGED <<picVars, frames, intr_no, runVars>>

Cli ==
  /\ Fetch
  /\ intrFlag' = 0
  /\ Goto(Cpu, "check")
  /\ UNCHANGED <<picVars, frames, intr_no, runVars>>

Hlt ==
  /\ Fetch
  /\ Goto(Cpu, "hlt")
  /\ UNCHANGED <<picVars, guestVars, runVars>>

(* HLT_Thread polls cpu.intr and nemu_state, whatever IF says.             *)
HltWakeIfEnabled ==
  /\ pc[Cpu] = "hlt"
  /\ (intr = 1 /\ intrFlag = 1) \/ nemu_state = "STOP"
  /\ Goto(Cpu, "check")
  /\ UNCHANGED <<picVars, guestVars, runVars>>

HltWake ==
  /\ pc[Cpu] = "hlt"
  /\ intr = 1 \/ nemu_state = "STOP"
  /\ Goto(Cpu, "check")
  /\ UNCHANGED <<picVars, guestVars, runVars>>

(* raise_intr pushes EFLAGS with the IF of the interrupted code; only an   *)
(* interrupt gate clears IF.  The kernel's IDT has interrupt gates for the *)
(* hardware lines and trap gates for everything else.                      *)
IsInterruptGate(no) == no \in Vectors

raise_intr(no) ==
  /\ frames' = Append(frames, [saved |-> intrFlag, no |-> no])
  /\ intrFlag' = IF IsInterruptGate(no) THEN 0 ELSE intrFlag

SyscallNo == 128

(* int 0x80 *)
SoftInt ==
  /\ Fetch
  /\ Len(frames) + intrFlag < MaxDepth
  /\ raise_intr(SyscallNo)
  /\ Goto(Cpu, "check")
  /\ UNCHANGED <<picVars, intr_no, runVars>>

Iret ==
  /\ Fetch
  /\ frames # <<>>
  /\ intrFlag' = frames[Len(frames)].saved
  /\ frames' = SubSeq(frames, 1, Len(frames) - 1)
  /\ Goto(Cpu, "check")
  /\ UNCHANGED <<picVars, intr_no, runVars>>

(* out to the disk's command port: the device model completes a read at    *)
(* once and raises its line from inside the instruction.                   *)
OutIde ==
  /\ Fetch
  /\ Goto(Cpu, "lock")
  /\ UNCHANGED <<picVars, guestVars, runVars>>

NemuTrap ==
  /\ Fetch
  /\ nemu_state' = "STOP"
  /\ Goto(Cpu, "check")
  /\ UNCHANGED <<picVars, guestVars, destroyed>>
-----------------------------------------------------------------------------
(* The end of an iteration of exec(): the interrupt check.                 *)
CheckNone ==
  /\ pc[Cpu] = "check"
  /\ intr = 0 \/ intrFlag = 0
  /\ Goto(Cpu, "exec")
  /\ UNCHANGED <<picVars, guestVars, runVars>>

CheckSome ==
  /\ pc[Cpu] = "check"
  /\ intr = 1 /\ intrFlag = 1
  /\ Goto(Cpu, "query")
  /\ UNCHANGED <<picVars, guestVars, runVars>>

(* i8259_query_intr_no reads the slot without the mutex.                   *)
Query ==
  /\ pc[Cpu] = "query"
  /\ intr_no' = i8259_intr_no
  /\ Goto(Cpu, "acklock")
  /\ UNCHANGED <<picVars, intrFlag, frames, runVars>>

AckLock ==
  /\ pc[Cpu] = "acklock"
  /\ Acquire(Cpu, "ackno")
  /\ UNCHANGED <<i8259_intr_no, intr, outstanding, guestVars, runVars>>

AckNoKeepsSlot ==
  /\ pc[Cpu] = "ackno"
  /\ outstanding' = outstanding \ {intr_no - IRQ_BASE}
  /\ Goto(Cpu, "ackintr")
  /\ UNCHANGED <<i8259_intr_no, intr, holders, guestVars, runVars>>

AckNo ==
  /\ pc[Cpu] = "ackno"
  /\ i8259_intr_no' = NO_INTR
  /\ outstanding' = outstanding \ {intr_no - IRQ_BASE}
  /\ Goto(Cpu, "ackintr")
  /\ UNCHANGED <<intr, holders, guestVars, runVars>>

AckIntrKeepsLine ==
  /\ pc[Cpu] = "ackintr"
  /\ Release(Cpu)
  /\ Goto(Cpu, "deliver")
  /\ UNCHANGED <<i8259_intr_no, intr, outstanding, guestVars, runVars>>

AckIntr ==
  /\ pc[Cpu] = "ackintr"
  /\ intr' = 0
  /\ Release(Cpu)
  /\ Goto(Cpu, "deliver")
  /\ UNCHANGED <<i8259_intr_no, outstanding, guestVars, runVars>>

Deliver ==
  /\ pc[Cpu] = "deliver"
  /\ raise_intr(intr_no)
  /\ intr_no' = NO_INTR
  /\ Goto(Cpu, "exec")
  /\ UNCHANGED <<picVars, runVars>>

(* exec() leaves its loop and destroys the mutex, whoever holds it.        *)
Stop ==
  /\ pc[Cpu] = "exec"
  /\ nemu_state = "STOP"
  /\ destroyed' = TRUE
  /\ Goto(Cpu, "done")
  /\ UNCHANGED <<picVars, guestVars, nemu_state>>

Instruction == Plain \/ Sti \/ Cli \/ Hlt \/ SoftInt \/ Iret \/ OutIde \/ NemuTrap
InterruptCheck == CheckNone \/ CheckSome \/ Query \/ AckLock \/ AckNo \/ AckIntr \/ Deliver

CpuStep == Instruction \/ HltWake \/ RaiseStep(Cpu) \/ InterruptCheck \/ Stop
DeviceStep(d) == Event(d) \/ RaiseStep(d)

Next == CpuStep \/ Quit \/ \E d \in AsyncIrqs : DeviceStep(d)

Spec == Init /\ [][Next]_vars
-----------------------------------------------------------------------------
TypeOK ==
  /\ i8259_intr_no \in Vectors \cup {NO_INTR}
  /\ intr \in {0, 1}
  /\ holders \subseteq Threads
  /\ destroyed \in BOOLEAN
  /\ nemu_state \in {"RUN", "STOP"}
  /\ pc \in [Threads -> CpuPc \cup DevicePc]
  /\ pc[Cpu] \in CpuPc
  /\ \A d \in AsyncIrqs : pc[d] \in DevicePc
  /\ intrFlag \in {0, 1}
  /\ frames \in Seq([saved : {0, 1}, no : Nat])
  /\ Len(frames) + intrFlag <= MaxDepth
  /\ intr_no \in Vectors \cup {NO_INTR}
  /\ outstanding \subseteq Irqs

(* Outside every critical section of i8259_mutex the INTR line is up       *)
(* exactly when the slot holds a request: the CPU never ignores a waiting  *)
(* request and never reacts to an empty slot (i8259_pic.c, "the            *)
(* i8259_mutex is to protect the i8259_intr_no and cpu.intr").             *)
LineMatchesSlot ==
  ~destroyed /\ holders = {} => (intr = 1 <=> i8259_intr_no # NO_INTR)

(* assert(intr_no != I8259_NO_INTR) in exec(): although cpu.intr and the   *)
(* slot are read without the mutex and at different moments, a CPU that    *)
(* saw the line up finds a request in the slot.                            *)
QueryFindsRequest == pc[Cpu] = "query" => i8259_intr_no # NO_INTR

(* The vector exec() is about to acknowledge belongs to a line that was    *)
(* really raised and not served since: no spurious and no repeated         *)
(* interrupt.                                                              *)
AcceptedWasRaised ==
  pc[Cpu] \in {"acklock", "ackno"} => intr_no - IRQ_BASE \in outstanding

(* The disk's request is never lost: from its raise to its acceptance it   *)
(* owns the slot, although other threads raise lines, and even between the *)
(* query and the acknowledgement, where a device's request is dropped.     *)
(* wait_ide_intr() of the kernel waits for exactly one interrupt.          *)
SyncNeverLost ==
  SyncIrq \in outstanding => i8259_intr_no = SyncIrq + IRQ_BASE

(* What i8259_pic.c says of the mutex, for the pair query/acknowledge: the *)
(* request that i8259_ack_intr clears is the one that exec() queried.      *)
(* The code does not keep it: the query is made outside the mutex.         *)
AckClearsWhatWasQueried ==
  pc[Cpu] = "ackno" => i8259_intr_no = intr_no

Latch == INSTANCE IrqLatch WITH
           pending <- i8259_intr_no - IRQ_BASE,
           NoIrq <- NO_INTR - IRQ_BASE

(* Threads, mutex and unlocked query together implement the single lossy   *)
(* slot of IrqLatch.                                                       *)
ImplementsLatch == Latch!Spec
-----------------------------------------------------------------------------
(* The threads are scheduled by the host: a thread that can go on does,    *)
(* the timer thread fires again and again, and the CPU thread is not       *)
(* starved of the mutex for ever (every device sleeps between two calls).  *)
Fairness ==
  /\ WF_vars(CpuStep)
  /\ SF_vars(AckLock) /\ SF_vars(RaiseLock(Cpu))
  /\ WF_vars(Event(TimerIrq))
  /\ \A d \in AsyncIrqs : WF_vars(RaiseStep(d))

FairSpec == Spec /\ Fairness

(* A halted CPU wakes up: HLT ends as long as the timer runs, or because   *)
(* the machine is stopped.                                                 *)
HltEnds == pc[Cpu] = "hlt" ~> pc[Cpu] # "hlt"

(* A guest that keeps coming back with interrupts enabled is given the     *)
(* disk's interrupt, whatever the other devices do.                        *)
GuestKeepsOpen == []<>(pc[Cpu] = "check" /\ intrFlag = 1)
SyncServed ==
  GuestKeepsOpen => (SyncIrq \in outstanding ~> SyncIrq \notin outstanding)
=============================================================================
