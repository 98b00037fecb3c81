------------------------------ MODULE IrqLatch ------------------------------
(***************************************************************************)
(* What NEMU's interrupt controller promises its guest, without threads,   *)
(* locks or instruction boundaries.  The controller is a single slot: it   *)
(* remembers one request, the highest of those that arrived since the last *)
(* acceptance.  It is lossy on purpose (a lower request raised while a     *)
(* higher one waits is forgotten) but never invents a request, and the     *)
(* request raised by the CPU's own i/o instruction (SyncIrq, the disk) is  *)
(* never forgotten.  IntrDelivery is shown to implement this module.       *)
(***************************************************************************)
EXTENDS Naturals

CONSTANTS Irqs,     \* the interrupt lines of the platform
          SyncIrq,  \* the line raised by the CPU thread itself (IDE_IRQ)
          NoIrq     \* the empty slot

VARIABLES pending,      \* the remembered request, or NoIrq
          outstanding   \* the lines raised since they were last accepted

latchVars == <<pending, outstanding>>

Init == /\ pending = NoIrq
        /\ outstanding = {}

(* Some device asserts line i: it takes the slot if the slot is empty or   *)
(* holds a lower line.                                                     *)
Raise(i) ==
  /\ outstanding' = outstanding \cup {i}
  /\ pending' = IF pending = NoIrq \/ i > pending THEN i ELSE pending

(* The CPU accepts line i and empties the slot.  The accepted line may be  *)
(* lower than the remembered one, when a device won the slot between the   *)
(* query and the acknowledgement, but a waiting SyncIrq always goes first. *)
Accept(i) ==
  /\ pending # NoIrq
  /\ i \in outstanding
  /\ i <= pending
  /\ SyncIrq \in outstanding => i = SyncIrq
  /\ pending' = NoIrq
  /\ outstanding' = outstanding \ {i}

Next == \E i \in Irqs : Raise(i) \/ Accept(i)

Spec == Init /\ [][Next]_latchVars
=============================================================================
