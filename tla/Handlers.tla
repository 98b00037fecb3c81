------------------------------- MODULE Handlers ------------------------------
(***************************************************************************)
(* The kernel's interrupt handlers (kernel irq/irq_handle.c): a pool of    *)
(* list nodes, one list of routines for each interrupt.  add_irq_handle is *)
(* split at its stores, since the kernel installs its own handlers with    *)
(* interrupts on; nothing interrupts irq_handle itself, which is entered   *)
(* through an interrupt gate, so an interrupt is one step (Kernel).        *)
(***************************************************************************)
EXTENDS Integers, Sequences

CONSTANT NR_IRQ_HANDLE  \* nodes of handle_pool

ASSUME HandlerAssumption == NR_IRQ_HANDLE \in Nat \ {0}

NULL == NR_IRQ_HANDLE
Nodes == 0 .. NR_IRQ_HANDLE - 1
Irqs == {0, 1, 14}  \* timer, keyboard, disk

VARIABLES
  handle_pool,   \* routine and next of every node
  handles,       \* the first node of each list
  handle_count,
  adding,        \* add_irq_handle: the next store, the irq and the routine
  installed      \* history: the routines of each interrupt, newest first

handler_vars == <<handle_pool, handles, handle_count, adding, installed>>

NotAdding == [at |-> "none", irq |-> 0, routine |-> "none"]

HandlersInit ==
  /\ handle_pool = [n \in Nodes |-> [routine |-> "none", next |-> NULL]]
  /\ handles = [n \in Irqs |-> NULL]
  /\ handle_count = 0
  /\ adding = NotAdding
  /\ installed = [n \in Irqs |-> <<>>]
-----------------------------------------------------------------------------
ptr == handle_count - 1  \* the node that is being filled

(* The assertion admits handle_count = NR_IRQ_HANDLE, a node past the end; *)
(* the programs install fewer handlers than that.                          *)
AddTake(n, routine) ==
  /\ adding.at = "none" /\ handle_count <= NR_IRQ_HANDLE
  /\ handle_count' = handle_count + 1
  /\ adding' = [at |-> "routine", irq |-> n, routine |-> routine]
  /\ UNCHANGED <<handle_pool, handles, installed>>

AddRoutine ==
  /\ adding.at = "routine"
  /\ handle_pool' = [handle_pool EXCEPT ![ptr].routine = adding.routine]
  /\ adding' = [adding EXCEPT !.at = "next"]
  /\ UNCHANGED <<handles, handle_count, installed>>

AddNextNot ==  \* mutated form: the rest of the list is not linked
  /\ adding.at = "next"
  /\ adding' = [adding EXCEPT !.at = "head"]
  /\ UNCHANGED <<handle_pool, handles, handle_count, installed>>

AddNext ==
  /\ adding.at = "next"
  /\ handle_pool' = [handle_pool EXCEPT ![ptr].next = handles[adding.irq]]
  /\ adding' = [adding EXCEPT !.at = "head"]
  /\ UNCHANGED <<handles, handle_count, installed>>

AddHead ==
  /\ adding.at = "head"
  /\ handles' = [handles EXCEPT ![adding.irq] = ptr]
  /\ installed' = [installed EXCEPT ![adding.irq] = <<adding.routine>> \o @]
  /\ adding' = NotAdding
  /\ UNCHANGED <<handle_pool, handle_count>>

AddStep == AddRoutine \/ AddNext \/ AddHead

(* What the loop of irq_handle calls, from a node to the end of its list.  *)
RoutinesFrom[n \in 0 .. NR_IRQ_HANDLE] ==
  IF n = NULL THEN <<>>
  ELSE <<handle_pool[n].routine>> \o RoutinesFrom[handle_pool[n].next]

irq_handle(n) == RoutinesFrom[handles[n]]
-----------------------------------------------------------------------------
(* At every moment an interrupt, which may come between any two stores of  *)
(* add_irq_handle, calls each routine whose installation is complete once, *)
(* the newest first, and nothing else.                                     *)
HandlersAreChained == \A n \in Irqs : irq_handle(n) = installed[n]
=============================================================================
