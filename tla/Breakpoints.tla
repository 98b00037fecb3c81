----------------------------- MODULE Breakpoints -----------------------------
(***************************************************************************)
(* Breakpoints and watchpoints: the pool of monitor/breakpoint.c, the      *)
(* commands of monitor/ui.c and the loop of exec() in cpu/cpu.c, which     *)
(* plants INT3_CODE in the guest's code, takes it out in front of a stop   *)
(* and puts it back one instruction later, among the interrupts that the   *)
(* same loop takes and the keyboard thread, which writes nemu_state when   *)
(* the window is closed.  exec() is split where it reads or writes         *)
(* nemu_state.                                                             *)
(* The guest is a set of one-byte instructions that may jump anywhere but  *)
(* to the entry of the interrupt handler, change IF and the one value that *)
(* watchpoints look at, as may the entry of an interrupt; neither the      *)
(* guest nor a watchpoint looks at its code, nor does the guest write it.  *)
(***************************************************************************)
EXTENDS Integers, Sequences, SequencesExt

CONSTANTS Exit,      \* the last address of the guest's code, that of its nemu_trap
          Handler,   \* the address of its interrupt handler
          NR_BP,     \* entries of bp_list
          Cmds,      \* the commands that the user gives: of "b", "w", "d", "c", "si"
          Careful,   \* the user keeps to what MaySet, MayWatch, MayDelete and MayStep allow
          MaxSteps   \* bound of the model: the argument of si

ASSUME BreakpointAssumption ==
  /\ Exit \in Nat /\ Handler \in 1 .. Exit - 1
  /\ NR_BP \in Nat \ {0} /\ MaxSteps \in Nat
  /\ Careful \in BOOLEAN
  /\ Cmds \subseteq {"b", "w", "d", "c", "si"}

Addrs == 0 .. Exit
INT3_CODE == -1       \* 0xf1; the byte of the program at a is the number a
Forever == -1         \* exec(-1)
Values == 0 .. 1      \* of the watched expression

VARIABLES
  mem,         \* the code as it stands in memory
  eip,
  IFlag,       \* eflags.IF
  list,        \* the entries from head on: NO, type, addr, ori_byte, old_val
  free,        \* free_: the NOs that are free, in order
  nemu_state,
  pc,          \* where exec() stands; "ui": reading a command; "gone": NEMU ends
  n,           \* the local n of exec()
  rerun,       \* its local hit_break_rerun
  value,       \* the watched value
  hit,         \* history: eip is behind a break that was not found
  closed       \* history: when the window was closed, "done" after the run it ended

vars == <<mem, eip, IFlag, list, free, nemu_state, pc, n, rerun, value, hit, closed>>
guest == <<eip, IFlag, value, hit>>
local == <<n, rerun>>

Init ==
  /\ mem = [a \in Addrs |-> a]
  /\ eip = 0 /\ IFlag = FALSE
  /\ list = <<>>
  /\ free = [j \in 1 .. NR_BP |-> j - 1]
  /\ nemu_state = "READY" /\ pc = "ui" /\ n = 0 /\ rerun = FALSE
  /\ value = 0 /\ hit = FALSE /\ closed = "no"

Breaks == {e \in Range(list) : e.type = "break"}
Command(c) == pc = "ui" /\ c \in Cmds

(* What a user who knows the limits does: one breakpoint and one           *)
(* watchpoint at a time, the breakpoint not set when stopped at one,       *)
(* deleted when stopped in front of it, and no si while it is set; and no  *)
(* breakpoint at the handler's entry together with a watchpoint, whose     *)
(* report there would overwrite the state that tells exec() to resume it.  *)
MaySet(a) == Careful => Breaks = {} /\ nemu_state # "BREAK" /\ (a = Handler => list = <<>>)
MayWatch == Careful => Range(list) = Breaks /\ \A e \in Breaks : e.addr # Handler
MayDelete(e) == Careful /\ e.type = "break" => nemu_state = "BREAK" /\ e.addr = eip
MayStep == Careful => Breaks = {}

(* ui_mainloop ends after a command that finds NEMU_STOP.                  *)
Prompt == pc' = IF nemu_state = "STOP" THEN "gone" ELSE "ui"
-----------------------------------------------------------------------------
(* new_BP: an empty pool ends NEMU by an assertion.                        *)
NewBP(e) ==
  /\ free # <<>>
  /\ list' = <<[e EXCEPT !.NO = Head(free)]>> \o list
  /\ free' = Tail(free)

SetBreakpointSavesLate(a) ==  \* mutated form: saves the byte after planting
  /\ Command("b") /\ MaySet(a) /\ Prompt
  /\ NewBP([NO |-> 0, type |-> "break", addr |-> a, ori_byte |-> INT3_CODE, old_val |-> 0])
  /\ mem' = [mem EXCEPT ![a] = INT3_CODE]
  /\ UNCHANGED <<guest, nemu_state, local, closed>>

SetBreakpoint(a) ==
  /\ Command("b") /\ MaySet(a) /\ Prompt
  /\ NewBP([NO |-> 0, type |-> "break", addr |-> a, ori_byte |-> mem[a], old_val |-> 0])
  /\ mem' = [mem EXCEPT ![a] = INT3_CODE]
  /\ UNCHANGED <<guest, nemu_state, local, closed>>

SetWatchpoint ==
  /\ Command("w") /\ MayWatch /\ Prompt
  /\ NewBP([NO |-> 0, type |-> "watch", addr |-> 0, ori_byte |-> 0, old_val |-> value])
  /\ UNCHANGED <<mem, guest, nemu_state, local, closed>>

(* delete_breakpoint: the entry leaves the list, the code stays.           *)
Delete(j) ==
  /\ Command("d") /\ Prompt
  /\ j \in 1 .. Len(list) /\ MayDelete(list[j])
  /\ list' = RemoveAt(list, j)
  /\ free' = <<list[j].NO>> \o free
  /\ UNCHANGED <<mem, guest, nemu_state, local, closed>>

(* delete_all_breakpoint frees from the end of the list.                   *)
DeleteAll ==
  /\ Command("d") /\ Prompt
  /\ list # <<>> /\ \A e \in Range(list) : MayDelete(e)
  /\ list' = <<>>
  /\ free' = [j \in 1 .. Len(list) |-> list[j].NO] \o free
  /\ UNCHANGED <<mem, guest, nemu_state, local, closed>>

EnterNeverResumes(c, steps) ==  \* mutated form: never puts a breakpoint back
  /\ Command(c)
  /\ rerun' = FALSE /\ n' = steps
  /\ pc' = "enter"
  /\ UNCHANGED <<mem, guest, list, free, nemu_state, closed>>

(* cmd_c and cmd_si enter exec(), which looks at nemu_state and then       *)
(* overwrites it, whatever it is by now.                                   *)
Enter(c, steps) ==
  /\ Command(c)
  /\ rerun' = (nemu_state = "BREAK") /\ n' = steps
  /\ pc' = "enter"
  /\ UNCHANGED <<mem, guest, list, free, nemu_state, closed>>

Begin ==
  /\ pc = "enter"
  /\ nemu_state' = "RUN" /\ pc' = "test"
  /\ UNCHANGED <<mem, guest, list, free, local, closed>>
-----------------------------------------------------------------------------
(* resume_breakpoints walks the list: the byte it saves of a breakpoint    *)
(* that is still planted is INT3_CODE, and so is that of the second of two *)
(* at one address.                                                         *)
Resumed(m) == [a \in Addrs |-> IF \E e \in Breaks : e.addr = a THEN INT3_CODE ELSE m[a]]
Resaved(m) ==
  [j \in 1 .. Len(list) |->
     LET twin == \E i \in 1 .. j - 1 : list[i].type = "break" /\ list[i].addr = list[j].addr
     IN IF list[j].type = "watch" THEN list[j]
        ELSE [list[j] EXCEPT !.ori_byte = IF twin THEN INT3_CODE ELSE m[list[j].addr]]]

(* exec_inst: the byte at eip decides, whoever put it there.  The states   *)
(* of break_point and nemu_trap overwrite a NEMU_STOP of the keyboard.     *)
ExecInst ==
  IF mem[eip] = INT3_CODE
  THEN eip' = eip + 1 /\ nemu_state' = "BREAK" /\ hit' = TRUE /\ UNCHANGED <<value, IFlag>>
  ELSE IF mem[eip] = Exit
  THEN eip' = eip + 1 /\ nemu_state' = "STOP" /\ UNCHANGED <<value, IFlag, hit>>
  ELSE /\ eip' \in Addrs \ {Handler} /\ value' \in Values /\ IFlag' \in BOOLEAN
       /\ UNCHANGED <<nemu_state, hit>>

Inst ==
  /\ pc = "inst" /\ eip \in Addrs
  /\ ExecInst
  /\ n' = IF n = Forever THEN n ELSE n - 1
  /\ IF rerun THEN mem' = Resumed(mem) /\ list' = Resaved(mem) ELSE UNCHANGED <<mem, list>>
  /\ rerun' = FALSE /\ pc' = "check"
  /\ UNCHANGED <<free, closed>>

FirstAtNext(a) ==  \* mutated form: looks at the next address
  {j \in 1 .. Len(list) : list[j].type = "break" /\ list[j].addr = a + 1}

(* find_breakpoint and scan_watchpoint.                                    *)
FirstAt(a) ==
  {j \in 1 .. Len(list) :
     /\ list[j].type = "break" /\ list[j].addr = a
     /\ \A i \in 1 .. j - 1 : list[i].type = "break" => list[i].addr # a}

FirstChangedNot ==  \* mutated form: the first watchpoint only
  {j \in 1 .. Len(list) : j = 1 /\ list[j].type = "watch" /\ list[j].old_val # value}

FirstChanged ==
  {j \in 1 .. Len(list) :
     /\ list[j].type = "watch" /\ list[j].old_val # value
     /\ \A i \in 1 .. j - 1 : list[i].type = "watch" => list[i].old_val = value}

(* The two checks behind an instruction.  A watchpoint overwrites          *)
(* nemu_state and leaves the loop without the interrupt check.             *)
Check ==
  /\ pc = "check"
  /\ LET found == IF nemu_state = "BREAK" THEN FirstAt(eip - 1) ELSE {}
         changed == FirstChanged
     IN /\ mem' = [a \in Addrs |-> IF \E j \in found : list[j].addr = a
                                   THEN list[CHOOSE j \in found : TRUE].ori_byte ELSE mem[a]]
        /\ IF found # {} THEN eip' = eip - 1 /\ hit' = FALSE ELSE UNCHANGED <<eip, hit>>
        /\ list' = [j \in 1 .. Len(list) |->
                      IF j \in changed THEN [list[j] EXCEPT !.old_val = value] ELSE list[j]]
        /\ IF changed # {} THEN nemu_state' = "READY" /\ pc' = "leave"
                           ELSE pc' = "loop" /\ UNCHANGED nemu_state
  /\ UNCHANGED <<IFlag, free, local, value, closed>>

(* The interrupt check: what the controller delivers is IntrDelivery's.    *)
(* It comes behind a break as well, whose eip is then that of the handler. *)
(* raise_intr moves esp and stores eflags, cs and eip on the stack: a      *)
(* watched register or word may change, behind the scan of the turn.       *)
Intr == \/ UNCHANGED guest
        \/ IFlag /\ eip' = Handler /\ IFlag' = FALSE /\ hit' = FALSE /\ value' \in Values

GoesOnUntilBreak == nemu_state # "BREAK" /\ n # 0  \* mutated form

GoesOn == nemu_state = "RUN" /\ n # 0

Loop ==
  /\ pc = "loop" /\ Intr
  /\ pc' = "test"
  /\ UNCHANGED <<mem, list, free, nemu_state, local, closed>>

Test ==
  /\ pc = "test"
  /\ pc' = IF GoesOn THEN "inst" ELSE "leave"
  /\ UNCHANGED <<mem, guest, list, free, nemu_state, local, closed>>

(* The last lines of exec() make READY of every state but STOP when n has  *)
(* run out, BREAK included; a STOP between the test and the assignment is  *)
(* lost.                                                                   *)
Leave ==
  /\ pc = "leave"
  /\ pc' = IF nemu_state # "STOP" /\ n = 0 THEN "ready" ELSE "after"
  /\ UNCHANGED <<mem, guest, list, free, nemu_state, local, closed>>

Ready ==
  /\ pc = "ready"
  /\ nemu_state' = "READY" /\ pc' = "after"
  /\ UNCHANGED <<mem, guest, list, free, local, closed>>

After ==
  /\ pc = "after" /\ Prompt
  /\ n' = 0 /\ closed' = IF closed = "running" THEN "done" ELSE closed
  /\ UNCHANGED <<mem, guest, list, free, nemu_state, rerun>>
-----------------------------------------------------------------------------
(* KEYBOARD_Thread, which ends with it.                                    *)
Close ==
  /\ closed = "no" /\ pc # "gone"
  /\ closed' = IF pc \in {"ui", "enter"} THEN "waiting" ELSE "running"
  /\ nemu_state' = "STOP"
  /\ UNCHANGED <<mem, guest, list, free, pc, local>>

Exec == Begin \/ Test \/ Inst \/ Check \/ Loop \/ Leave \/ Ready \/ After

Next == \/ \E a \in Addrs : SetBreakpoint(a)
        \/ SetWatchpoint
        \/ \E j \in 1 .. NR_BP : Delete(j)
        \/ DeleteAll
        \/ Enter("c", Forever)
        \/ MayStep /\ \E steps \in 1 .. MaxSteps : Enter("si", steps)
        \/ Exec \/ Close

Spec == Init /\ [][Next]_vars

(* exec() goes on by itself.                                               *)
FairSpec == Spec /\ WF_vars(Exec)
-----------------------------------------------------------------------------
(* Every entry is listed or free, once, and everything that can be taken   *)
(* out of the code again can be put back: where INT3_CODE stands, a        *)
(* breakpoint of the list remembers the byte.                              *)
PoolAndCodeAreKept ==
  /\ LET NOs == [j \in 1 .. Len(list) |-> list[j].NO] \o free
     IN Len(NOs) = NR_BP /\ Range(NOs) = 0 .. NR_BP - 1
  /\ \A a \in Addrs : mem[a] = INT3_CODE => \E e \in Breaks : e.addr = a /\ e.ori_byte = a

(* "found, then restore the original opcode" (cpu.c): in front of a stop   *)
(* the program's own instruction is in memory, as long as every address    *)
(* has one breakpoint at most.                                             *)
RestoresTheProgram ==
  /\ pc = "loop" /\ nemu_state = "BREAK" /\ ~hit
  /\ \A d, e \in Breaks : d.addr = e.addr => d = e
  => mem[eip] = eip

(* "not found, it is triggered by BREAK_POINT in the code" (cpu.c): the    *)
(* guest has no such instruction, so every break is found.                 *)
EveryBreakIsFound == pc = "loop" /\ nemu_state = "BREAK" => ~hit

(* What an instruction changes is reported before an interrupt or another  *)
(* instruction can change it again.  What the entry of an interrupt        *)
(* changes, behind the scan of its turn, waits for one instruction more:   *)
(* the first of the handler, of which it cannot be told apart any more.    *)
NoChangeIsMissed ==
  \A e \in Range(list) : e.type = "watch" /\ e.old_val # value =>
     /\ pc # "loop"
     /\ pc = "inst" => eip = Handler

(* Whatever overwrites the NEMU_STOP of a window that is closed while the  *)
(* program runs (break_point, a watchpoint, the end of exec), the run ends.*)
CloseEndsTheRun == closed = "running" ~> pc \in {"ui", "gone"}

(* In the hands of a careful user, breakpoints do what they promise, among *)
(* watchpoints, steps and interrupts, until the window is closed           *)
(* (set_breakpoint, find_breakpoint, resume_breakpoints,                   *)
(* delete_breakpoint, exec).                                               *)
At == IF hit THEN eip - 1 ELSE eip
Ended == \/ pc \in {"ui", "leave", "ready", "after", "gone"}
         \/ pc \in {"loop", "test"} /\ ~GoesOn
Ideal == INSTANCE Debugger WITH
  Addrs <- Addrs, Exit <- Exit, Handler <- Handler,
  at <- At,
  bps <- {e.addr : e \in Breaks},
  reported <- (nemu_state = "BREAK" \/ rerun) /\ ~hit /\ At \in {e.addr : e \in Breaks},
  mode <- IF closed # "no" THEN "closed" ELSE IF nemu_state = "STOP" THEN "stop"
          ELSE IF Ended THEN "ui" ELSE "run"
ImplementsDebugger == Ideal!Spec
=============================================================================
