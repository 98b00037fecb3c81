-------------------------- MODULE BreakpointsProofs ---------------------------
(***************************************************************************)
(* Proofs about Breakpoints, for a program of any length, a pool of any    *)
(* size and an interrupt handler anywhere in the code: in the hands of a   *)
(* careful user the pool and the code can be put back, every break is      *)
(* found, a change of a watched value is reported at the next scan, and    *)
(* breakpoints do what Debugger promises.  At the heart is when INT3_CODE  *)
(* stands in the code: nowhere while the program is stopped at a           *)
(* breakpoint and for the one instruction behind it, and else at the       *)
(* breakpoint.                                                             *)
(***************************************************************************)
EXTENDS Breakpoints, SequenceTheorems, TLAPS

Nos == 0 .. NR_BP - 1
States == {"READY", "RUN", "BREAK", "STOP"}
Pcs == {"ui", "enter", "test", "inst", "check", "loop", "leave", "ready", "after", "gone"}

TypeInv ==
  /\ mem \in [Addrs -> Addrs \cup {INT3_CODE}]
  /\ eip \in 0 .. Exit + 1 /\ IFlag \in BOOLEAN
  /\ nemu_state \in States /\ pc \in Pcs /\ n \in {Forever} \cup Nat
  /\ rerun \in BOOLEAN /\ hit \in BOOLEAN /\ value \in Values
  /\ closed \in {"no", "waiting", "running", "done"}

Entry == [NO : Nos, type : {"break", "watch"}, addr : Addrs,
          ori_byte : Addrs \cup {INT3_CODE}, old_val : Values]

(* Every entry is listed or free.                                          *)
PoolInv ==
  /\ list \in Seq(Entry) /\ free \in Seq(Nos)
  /\ Len(list) + Len(free) = NR_BP
  /\ \A x \in Nos : \/ \E j \in 1 .. Len(list) : list[j].NO = x
                    \/ \E j \in 1 .. Len(free) : free[j] = x

BreakAt == {j \in 1 .. Len(list) : list[j].type = "break"}
WatchAt == {j \in 1 .. Len(list) : list[j].type = "watch"}

(* One breakpoint and one watchpoint at a time, and no breakpoint at the   *)
(* handler's entry together with a watchpoint.                             *)
AloneInv ==
  /\ \A i, j \in 1 .. Len(list) : list[i].type = list[j].type => i = j
  /\ WatchAt # {} => \A j \in BreakAt : list[j].addr # Handler

(* A byte is the program's own, or INT3_CODE at the breakpoint, which      *)
(* remembers the program's own.                                            *)
CodeInv ==
  /\ \A a \in Addrs : mem[a] # a => mem[a] = INT3_CODE /\ \E j \in BreakAt : list[j].addr = a
  /\ \A j \in BreakAt : list[j].ori_byte = list[j].addr

Whole == \A a \in Addrs : mem[a] = a

(* At a stop, and until the instruction there was executed, the code is    *)
(* the program's own; a break that was not looked for yet is one of ours.  *)
StopInv ==
  /\ nemu_state = "BREAK" => pc # "inst"
  /\ nemu_state = "BREAK" /\ pc # "check" => Whole /\ ~hit
  /\ nemu_state = "BREAK" /\ pc = "check" => \E j \in BreakAt : list[j].addr = eip - 1
  /\ nemu_state = "BREAK" /\ pc = "loop" => \E j \in BreakAt : list[j].addr = eip
  /\ rerun => /\ Whole /\ pc \in {"enter", "test", "inst", "leave", "after", "gone"}
              /\ pc = "test" => n # 0 /\ nemu_state \in {"RUN", "STOP"}
              /\ pc \in {"leave", "after"} => nemu_state = "STOP"

(* A watched value that changed in an instruction is noticed before        *)
(* anything else happens, one that changed at the entry of an interrupt    *)
(* behind the handler's first instruction, which is neither a break nor    *)
(* the end of the program.                                                 *)
WatchInv ==
  /\ pc # "check" => \/ \A j \in WatchAt : list[j].old_val = value
                     \/ eip = Handler /\ pc # "loop"
  /\ pc = "check" /\ (nemu_state = "BREAK" \/ (nemu_state = "STOP" /\ closed = "no")) =>
       \A j \in WatchAt : list[j].old_val = value

(* si is not given while a breakpoint is set, so the end of its count      *)
(* takes no stop at one away.                                              *)
CountInv ==
  /\ pc \notin {"ui", "gone"} => BreakAt = {} \/ n = Forever
  /\ pc = "enter" => n # 0
  /\ pc = "ready" => n = 0

(* Until the window is closed: INT3_CODE stands at the breakpoint but for  *)
(* a stop and the instruction behind it.                                   *)
OpenInv == closed = "no" =>
  /\ hit <=> pc = "check" /\ nemu_state = "BREAK"
  /\ nemu_state # "BREAK" /\ ~rerun => \A j \in BreakAt : mem[list[j].addr] = INT3_CODE
  /\ pc \in {"ui", "enter", "inst", "ready"} => nemu_state # "STOP"
  /\ pc = "enter" => rerun = (nemu_state = "BREAK")
  /\ pc = "test" /\ rerun => GoesOn
  /\ rerun => pc \in {"enter", "test", "inst"}
  /\ pc = "inst" => nemu_state = "RUN"
  /\ nemu_state = "READY" => pc \notin {"test", "check", "loop"}

IInv == /\ TypeInv /\ PoolInv /\ AloneInv /\ CodeInv /\ StopInv
        /\ WatchInv /\ CountInv /\ OpenInv
-----------------------------------------------------------------------------
(* The constants, and the two readings of the breakpoints of the list.     *)
LEMMA Constants ==
  /\ Exit \in Nat /\ Handler \in Addrs /\ NR_BP \in Nat \ {0} /\ 0 \in Nos
  /\ INT3_CODE \notin Addrs /\ Forever \notin Nat /\ 0 \in Addrs
BY BreakpointAssumption DEF Addrs, Nos, INT3_CODE, Forever

(* The listed breakpoints are the entries of the list that are no watchpoint.*)
LEMMA BreaksAre ==
  ASSUME PoolInv
  PROVE  /\ {e.addr : e \in Breaks} = {list[j].addr : j \in BreakAt}
         /\ Breaks = {} <=> BreakAt = {}
<1>1. DOMAIN list = 1 .. Len(list)
  BY DEF PoolInv
<1>2. Breaks = {list[j] : j \in BreakAt}
  BY <1>1 DEF Breaks, BreakAt, Range
<1>3. QED
  BY <1>2

(* The lists hold entries of the pool.                                      *)
LEMMA EntriesAre ==
  ASSUME PoolInv
  PROVE  /\ list \in Seq(Entry) /\ free \in Seq(Nos) /\ Len(list) \in Nat /\ Len(free) \in Nat
         /\ \A j \in 1 .. Len(list) : list[j] \in Entry /\ list[j].NO \in Nos
<1>1. list \in Seq(Entry) /\ free \in Seq(Nos)
  BY DEF PoolInv
<1>2. \A j \in 1 .. Len(list) : list[j] \in Entry
  BY <1>1, ElementOfSeq
<1>3. \A x \in Entry : x.NO \in Nos
  BY DEF Entry
<1>4. QED
  BY <1>1, <1>2, <1>3

(* new_BP puts the entry in front of the others.                           *)
LEMMA NewBPFacts ==
  ASSUME PoolInv, NEW e \in Entry, NewBP(e)
  PROVE  /\ PoolInv' /\ Len(list') = Len(list) + 1
         /\ list'[1] = [e EXCEPT !.NO = Head(free)]
         /\ \A j \in 1 .. Len(list) : list'[j + 1] = list[j]
<1> DEFINE new == [e EXCEPT !.NO = Head(free)]
<1>1. /\ free # <<>> /\ list' = <<new>> \o list /\ free' = Tail(free)
      /\ list \in Seq(Entry) /\ free \in Seq(Nos)
  BY DEF NewBP, PoolInv
<1>2. /\ Head(free) \in Nos /\ Len(free) >= 1 /\ Head(free) = free[1]
      /\ Tail(free) \in Seq(Nos) /\ Len(Tail(free)) = Len(free) - 1
      /\ \A j \in 1 .. Len(free) - 1 : Tail(free)[j] = free[j + 1]
  BY <1>1
<1>3. new \in Entry /\ new.NO = Head(free)
  BY <1>2 DEF Entry
<1> HIDE DEF new
<1>4. /\ list' \in Seq(Entry) /\ Len(list') = Len(list) + 1 /\ list'[1] = new
      /\ \A j \in 1 .. Len(list) : list'[j + 1] = list[j]
  BY <1>1, <1>3
<1>5. \A x \in Nos : \/ \E j \in 1 .. Len(list') : list'[j].NO = x
                     \/ \E j \in 1 .. Len(free') : free'[j] = x
  <2> SUFFICES ASSUME NEW x \in Nos
               PROVE  \/ \E j \in 1 .. Len(list') : list'[j].NO = x
                      \/ \E j \in 1 .. Len(free') : free'[j] = x
    OBVIOUS
  <2>1. CASE \E j \in 1 .. Len(list) : list[j].NO = x
    <3>1. PICK j \in 1 .. Len(list) : list[j].NO = x
      BY <2>1
    <3>2. j + 1 \in 1 .. Len(list') /\ list'[j + 1].NO = x
      BY <1>1, <1>4, <3>1
    <3>3. QED
      BY <3>2
  <2>2. CASE \E j \in 1 .. Len(free) : free[j] = x
    <3>1. PICK j \in 1 .. Len(free) : free[j] = x
      BY <2>2
    <3>2. CASE j = 1
      BY <1>1, <1>2, <1>3, <1>4, <3>1, <3>2
    <3>3. CASE j # 1
      <4>1. j - 1 \in 1 .. Len(free) - 1 /\ (j - 1) + 1 = j
        BY <1>1, <1>2, <3>1, <3>3
      <4>2. j - 1 \in 1 .. Len(free') /\ free'[j - 1] = x
        BY <1>1, <1>2, <3>1, <4>1
      <4>3. QED
        BY <4>2
    <3>4. QED
      BY <3>2, <3>3
  <2>3. QED
    BY <2>1, <2>2 DEF PoolInv
<1>6. QED
  <2>1. Len(list') + Len(free') = NR_BP
    <3>1. Len(list) + Len(free) = NR_BP /\ Len(list) \in Nat /\ Len(free) \in Nat
      BY EntriesAre DEF PoolInv
    <3>2. Len(list') = Len(list) + 1 /\ Len(free') = Len(free) - 1
      BY <1>1, <1>2, <1>4
    <3>3. QED
      BY <3>1, <3>2
  <2>2. free' \in Seq(Nos)
    BY <1>1, <1>2
  <2>3. QED
    BY <1>4, <1>5, <2>1, <2>2 DEF PoolInv, new

(* free_BP: the entries behind the one that leaves move up.                *)
LEMMA RemoveFacts ==
  ASSUME NEW S, NEW s \in Seq(S), NEW j \in 1 .. Len(s)
  PROVE  /\ RemoveAt(s, j) \in Seq(S) /\ Len(RemoveAt(s, j)) = Len(s) - 1
         /\ \A i \in 1 .. Len(s) - 1 :
              RemoveAt(s, j)[i] = s[IF i < j THEN i ELSE i + 1]
<1> DEFINE a == SubSeq(s, 1, j - 1)
           b == SubSeq(s, j + 1, Len(s))
<1>1. /\ a \in Seq(S) /\ Len(a) = j - 1 /\ \A i \in 1 .. j - 1 : a[i] = s[i]
      /\ b \in Seq(S) /\ Len(b) = Len(s) - j /\ \A i \in 1 .. Len(s) - j : b[i] = s[i + j]
  OBVIOUS
<1>2. RemoveAt(s, j) = a \o b
  BY DEF RemoveAt
<1> HIDE DEF a, b
<1>3. /\ a \o b \in Seq(S) /\ Len(a \o b) = Len(s) - 1
      /\ \A i \in 1 .. Len(s) - 1 : (a \o b)[i] = IF i <= j - 1 THEN a[i] ELSE b[i - (j - 1)]
  BY <1>1, ConcatProperties
<1>4. ASSUME NEW i \in 1 .. Len(s) - 1
      PROVE  (a \o b)[i] = s[IF i < j THEN i ELSE i + 1]
  <2>1. CASE i < j
    BY <1>1, <1>3, <2>1
  <2>2. CASE ~(i < j)
    <3>1. i - (j - 1) \in 1 .. Len(s) - j /\ (i - (j - 1)) + j = i + 1
      BY <2>2
    <3>2. QED
      BY <1>1, <1>3, <2>2, <3>1
  <2>3. QED
    BY <2>1, <2>2
<1>5. QED
  BY <1>2, <1>3, <1>4

(* A step that touches neither code nor lists keeps what is said of them.   *)
LEMMA CodeKept ==
  ASSUME PoolInv, AloneInv, CodeInv, UNCHANGED <<mem, list, free>>
  PROVE  /\ PoolInv' /\ AloneInv' /\ CodeInv' /\ (Whole' <=> Whole)
         /\ UNCHANGED <<BreakAt, WatchAt, Breaks>>
<1>1. UNCHANGED <<BreakAt, WatchAt, Breaks>> /\ (Whole' <=> Whole)
  BY DEF BreakAt, WatchAt, Breaks, Whole
<1>2. QED
  BY <1>1 DEF PoolInv, AloneInv, CodeInv

Continue == Enter("c", Forever)
StepOn == MayStep /\ \E steps \in 1 .. MaxSteps : Enter("si", steps)

(* The steps that touch neither code nor list.                             *)
LEMMA FlowKeeps ==
  ASSUME Careful, IInv,
         \/ Continue \/ StepOn
         \/ Begin \/ Test \/ Loop \/ Leave \/ Ready \/ After \/ Close
  PROVE  IInv'
<1> USE DEF IInv
<1>1. CASE Continue \/ StepOn
  <2>1. /\ pc = "ui" /\ pc' = "enter" /\ rerun' = (nemu_state = "BREAK")
        /\ UNCHANGED <<mem, eip, IFlag, value, hit, list, free, nemu_state, closed>>
    BY <1>1 DEF Continue, StepOn, Enter, Command, guest
  <2>2. n' = Forever \/ (BreakAt = {} /\ n' \in Nat \ {0})
    BY <1>1, BreaksAre DEF Continue, StepOn, Enter, MayStep
  <2>3. TypeInv'
    BY <2>1, <2>2 DEF TypeInv, Pcs
  <2>4. StopInv'
    BY <2>1, CodeKept DEF StopInv, TypeInv
  <2>5. WatchInv'
    BY <2>1, CodeKept DEF WatchInv
  <2>6. CountInv'
    BY <2>1, <2>2, CodeKept, Constants DEF CountInv
  <2>7. OpenInv'
    BY <2>1, CodeKept DEF OpenInv, TypeInv
  <2>8. QED
    BY <2>1, <2>3, <2>4, <2>5, <2>6, <2>7, CodeKept
<1>2. CASE Begin
  <2>1. /\ pc = "enter" /\ pc' = "test" /\ nemu_state' = "RUN"
        /\ UNCHANGED <<mem, eip, IFlag, value, hit, list, free, n, rerun, closed>>
    BY <1>2 DEF Begin, guest, local
  <2>3. TypeInv'
    BY <2>1 DEF TypeInv, Pcs, States
  <2>4. StopInv'
    BY <2>1, CodeKept DEF StopInv, TypeInv, CountInv
  <2>5. WatchInv'
    BY <2>1, CodeKept DEF WatchInv
  <2>6. CountInv'
    BY <2>1, CodeKept DEF CountInv
  <2>7. OpenInv'
    BY <2>1, CodeKept DEF OpenInv, GoesOn, CountInv
  <2>8. QED
    BY <2>1, <2>3, <2>4, <2>5, <2>6, <2>7, CodeKept
<1>3. CASE Test
  <2>1. /\ pc = "test" /\ pc' = (IF GoesOn THEN "inst" ELSE "leave")
        /\ UNCHANGED <<mem, eip, IFlag, value, hit, list, free, nemu_state, n, rerun, closed>>
    BY <1>3 DEF Test, guest, local
  <2>3. TypeInv'
    BY <2>1 DEF TypeInv, Pcs
  <2>4. StopInv'
    BY <2>1, CodeKept DEF StopInv, TypeInv, GoesOn
  <2>5. WatchInv'
    BY <2>1, CodeKept DEF WatchInv
  <2>6. CountInv'
    BY <2>1, CodeKept DEF CountInv
  <2>7. OpenInv'
    BY <2>1, CodeKept DEF OpenInv, GoesOn
  <2>8. QED
    BY <2>1, <2>3, <2>4, <2>5, <2>6, <2>7, CodeKept
<1>4. CASE Loop
  <2>1. /\ pc = "loop" /\ pc' = "test"
        /\ \/ UNCHANGED <<eip, IFlag, hit, value>>
           \/ eip' = Handler /\ IFlag' = FALSE /\ hit' = FALSE /\ value' \in Values
        /\ UNCHANGED <<mem, list, free, nemu_state, n, rerun, closed>>
    BY <1>4 DEF Loop, Intr, local, guest
  <2>3. TypeInv'
    <3>1. Handler \in 0 .. Exit + 1
      BY Constants DEF Addrs
    <3>2. eip' \in 0 .. Exit + 1 /\ IFlag' \in BOOLEAN /\ hit' \in BOOLEAN /\ value' \in Values
      BY <2>1, <3>1 DEF TypeInv
    <3>3. QED
      BY <2>1, <3>2 DEF TypeInv, Pcs
  <2>4. StopInv'
    BY <2>1, CodeKept DEF StopInv
  <2>5. WatchInv'
    BY <2>1, CodeKept DEF WatchInv
  <2>6. CountInv'
    BY <2>1, CodeKept DEF CountInv
  <2>7. OpenInv'
    BY <2>1, CodeKept DEF OpenInv, GoesOn
  <2>8. QED
    BY <2>1, <2>3, <2>4, <2>5, <2>6, <2>7, CodeKept
<1>5. CASE Leave
  <2>1. /\ pc = "leave" /\ pc' = (IF nemu_state # "STOP" /\ n = 0 THEN "ready" ELSE "after")
        /\ UNCHANGED <<mem, eip, IFlag, value, hit, list, free, nemu_state, n, rerun, closed>>
    BY <1>5 DEF Leave, guest, local
  <2>3. TypeInv'
    BY <2>1 DEF TypeInv, Pcs
  <2>4. StopInv'
    BY <2>1, CodeKept DEF StopInv
  <2>5. WatchInv'
    BY <2>1, CodeKept DEF WatchInv
  <2>6. CountInv'
    BY <2>1, CodeKept DEF CountInv
  <2>7. OpenInv'
    BY <2>1, CodeKept DEF OpenInv
  <2>8. QED
    BY <2>1, <2>3, <2>4, <2>5, <2>6, <2>7, CodeKept
<1>6. CASE Ready
  <2>1. /\ pc = "ready" /\ pc' = "after" /\ nemu_state' = "READY"
        /\ UNCHANGED <<mem, eip, IFlag, value, hit, list, free, n, rerun, closed>>
    BY <1>6 DEF Ready, guest, local
  <2>2. BreakAt = {}
    BY <2>1, Constants DEF CountInv
  <2>3. TypeInv'
    BY <2>1 DEF TypeInv, Pcs, States
  <2>4. StopInv'
    BY <2>1, CodeKept DEF StopInv
  <2>5. WatchInv'
    BY <2>1, CodeKept DEF WatchInv
  <2>6. CountInv'
    BY <2>1, CodeKept DEF CountInv
  <2>7. OpenInv'
    BY <2>1, <2>2, CodeKept DEF OpenInv
  <2>8. QED
    BY <2>1, <2>3, <2>4, <2>5, <2>6, <2>7, CodeKept
<1>7. CASE After
  <2>1. /\ pc = "after" /\ pc' = (IF nemu_state = "STOP" THEN "gone" ELSE "ui") /\ n' = 0
        /\ closed' = (IF closed = "running" THEN "done" ELSE closed)
        /\ UNCHANGED <<mem, eip, IFlag, value, hit, list, free, nemu_state, rerun>>
    BY <1>7 DEF After, Prompt, guest
  <2>3. TypeInv'
    BY <2>1 DEF TypeInv, Pcs
  <2>4. StopInv'
    BY <2>1, CodeKept DEF StopInv
  <2>5. WatchInv'
    BY <2>1, CodeKept DEF WatchInv
  <2>6. CountInv'
    BY <2>1, CodeKept DEF CountInv
  <2>7. OpenInv'
    BY <2>1, CodeKept DEF OpenInv
  <2>8. QED
    BY <2>1, <2>3, <2>4, <2>5, <2>6, <2>7, CodeKept
<1>8. CASE Close
  <2>1. /\ closed = "no" /\ closed' \in {"waiting", "running"} /\ nemu_state' = "STOP"
        /\ UNCHANGED <<mem, eip, IFlag, value, hit, list, free, pc, n, rerun>>
    BY <1>8 DEF Close, guest, local
  <2>3. TypeInv'
    BY <2>1 DEF TypeInv, States
  <2>4. StopInv'
    BY <2>1, CodeKept DEF StopInv, OpenInv, GoesOn
  <2>5. WatchInv'
    BY <2>1, CodeKept DEF WatchInv
  <2>6. CountInv'
    BY <2>1, CodeKept DEF CountInv
  <2>7. OpenInv'
    BY <2>1 DEF OpenInv
  <2>8. QED
    BY <2>1, <2>3, <2>4, <2>5, <2>6, <2>7, CodeKept
<1>9. QED
  BY <1>1, <1>2, <1>3, <1>4, <1>5, <1>6, <1>7, <1>8

(* b and w.                                                                 *)
LEMMA SetKeeps ==
  ASSUME Careful, IInv, (\E a \in Addrs : SetBreakpoint(a)) \/ SetWatchpoint
  PROVE  IInv'
<1> USE DEF IInv
<1>1. CASE \E a \in Addrs : SetBreakpoint(a)
  <2>1. PICK a \in Addrs : SetBreakpoint(a)
    BY <1>1
  <2>2. /\ pc = "ui" /\ pc' = (IF nemu_state = "STOP" THEN "gone" ELSE "ui")
        /\ mem' = [mem EXCEPT ![a] = INT3_CODE]
        /\ UNCHANGED <<eip, IFlag, value, hit, nemu_state, n, rerun, closed>>
    BY <2>1 DEF SetBreakpoint, Command, Prompt, guest, local
  <2>3. BreakAt = {} /\ nemu_state # "BREAK" /\ (a = Handler => list = <<>>)
    BY <2>1, BreaksAre DEF SetBreakpoint, MaySet
  <2>4. Whole /\ mem[a] = a
    BY <2>3 DEF CodeInv, Whole
  <2>5. PICK e \in Entry :
          /\ e = [NO |-> 0, type |-> "break", addr |-> a, ori_byte |-> mem[a], old_val |-> 0]
          /\ NewBP(e)
    <3>1. [NO |-> 0, type |-> "break", addr |-> a, ori_byte |-> mem[a], old_val |-> 0] \in Entry
      BY <2>4, Constants DEF Entry, Values
    <3>2. QED
      BY <2>1, <3>1 DEF SetBreakpoint
  <2>6. /\ PoolInv' /\ Len(list') = Len(list) + 1 /\ list'[1] = [e EXCEPT !.NO = Head(free)]
        /\ \A j \in 1 .. Len(list) : list'[j + 1] = list[j]
    BY <2>5, NewBPFacts
  <2>7. /\ list'[1].type = "break" /\ list'[1].addr = a /\ list'[1].ori_byte = a
        /\ Len(list) \in Nat /\ 1 \in 1 .. Len(list')
    BY <2>4, <2>5, <2>6 DEF Entry, PoolInv
  <2>8. \A i \in 1 .. Len(list') : i # 1 =>
          i - 1 \in 1 .. Len(list) /\ list'[i] = list[i - 1] /\ list'[i].type # "break"
    <3> SUFFICES ASSUME NEW i \in 1 .. Len(list'), i # 1
                 PROVE  /\ i - 1 \in 1 .. Len(list) /\ list'[i] = list[i - 1]
                        /\ list'[i].type # "break"
      OBVIOUS
    <3>1. i - 1 \in 1 .. Len(list) /\ (i - 1) + 1 = i
      BY <2>6, <2>7
    <3>2. list'[i] = list[i - 1]
      BY <2>6, <3>1
    <3>3. QED
      BY <2>3, <3>1, <3>2 DEF BreakAt
  <2>9. BreakAt' = {1}
    BY <2>7, <2>8 DEF BreakAt
  <2>10. AloneInv'
    <3>1. ASSUME NEW i \in 1 .. Len(list'), NEW j \in 1 .. Len(list'),
                 list'[i].type = list'[j].type
          PROVE  i = j
      <4>1. CASE i = 1 \/ j = 1
        BY <2>7, <2>8, <3>1, <4>1
      <4>2. CASE i # 1 /\ j # 1
        <5>1. i - 1 = j - 1
          BY <2>8, <3>1, <4>2 DEF AloneInv
        <5>2. QED
          BY <5>1
      <4>3. QED
        BY <4>1, <4>2
    <3>2. ASSUME NEW i \in WatchAt', a = Handler PROVE FALSE
      <4>1. list = <<>> /\ Len(list) = 0
        BY <2>3, <3>2
      <4>2. i \in 1 .. Len(list') /\ i # 1
        BY <2>7 DEF WatchAt
      <4>3. QED
        BY <2>8, <4>1, <4>2
    <3>3. QED
      BY <2>7, <2>9, <3>1, <3>2 DEF AloneInv
  <2>11. CodeInv'
    BY <2>2, <2>4, <2>7, <2>9 DEF CodeInv, Whole, TypeInv
  <2>12. WatchInv'
    <3>1. \A i \in WatchAt' : i - 1 \in WatchAt /\ list'[i] = list[i - 1]
      BY <2>7, <2>8 DEF WatchAt
    <3>2. QED
      BY <2>2, <3>1 DEF WatchInv
  <2>13. TypeInv'
    BY <2>2, Constants DEF TypeInv, Pcs
  <2>14. StopInv' /\ CountInv'
    BY <2>2, <2>3 DEF StopInv, CountInv
  <2>15. OpenInv'
    BY <2>2, <2>4, <2>7, <2>9 DEF OpenInv, TypeInv
  <2>16. QED
    BY <2>6, <2>10, <2>11, <2>12, <2>13, <2>14, <2>15
<1>2. CASE SetWatchpoint
  <2>2. /\ pc = "ui" /\ pc' = (IF nemu_state = "STOP" THEN "gone" ELSE "ui")
        /\ UNCHANGED <<mem, eip, IFlag, value, hit, nemu_state, n, rerun, closed>>
    BY <1>2 DEF SetWatchpoint, Command, Prompt, guest, local
  <2>3. WatchAt = {} /\ \A j \in BreakAt : list[j].addr # Handler
    <3>1. /\ Range(list) = Breaks /\ DOMAIN list = 1 .. Len(list)
          /\ \A e \in Breaks : e.addr # Handler
      BY <1>2 DEF SetWatchpoint, MayWatch, PoolInv
    <3>2. \A j \in 1 .. Len(list) : list[j].type = "break" /\ list[j].addr # Handler
      BY <3>1 DEF Breaks, Range
    <3>3. QED
      BY <3>2 DEF WatchAt, BreakAt
  <2>5. PICK e \in Entry :
          /\ e = [NO |-> 0, type |-> "watch", addr |-> 0, ori_byte |-> 0, old_val |-> value]
          /\ NewBP(e)
    <3>1. [NO |-> 0, type |-> "watch", addr |-> 0, ori_byte |-> 0, old_val |-> value] \in Entry
      BY Constants DEF Entry, TypeInv
    <3>2. QED
      BY <1>2, <3>1 DEF SetWatchpoint
  <2>6. /\ PoolInv' /\ Len(list') = Len(list) + 1 /\ list'[1] = [e EXCEPT !.NO = Head(free)]
        /\ \A j \in 1 .. Len(list) : list'[j + 1] = list[j]
    BY <2>5, NewBPFacts
  <2>7. /\ list'[1].type = "watch" /\ list'[1].old_val = value
        /\ Len(list) \in Nat /\ 1 \in 1 .. Len(list')
    BY <2>5, <2>6 DEF Entry, PoolInv
  <2>8. \A i \in 1 .. Len(list') : i # 1 =>
          i - 1 \in 1 .. Len(list) /\ list'[i] = list[i - 1] /\ list'[i].type # "watch"
    <3> SUFFICES ASSUME NEW i \in 1 .. Len(list'), i # 1
                 PROVE  /\ i - 1 \in 1 .. Len(list) /\ list'[i] = list[i - 1]
                        /\ list'[i].type # "watch"
      OBVIOUS
    <3>1. i - 1 \in 1 .. Len(list) /\ (i - 1) + 1 = i
      BY <2>6, <2>7
    <3>2. list'[i] = list[i - 1]
      BY <2>6, <3>1
    <3>3. QED
      BY <2>3, <3>1, <3>2 DEF WatchAt
  <2>9. WatchAt' = {1} /\ \A i \in BreakAt' : i - 1 \in BreakAt /\ list'[i] = list[i - 1]
    BY <2>7, <2>8 DEF WatchAt, BreakAt
  <2>16. \A j \in BreakAt : j + 1 \in BreakAt' /\ list'[j + 1] = list[j]
    BY <2>6, <2>7 DEF BreakAt
  <2>10. AloneInv'
    <3>1. ASSUME NEW i \in 1 .. Len(list'), NEW j \in 1 .. Len(list'),
                 list'[i].type = list'[j].type
          PROVE  i = j
      <4>1. CASE i = 1 \/ j = 1
        BY <2>7, <2>8, <3>1, <4>1
      <4>2. CASE i # 1 /\ j # 1
        <5>1. i - 1 = j - 1
          BY <2>8, <3>1, <4>2 DEF AloneInv
        <5>2. QED
          BY <5>1
      <4>3. QED
        BY <4>1, <4>2
    <3>2. \A j \in BreakAt' : list'[j].addr # Handler
      BY <2>3, <2>9
    <3>3. QED
      BY <3>1, <3>2 DEF AloneInv
  <2>11. CodeInv'
    BY <2>2, <2>9, <2>16 DEF CodeInv
  <2>12. WatchInv'
    BY <2>2, <2>7, <2>9 DEF WatchInv
  <2>13. TypeInv'
    BY <2>2 DEF TypeInv, Pcs
  <2>14. StopInv' /\ CountInv'
    BY <2>2 DEF StopInv, CountInv, Whole
  <2>15. OpenInv'
    BY <2>2, <2>9 DEF OpenInv
  <2>17. QED
    BY <2>6, <2>10, <2>11, <2>12, <2>13, <2>14, <2>15
<1>3. QED
  BY <1>1, <1>2

(* A breakpoint leaves the list only while the code is whole.              *)
LEMMA DeleteKeeps ==
  ASSUME Careful, IInv, (\E j \in 1 .. NR_BP : Delete(j)) \/ DeleteAll
  PROVE  IInv'
<1> USE DEF IInv
<1>1. /\ pc = "ui" /\ pc' = (IF nemu_state = "STOP" THEN "gone" ELSE "ui")
      /\ UNCHANGED <<mem, eip, IFlag, value, hit, nemu_state, n, rerun, closed>>
  BY DEF Delete, DeleteAll, Command, Prompt, guest, local
<1>2. TypeInv'
  BY <1>1 DEF TypeInv, Pcs
<1>3. StopInv' /\ CountInv'
  BY <1>1 DEF StopInv, CountInv, Whole
<1>4. CASE \E j \in 1 .. NR_BP : Delete(j)
  <2>1. PICK j \in 1 .. Len(list) :
          /\ MayDelete(list[j]) /\ list' = RemoveAt(list, j) /\ free' = <<list[j].NO>> \o free
    BY <1>4 DEF Delete
  <2>2. list \in Seq(Entry) /\ free \in Seq(Nos) /\ Len(list) \in Nat /\ list[j].NO \in Nos
    BY EntriesAre
  <2>3. /\ list' \in Seq(Entry) /\ Len(list') = Len(list) - 1
        /\ \A i \in 1 .. Len(list') : list'[i] = list[IF i < j THEN i ELSE i + 1]
    BY <2>1, <2>2, RemoveFacts
  <2>4. /\ free' \in Seq(Nos) /\ Len(free') = Len(free) + 1 /\ free'[1] = list[j].NO
        /\ \A i \in 1 .. Len(free) : free'[i + 1] = free[i]
    BY <2>1, <2>2
  <2>5. \A i \in 1 .. Len(list) : i # j =>
          \E h \in 1 .. Len(list') : list'[h] = list[i]
    <3> SUFFICES ASSUME NEW i \in 1 .. Len(list), i # j
                 PROVE  \E h \in 1 .. Len(list') : list'[h] = list[i]
      OBVIOUS
    <3>1. CASE i < j
      <4>1. i \in 1 .. Len(list') /\ list'[i] = list[i]
        BY <2>2, <2>3, <3>1
      <4>2. QED
        BY <4>1
    <3>2. CASE i > j
      <4>1. i - 1 \in 1 .. Len(list') /\ ~(i - 1 < j) /\ (i - 1) + 1 = i
        BY <2>2, <2>3, <3>2
      <4>2. list'[i - 1] = list[i]
        BY <2>3, <4>1
      <4>3. QED
        BY <4>1, <4>2
    <3>3. QED
      BY <3>1, <3>2
  <2>6. PoolInv'
    <3>1. ASSUME NEW x \in Nos
          PROVE  \/ \E i \in 1 .. Len(list') : list'[i].NO = x
                 \/ \E i \in 1 .. Len(free') : free'[i] = x
      <4>1. CASE \E i \in 1 .. Len(list) : list[i].NO = x
        <5>1. PICK i \in 1 .. Len(list) : list[i].NO = x
          BY <4>1
        <5>2. CASE i = j
          <6>1. 1 \in 1 .. Len(free') /\ free'[1] = x
            BY <2>2, <2>4, <5>1, <5>2
          <6>2. QED
            BY <6>1
        <5>3. CASE i # j
          BY <2>5, <5>1, <5>3
        <5>4. QED
          BY <5>2, <5>3
      <4>2. CASE \E i \in 1 .. Len(free) : free[i] = x
        <5>1. PICK i \in 1 .. Len(free) : free[i] = x
          BY <4>2
        <5>2. i + 1 \in 1 .. Len(free') /\ free'[i + 1] = x
          BY <2>2, <2>4, <5>1
        <5>3. QED
          BY <5>2
      <4>3. QED
        BY <4>1, <4>2 DEF PoolInv
    <3>2. Len(list') + Len(free') = NR_BP
      BY <2>2, <2>3, <2>4 DEF PoolInv
    <3>3. QED
      BY <2>3, <2>4, <3>1, <3>2 DEF PoolInv
  <2>7. \A i \in 1 .. Len(list') :
          \E h \in 1 .. Len(list) : /\ h # j /\ list'[i] = list[h]
                                    /\ h = IF i < j THEN i ELSE i + 1
    <3> SUFFICES ASSUME NEW i \in 1 .. Len(list')
                 PROVE  \E h \in 1 .. Len(list) : /\ h # j /\ list'[i] = list[h]
                                                  /\ h = IF i < j THEN i ELSE i + 1
      OBVIOUS
    <3> DEFINE h == IF i < j THEN i ELSE i + 1
    <3>1. h \in 1 .. Len(list) /\ h # j
      BY <2>2, <2>3
    <3>2. list'[i] = list[h]
      BY <2>3
    <3>3. QED
      BY <3>1, <3>2
  <2>8. ASSUME NEW x \in 1 .. Len(list'), NEW y \in 1 .. Len(list'),
               list'[x].type = list'[y].type
        PROVE  x = y
    <3>1. (IF x < j THEN x ELSE x + 1) = (IF y < j THEN y ELSE y + 1)
      BY <2>7, <2>8 DEF AloneInv
    <3>2. QED
      BY <2>1, <2>2, <2>3, <3>1
  <2>9. /\ \A i \in BreakAt' : \E h \in BreakAt : list'[i] = list[h]
        /\ \A i \in WatchAt' : \E h \in WatchAt : list'[i] = list[h]
    BY <2>7 DEF BreakAt, WatchAt
  <2>10. AloneInv' /\ WatchInv'
    <3>1. ASSUME WatchAt' # {}, NEW i \in BreakAt' PROVE list'[i].addr # Handler
      <4>1. WatchAt # {} /\ \E h \in BreakAt : list'[i] = list[h]
        BY <2>9, <3>1
      <4>2. QED
        BY <4>1 DEF AloneInv
    <3>2. AloneInv'
      BY <2>8, <3>1 DEF AloneInv
    <3>3. QED
      BY <1>1, <2>9, <3>2 DEF WatchInv
  <2>11. CodeInv'
    <3>1. CASE list[j].type = "break"
      <4>1. Whole
        BY <1>1, <2>1, <3>1 DEF MayDelete, StopInv
      <4>2. QED
        BY <1>1, <2>9, <4>1 DEF CodeInv, Whole
    <3>2. CASE list[j].type # "break"
      <4>1. \A i \in BreakAt : \E h \in BreakAt' : list'[h] = list[i]
        BY <2>5, <3>2 DEF BreakAt
      <4>2. QED
        BY <1>1, <2>9, <4>1 DEF CodeInv
    <3>3. QED
      BY <3>1, <3>2
  <2>12. OpenInv'
    BY <1>1, <2>9 DEF OpenInv
  <2>13. QED
    BY <1>2, <1>3, <2>6, <2>9, <2>10, <2>11, <2>12 DEF CountInv
<1>5. CASE DeleteAll
  <2> DEFINE nos == [j \in 1 .. Len(list) |-> list[j].NO]
  <2>1. /\ list # <<>> /\ \A e \in Range(list) : MayDelete(e)
        /\ list' = <<>> /\ free' = nos \o free
    BY <1>5 DEF DeleteAll
  <2>2. /\ list \in Seq(Entry) /\ free \in Seq(Nos) /\ Len(list) \in Nat
        /\ \A j \in 1 .. Len(list) : list[j].NO \in Nos
    BY EntriesAre
  <2>3. nos \in Seq(Nos) /\ Len(nos) = Len(list) /\ \A j \in 1 .. Len(list) : nos[j] = list[j].NO
    BY <2>2
  <2> HIDE DEF nos
  <2>4. /\ free' \in Seq(Nos) /\ Len(free') = Len(list) + Len(free)
        /\ \A i \in 1 .. Len(list) + Len(free) :
             free'[i] = IF i <= Len(list) THEN list[i].NO ELSE free[i - Len(list)]
    BY <2>1, <2>2, <2>3, ConcatProperties
  <2>5. list' \in Seq(Entry) /\ Len(list') = 0
    BY <2>1
  <2>6. PoolInv'
    <3>1. ASSUME NEW x \in Nos
          PROVE  \E i \in 1 .. Len(free') : free'[i] = x
      <4>1. CASE \E i \in 1 .. Len(list) : list[i].NO = x
        <5>1. PICK i \in 1 .. Len(list) : list[i].NO = x
          BY <4>1
        <5>2. i \in 1 .. Len(free') /\ free'[i] = x
          BY <2>2, <2>4, <5>1
        <5>3. QED
          BY <5>2
      <4>2. CASE \E i \in 1 .. Len(free) : free[i] = x
        <5>1. PICK i \in 1 .. Len(free) : free[i] = x
          BY <4>2
        <5>2. /\ i + Len(list) \in 1 .. Len(free') /\ ~(i + Len(list) <= Len(list))
              /\ (i + Len(list)) - Len(list) = i
          BY <2>2, <2>4, <5>1
        <5>3. free'[i + Len(list)] = x
          BY <2>4, <5>1, <5>2
        <5>4. QED
          BY <5>2, <5>3
      <4>3. QED
        BY <4>1, <4>2 DEF PoolInv
    <3>2. QED
      BY <2>4, <2>5, <3>1 DEF PoolInv
  <2>7. BreakAt' = {} /\ WatchAt' = {} /\ AloneInv'
    BY <2>5 DEF BreakAt, WatchAt, AloneInv
  <2>8. Whole
    <3>1. CASE BreakAt = {}
      BY <3>1 DEF CodeInv, Whole
    <3>2. CASE BreakAt # {}
      <4>1. PICK j \in 1 .. Len(list) : list[j].type = "break"
        BY <3>2 DEF BreakAt
      <4>2. list[j] \in Range(list)
        BY <2>2 DEF Range
      <4>3. QED
        BY <1>1, <2>1, <4>1, <4>2 DEF MayDelete, StopInv
    <3>3. QED
      BY <3>1, <3>2
  <2>9. CodeInv' /\ WatchInv' /\ OpenInv'
    BY <1>1, <2>7, <2>8 DEF CodeInv, WatchInv, OpenInv, Whole
  <2>10. QED
    BY <1>2, <1>3, <2>6, <2>7, <2>9
<1>6. QED
  BY <1>4, <1>5

(* exec_inst, resume_breakpoints behind the instruction of a stop.         *)
LEMMA InstKeeps ==
  ASSUME Careful, IInv, Inst
  PROVE  IInv'
<1> USE DEF IInv
<1>1. /\ pc = "inst" /\ pc' = "check" /\ eip \in Addrs /\ ExecInst
      /\ n' = (IF n = Forever THEN n ELSE n - 1) /\ rerun' = FALSE
      /\ UNCHANGED <<free, closed>>
  BY DEF Inst
<1>2. /\ rerun => mem' = Resumed(mem) /\ list' = Resaved(mem)
      /\ ~rerun => UNCHANGED <<mem, list>>
  BY DEF Inst
<1>3. nemu_state # "BREAK" /\ (rerun => Whole)
  BY <1>1 DEF StopInv
<1>4. /\ Len(list') = Len(list) /\ list' \in Seq(Entry)
      /\ \A j \in 1 .. Len(list) :
           /\ list'[j].NO = list[j].NO /\ list'[j].type = list[j].type
           /\ list'[j].addr = list[j].addr /\ list'[j].old_val = list[j].old_val
           /\ j \in BreakAt => list'[j].ori_byte = list[j].addr
  <2>1. CASE rerun
    <3>1. list' = [j \in 1 .. Len(list) |-> list'[j]] /\ Len(list) \in Nat
      BY <1>2, <2>1, EntriesAre DEF Resaved
    <3>2. \A j \in 1 .. Len(list) :
            /\ list'[j] \in Entry
            /\ list'[j].NO = list[j].NO /\ list'[j].type = list[j].type
            /\ list'[j].addr = list[j].addr /\ list'[j].old_val = list[j].old_val
            /\ j \in BreakAt => list'[j].ori_byte = list[j].addr
      <4> SUFFICES ASSUME NEW j \in 1 .. Len(list)
                   PROVE  /\ list'[j] \in Entry
                          /\ list'[j].NO = list[j].NO /\ list'[j].type = list[j].type
                          /\ list'[j].addr = list[j].addr /\ list'[j].old_val = list[j].old_val
                          /\ j \in BreakAt => list'[j].ori_byte = list[j].addr
        OBVIOUS
      <4>1. list[j] \in Entry /\ list[j].addr \in Addrs /\ mem[list[j].addr] = list[j].addr
        BY <1>3, <2>1, EntriesAre DEF Entry, Whole
      <4>2. ~\E i \in 1 .. j - 1 : list[i].type = "break" /\ list[i].addr = list[j].addr
              /\ list[j].type = "break"
        BY EntriesAre DEF AloneInv
      <4>3. list'[j] = IF list[j].type = "watch" THEN list[j]
                       ELSE [list[j] EXCEPT !.ori_byte = list[j].addr]
        <5>1. CASE list[j].type = "watch"
          BY <1>2, <2>1, <5>1 DEF Resaved
        <5>2. CASE list[j].type = "break"
          BY <1>2, <2>1, <4>1, <4>2, <5>2 DEF Resaved
        <5>3. QED
          BY <4>1, <5>1, <5>2 DEF Entry
      <4>4. QED
        BY <4>1, <4>3 DEF Entry, BreakAt
    <3>3. QED
      BY <3>1, <3>2
  <2>2. CASE ~rerun
    BY <1>2, <2>2, EntriesAre DEF CodeInv
  <2>3. QED
    BY <2>1, <2>2
<1>5. BreakAt' = BreakAt /\ WatchAt' = WatchAt
  BY <1>4 DEF BreakAt, WatchAt
<1>6. PoolInv' /\ AloneInv'
  <2>1. UNCHANGED free
    BY <1>1
  <2>2. PoolInv'
    BY <1>4, <2>1 DEF PoolInv
  <2>3. QED
    BY <1>4, <1>5, <2>2 DEF AloneInv, BreakAt, WatchAt
<1>7. \A a \in Addrs :
        mem'[a] = IF rerun /\ \E j \in BreakAt : list[j].addr = a THEN INT3_CODE ELSE mem[a]
  <2>1. \A a : (\E e \in Breaks : e.addr = a) <=> \E j \in BreakAt : list[j].addr = a
    BY BreaksAre
  <2>2. QED
    BY <1>2, <2>1 DEF Resumed
<1>8. mem' \in [Addrs -> Addrs \cup {INT3_CODE}]
  BY <1>2, <1>7 DEF Resumed, TypeInv
<1>9. CodeInv'
  <2>1. \A j \in BreakAt : list'[j].addr = list[j].addr /\ list'[j].ori_byte = list[j].addr
    BY <1>4 DEF BreakAt
  <2>2. ASSUME NEW a \in Addrs, mem'[a] # a
        PROVE  mem'[a] = INT3_CODE /\ \E j \in BreakAt : list[j].addr = a
    BY <1>7, <2>2 DEF CodeInv
  <2>3. QED
    BY <1>5, <2>1, <2>2 DEF CodeInv
<1>10. /\ eip' \in 0 .. Exit + 1 /\ nemu_state' \in States /\ IFlag' \in BOOLEAN
       /\ value' \in Values /\ hit' \in BOOLEAN
  <2>1. eip + 1 \in 0 .. Exit + 1 /\ \A a \in Addrs : a \in 0 .. Exit + 1
    BY <1>1, Constants DEF Addrs
  <2>2. eip' \in 0 .. Exit + 1 /\ nemu_state' \in States
    BY <1>1, <2>1 DEF ExecInst, States, TypeInv
  <2>3. IFlag' \in BOOLEAN /\ value' \in Values
    BY <1>1 DEF ExecInst, TypeInv
  <2>4. hit' = TRUE \/ hit' = hit
    BY <1>1 DEF ExecInst
  <2>5. QED
    BY <2>2, <2>3, <2>4 DEF TypeInv
<1>11. TypeInv'
  <2>1. n' \in {Forever} \cup Nat
    BY <1>1, Constants DEF TypeInv, Forever
  <2>2. QED
    BY <1>1, <1>8, <1>10, <2>1 DEF TypeInv, Pcs
<1>12. nemu_state' = "BREAK" => /\ hit' /\ value' = value /\ ~rerun
                                /\ \E j \in BreakAt : list[j].addr = eip
  <2>1. CASE mem[eip] = INT3_CODE
    <3>1. mem[eip] # eip
      BY <1>1, <2>1, Constants
    <3>2. QED
      BY <1>1, <1>3, <2>1, <3>1 DEF ExecInst, CodeInv, Whole
  <2>2. CASE mem[eip] # INT3_CODE
    BY <1>1, <1>3, <2>2 DEF ExecInst
  <2>3. QED
    BY <2>1, <2>2
<1>13. StopInv'
  <2>1. nemu_state' = "BREAK" => \E j \in BreakAt' : list'[j].addr = eip' - 1
    <3>1. nemu_state' = "BREAK" => eip' - 1 = eip
      BY <1>1, <1>3, Constants DEF ExecInst, Addrs
    <3>2. \A j \in BreakAt : list'[j].addr = list[j].addr
      BY <1>4 DEF BreakAt
    <3>3. QED
      BY <1>5, <1>12, <3>1, <3>2
  <2>2. QED
    BY <1>1, <2>1 DEF StopInv
<1>14. WatchInv'
  <2>1. \A j \in WatchAt : list'[j].old_val = list[j].old_val
    BY <1>4 DEF WatchAt
  <2>2. ASSUME nemu_state' = "BREAK" \/ (nemu_state' = "STOP" /\ closed = "no")
        PROVE  value' = value /\ \A j \in WatchAt : list[j].old_val = value
    <3>1. value' = value /\ (mem[eip] = INT3_CODE \/ mem[eip] = Exit)
      BY <1>1, <1>3, <1>12, <2>2 DEF ExecInst, OpenInv
    <3>2. CASE eip # Handler
      BY <1>1, <3>1, <3>2 DEF WatchInv
    <3>3. CASE eip = Handler /\ WatchAt # {}
      <4>1. \A j \in BreakAt : list[j].addr # Handler
        BY <3>3 DEF AloneInv, BreakAt, WatchAt
      <4>2. mem[Handler] = Handler /\ Handler # Exit /\ Handler # INT3_CODE
        BY <4>1, Constants, BreakpointAssumption DEF CodeInv
      <4>3. QED
        BY <3>1, <3>3, <4>2
    <3>4. QED
      BY <3>1, <3>2, <3>3
  <2>3. QED
    BY <1>1, <1>5, <2>1, <2>2 DEF WatchInv
<1>15. CountInv'
  BY <1>1, <1>5 DEF CountInv
<1>16. OpenInv'
  <2> SUFFICES ASSUME closed = "no"
               PROVE  /\ hit' <=> nemu_state' = "BREAK"
                      /\ nemu_state' # "BREAK" =>
                           \A j \in BreakAt' : mem'[list'[j].addr] = INT3_CODE
                      /\ nemu_state' # "READY"
    BY <1>1 DEF OpenInv
  <2>1. nemu_state = "RUN" /\ ~hit
    BY <1>1 DEF OpenInv
  <2>2. hit' <=> nemu_state' = "BREAK"
    BY <1>1, <2>1 DEF ExecInst
  <2>3. \A j \in BreakAt : mem'[list'[j].addr] = INT3_CODE
    <3> SUFFICES ASSUME NEW j \in BreakAt PROVE mem'[list'[j].addr] = INT3_CODE
      OBVIOUS
    <3>1. list'[j].addr = list[j].addr /\ list[j].addr \in Addrs
      BY <1>4, EntriesAre DEF BreakAt, Entry
    <3>2. QED
      BY <1>7, <2>1, <3>1 DEF OpenInv
  <2>4. nemu_state' # "READY"
    BY <1>1, <2>1 DEF ExecInst
  <2>5. QED
    BY <1>5, <2>2, <2>3, <2>4
<1>17. QED
  BY <1>6, <1>9, <1>11, <1>13, <1>14, <1>15, <1>16

(* The checks behind an instruction: find_breakpoint, scan_watchpoint.     *)
LEMMA CheckKeeps ==
  ASSUME Careful, IInv, Check
  PROVE  IInv'
<1> USE DEF IInv
<1> DEFINE found == IF nemu_state = "BREAK" THEN FirstAt(eip - 1) ELSE {}
           changed == FirstChanged
<1>1. /\ pc = "check"
      /\ mem' = [a \in Addrs |-> IF \E j \in found : list[j].addr = a
                                 THEN list[CHOOSE j \in found : TRUE].ori_byte ELSE mem[a]]
      /\ IF found # {} THEN eip' = eip - 1 /\ hit' = FALSE ELSE UNCHANGED <<eip, hit>>
      /\ list' = [j \in 1 .. Len(list) |->
                    IF j \in changed THEN [list[j] EXCEPT !.old_val = value] ELSE list[j]]
      /\ IF changed # {} THEN nemu_state' = "READY" /\ pc' = "leave"
                         ELSE pc' = "loop" /\ UNCHANGED nemu_state
      /\ UNCHANGED <<IFlag, free, n, rerun, value, closed>>
  BY DEF Check, local
<1>2. ~rerun
  BY <1>1 DEF StopInv
<1>3. changed = {j \in WatchAt : list[j].old_val # value}
  <2>1. \A j \in 1 .. Len(list) : \A i \in 1 .. j - 1 :
          i \in 1 .. Len(list) /\ i # j
    BY EntriesAre
  <2>2. QED
    BY <2>1 DEF FirstChanged, AloneInv, WatchAt
<1>4. nemu_state = "BREAK" \/ (nemu_state = "STOP" /\ closed = "no") => changed = {}
  BY <1>1, <1>3 DEF WatchInv
<1> HIDE DEF changed
<1>5. /\ Len(list') = Len(list) /\ list' \in Seq(Entry)
      /\ \A j \in 1 .. Len(list) :
           /\ list'[j].NO = list[j].NO /\ list'[j].type = list[j].type
           /\ list'[j].addr = list[j].addr /\ list'[j].ori_byte = list[j].ori_byte
           /\ list'[j].old_val = IF j \in changed THEN value ELSE list[j].old_val
  <2>1. \A j \in 1 .. Len(list) :
          list'[j] = IF j \in changed THEN [list[j] EXCEPT !.old_val = value] ELSE list[j]
    BY <1>1
  <2>2. list' = [j \in 1 .. Len(list) |-> list'[j]] /\ Len(list) \in Nat /\ value \in Values
    BY <1>1, EntriesAre DEF TypeInv
  <2>3. \A e \in Entry : [e EXCEPT !.old_val = value] \in Entry
    BY <2>2 DEF Entry
  <2>4. \A j \in 1 .. Len(list) : list[j] \in Entry /\ list'[j] \in Entry
    BY <2>1, <2>3, EntriesAre
  <2>5. \A j \in 1 .. Len(list) :
          /\ list'[j].NO = list[j].NO /\ list'[j].type = list[j].type
          /\ list'[j].addr = list[j].addr /\ list'[j].ori_byte = list[j].ori_byte
          /\ list'[j].old_val = IF j \in changed THEN value ELSE list[j].old_val
    BY <2>1, <2>4 DEF Entry
  <2>6. QED
    BY <2>2, <2>4, <2>5
<1>6. BreakAt' = BreakAt /\ WatchAt' = WatchAt
  BY <1>5 DEF BreakAt, WatchAt
<1>7. PoolInv' /\ AloneInv'
  <2>1. UNCHANGED free
    BY <1>1
  <2>2. PoolInv'
    BY <1>5, <2>1 DEF PoolInv
  <2>3. QED
    BY <1>5, <1>6, <2>2 DEF AloneInv, BreakAt, WatchAt
<1>8. WatchInv'
  BY <1>1, <1>3, <1>5, <1>6 DEF WatchInv, WatchAt
<1>9. CountInv'
  BY <1>1, <1>6 DEF CountInv
<1>10. /\ mem' \in [Addrs -> Addrs \cup {INT3_CODE}] /\ CodeInv' /\ eip' \in 0 .. Exit + 1
       /\ hit' \in BOOLEAN
       /\ nemu_state = "BREAK" => /\ Whole' /\ hit' = FALSE
                                  /\ \E j \in BreakAt' : list'[j].addr = eip'
       /\ nemu_state # "BREAK" => UNCHANGED <<mem, eip, hit>>
  <2>1. CASE nemu_state = "BREAK"
    <3>1. PICK j \in BreakAt : list[j].addr = eip - 1
      BY <1>1, <2>1 DEF StopInv
    <3>2. \A i \in BreakAt : i = j
      BY DEF AloneInv, BreakAt
    <3>3. found = {j}
      <4>1. \A h \in 1 .. Len(list) : \A i \in 1 .. h - 1 : i \in 1 .. Len(list) /\ i # h
        BY EntriesAre
      <4>2. QED
        BY <2>1, <3>1, <3>2, <4>1 DEF FirstAt, BreakAt
    <3> HIDE DEF found
    <3>4. (CHOOSE i \in found : TRUE) = j
      BY <3>3
    <3>5. list[j].ori_byte = list[j].addr /\ list[j].addr \in Addrs
      BY EntriesAre DEF CodeInv, BreakAt, Entry
    <3>6. mem' = [a \in Addrs |-> IF list[j].addr = a THEN list[j].addr ELSE mem[a]]
      BY <1>1, <3>3, <3>4, <3>5
    <3>7. Whole'
      BY <3>2, <3>6 DEF Whole, CodeInv
    <3>8. CodeInv'
      <4>1. \A i \in BreakAt' : list'[i].ori_byte = list'[i].addr
        BY <1>5, <1>6 DEF CodeInv, BreakAt
      <4>2. QED
        BY <3>7, <4>1 DEF CodeInv, Whole
    <3>9. mem' \in [Addrs -> Addrs \cup {INT3_CODE}]
      BY <3>6 DEF TypeInv
    <3>10. eip' = eip - 1 /\ hit' = FALSE /\ eip' \in 0 .. Exit + 1
      <4>1. eip' = eip - 1 /\ hit' = FALSE
        BY <1>1, <3>3
      <4>2. eip' \in Addrs /\ \A a \in Addrs : a \in 0 .. Exit + 1
        BY <3>1, <3>5, <4>1, Constants DEF Addrs
      <4>3. QED
        BY <4>1, <4>2
    <3>11. \E i \in BreakAt' : list'[i].addr = eip'
      BY <1>5, <1>6, <3>1, <3>10 DEF BreakAt
    <3>12. QED
      BY <2>1, <3>7, <3>8, <3>9, <3>10, <3>11
  <2>2. CASE nemu_state # "BREAK"
    <3>1. mem' = [a \in Addrs |-> mem[a]] /\ UNCHANGED <<eip, hit>>
      BY <1>1, <2>2
    <3>2. UNCHANGED mem
      BY <3>1 DEF TypeInv
    <3>3. CodeInv'
      BY <1>5, <1>6, <3>2 DEF CodeInv, BreakAt
    <3>4. QED
      BY <2>2, <3>1, <3>2, <3>3 DEF TypeInv
  <2>3. QED
    BY <2>1, <2>2
<1>11. TypeInv'
  BY <1>1, <1>10 DEF TypeInv, Pcs, States
<1>12. StopInv'
  BY <1>1, <1>2, <1>10 DEF StopInv
<1>13. OpenInv'
  <2>1. closed = "no" => ~hit'
    BY <1>1, <1>10 DEF OpenInv
  <2>2. closed = "no" /\ nemu_state # "BREAK" =>
          \A j \in BreakAt' : mem'[list'[j].addr] = INT3_CODE
    BY <1>1, <1>2, <1>5, <1>6, <1>10 DEF OpenInv, BreakAt
  <2>3. closed = "no" /\ nemu_state' # "BREAK" => nemu_state # "BREAK"
    BY <1>1, <1>4
  <2>4. QED
    BY <1>1, <1>2, <2>1, <2>2, <2>3 DEF OpenInv
<1>14. QED
  BY <1>7, <1>8, <1>9, <1>10, <1>11, <1>12, <1>13

(* The debugger at its first prompt.                                        *)
LEMMA InitHolds == ASSUME Init PROVE IInv
<1> USE DEF Init
<1>1. Len(list) = 0 /\ BreakAt = {} /\ WatchAt = {}
  BY DEF BreakAt, WatchAt
<1>2. TypeInv
  <2>1. mem \in [Addrs -> Addrs \cup {INT3_CODE}]
    OBVIOUS
  <2>2. eip \in 0 .. Exit + 1 /\ value \in Values /\ n \in {Forever} \cup Nat
    BY Constants DEF Values
  <2>3. IFlag \in BOOLEAN /\ rerun \in BOOLEAN /\ hit \in BOOLEAN
    OBVIOUS
  <2>4. QED
    BY <2>1, <2>2, <2>3 DEF TypeInv, States, Pcs
<1>3. PoolInv
  <2>1. free = [j \in 1 .. NR_BP |-> j - 1] /\ NR_BP \in Nat
    BY Constants
  <2>2. free \in Seq(Nos) /\ Len(free) = NR_BP /\ list \in Seq(Entry)
    BY <2>1 DEF Nos
  <2>3. \A x \in Nos : x + 1 \in 1 .. Len(free) /\ free[x + 1] = x
    BY <2>1, <2>2 DEF Nos
  <2>4. QED
    <3>1. \A x \in Nos : \E j \in 1 .. Len(free) : free[j] = x
      BY <2>3
    <3>2. Len(list) + Len(free) = NR_BP
      BY <1>1, <2>1, <2>2
    <3>3. QED
      BY <2>2, <3>1, <3>2 DEF PoolInv
<1>4. AloneInv /\ CodeInv /\ StopInv /\ WatchInv /\ CountInv /\ OpenInv
  BY <1>1 DEF AloneInv, CodeInv, StopInv, WatchInv, CountInv, OpenInv
<1>5. QED
  BY <1>2, <1>3, <1>4 DEF IInv

(* Every step of exec(), the user and the window.                           *)
LEMMA NextKeeps == ASSUME Careful PROVE IInv /\ [Next]_vars => IInv'
<1> SUFFICES ASSUME IInv, [Next]_vars PROVE IInv'
  OBVIOUS
<1>1. CASE (\E a \in Addrs : SetBreakpoint(a)) \/ SetWatchpoint
  BY <1>1, SetKeeps
<1>2. CASE (\E j \in 1 .. NR_BP : Delete(j)) \/ DeleteAll
  BY <1>2, DeleteKeeps
<1>3. CASE Inst
  BY <1>3, InstKeeps
<1>4. CASE Check
  BY <1>4, CheckKeeps
<1>5. CASE Continue \/ StepOn \/ Begin \/ Test \/ Loop \/ Leave \/ Ready \/ After \/ Close
  BY <1>5, FlowKeeps
<1>6. CASE UNCHANGED vars
  <2>1. UNCHANGED <<mem, eip, IFlag, list, free, nemu_state, pc, n, rerun, value, hit, closed>>
    BY <1>6 DEF vars
  <2>2. TypeInv' /\ StopInv' /\ WatchInv' /\ CountInv' /\ OpenInv'
    BY <2>1, CodeKept DEF IInv, TypeInv, StopInv, WatchInv, CountInv, OpenInv, GoesOn
  <2>3. QED
    BY <2>1, <2>2, CodeKept DEF IInv
<1>7. QED
  <2> DEFINE Sets == \E a \in Addrs : SetBreakpoint(a)
             Deletes == \E j \in 1 .. NR_BP : Delete(j)
  <2>1. \/ Sets \/ SetWatchpoint \/ Deletes \/ DeleteAll \/ Continue \/ StepOn
        \/ Exec \/ Close \/ UNCHANGED vars
    BY DEF Next, Continue, StepOn
  <2>2. CASE Sets \/ SetWatchpoint
    BY <1>1, <2>2
  <2>3. CASE Deletes \/ DeleteAll
    BY <1>2, <2>3
  <2>4. CASE Continue \/ StepOn
    BY <1>5, <2>4
  <2>5. CASE Exec \/ Close
    BY <1>3, <1>4, <1>5, <2>5 DEF Exec
  <2>6. QED
    <3> HIDE DEF Sets, Deletes
    <3>1. QED
      BY <1>6, <2>1, <2>2, <2>3, <2>4, <2>5

(* With a careful user no step leaves the inductive invariant.             *)
THEOREM Invariance == ASSUME Careful PROVE Spec => []IInv
<1>1. Init => IInv
  BY InitHolds
<1>2. IInv /\ [Next]_vars => IInv'
  BY NextKeeps
<1>3. QED
  BY <1>1, <1>2, PTL DEF Spec
-----------------------------------------------------------------------------
(* No entry of bp_list is lost or twice in a list, and what was planted    *)
(* can be taken out: the byte is remembered until it is back.              *)
THEOREM PoolAndCode == ASSUME Careful PROVE Spec => []PoolAndCodeAreKept
<1>1. IInv => PoolAndCodeAreKept
  <2> SUFFICES ASSUME IInv PROVE PoolAndCodeAreKept
    OBVIOUS
  <2> USE DEF IInv
  <2> DEFINE nos == [j \in 1 .. Len(list) |-> list[j].NO]
  <2>1. nos \in Seq(Nos) /\ Len(nos) = Len(list) /\ \A j \in 1 .. Len(list) : nos[j] = list[j].NO
    BY EntriesAre
  <2> HIDE DEF nos
  <2>2. /\ nos \o free \in Seq(Nos) /\ Len(nos \o free) = Len(list) + Len(free)
        /\ \A i \in 1 .. Len(list) + Len(free) :
             (nos \o free)[i] = IF i <= Len(list) THEN list[i].NO ELSE free[i - Len(list)]
    <3>1. /\ nos \o free \in Seq(Nos) /\ Len(nos \o free) = Len(nos) + Len(free)
          /\ \A i \in 1 .. Len(nos) + Len(free) :
               (nos \o free)[i] = IF i <= Len(nos) THEN nos[i] ELSE free[i - Len(nos)]
      <4>1. free \in Seq(Nos)
        BY EntriesAre
      <4>2. QED
        BY ONLY <2>1, <4>1, ConcatProperties
    <3>2. QED
      BY <2>1, <3>1, EntriesAre
  <2>3. Len(nos \o free) = NR_BP /\ DOMAIN (nos \o free) = 1 .. Len(list) + Len(free)
    BY <2>2 DEF PoolInv
  <2>4. \A i \in DOMAIN (nos \o free) : (nos \o free)[i] \in Nos
    BY <2>2, <2>3, ElementOfSeq
  <2>5. ASSUME NEW x \in Nos
        PROVE  \E i \in DOMAIN (nos \o free) : (nos \o free)[i] = x
    <3>1. CASE \E i \in 1 .. Len(list) : list[i].NO = x
      <4>1. PICK i \in 1 .. Len(list) : list[i].NO = x
        BY <3>1
      <4>2. i \in 1 .. Len(list) + Len(free) /\ (nos \o free)[i] = x
        BY <2>2, <4>1, EntriesAre
      <4>3. QED
        BY <2>3, <4>2
    <3>2. CASE \E i \in 1 .. Len(free) : free[i] = x
      <4>1. PICK i \in 1 .. Len(free) : free[i] = x
        BY <3>2
      <4>2. /\ i + Len(list) \in 1 .. Len(list) + Len(free) /\ ~(i + Len(list) <= Len(list))
            /\ (i + Len(list)) - Len(list) = i
        BY <4>1, EntriesAre
      <4>3. (nos \o free)[i + Len(list)] = x
        BY <2>2, <4>1, <4>2
      <4>4. QED
        BY <2>3, <4>2, <4>3
    <3>3. QED
      BY <3>1, <3>2 DEF PoolInv
  <2>6. Range(nos \o free) = Nos
    BY <2>4, <2>5 DEF Range
  <2>7. ASSUME NEW a \in Addrs, mem[a] = INT3_CODE
        PROVE  \E e \in Breaks : e.addr = a /\ e.ori_byte = a
    <3>1. PICK j \in BreakAt : list[j].addr = a
      BY <2>7, Constants DEF CodeInv
    <3>2. list[j] \in Breaks /\ list[j].ori_byte = a
      BY <3>1, EntriesAre DEF Breaks, BreakAt, Range, CodeInv
    <3>3. QED
      BY <3>1, <3>2
  <2>8. QED
    BY <2>3, <2>6, <2>7 DEF PoolAndCodeAreKept, nos, Nos
<1>2. QED
  BY <1>1, Invariance, PTL

(* Every INT3_CODE that the guest meets is that of a breakpoint that       *)
(* find_breakpoint finds.                                                  *)
THEOREM BreaksAreFound == ASSUME Careful PROVE Spec => []EveryBreakIsFound
<1>1. IInv => EveryBreakIsFound
  BY DEF IInv, StopInv, EveryBreakIsFound
<1>2. QED
  BY <1>1, Invariance, PTL

(* What an instruction does to a watched value is reported before an       *)
(* interrupt is taken or another instruction executed; a change that is    *)
(* still to be reported in front of an instruction was made by raise_intr, *)
(* behind scan_watchpoint, and the instruction is the handler's first.     *)
THEOREM ChangesAreSeen == ASSUME Careful PROVE Spec => []NoChangeIsMissed
<1>1. IInv => NoChangeIsMissed
  <2> SUFFICES ASSUME IInv, NEW e \in Range(list), e.type = "watch", e.old_val # value
               PROVE  pc # "loop" /\ (pc = "inst" => eip = Handler)
    BY DEF NoChangeIsMissed
  <2>1. PICK j \in 1 .. Len(list) : list[j] = e
    BY EntriesAre DEF Range, IInv
  <2>2. QED
    BY <2>1 DEF IInv, WatchInv, WatchAt
<1>2. QED
  BY <1>1, Invariance, PTL
-----------------------------------------------------------------------------
(* The promise of Debugger, in the words of its variables.                 *)
Bps == {e.addr : e \in Breaks}
Told == (nemu_state = "BREAK" \/ rerun) /\ ~hit /\ At \in Bps
Mode == IF closed # "no" THEN "closed" ELSE IF nemu_state = "STOP" THEN "stop"
        ELSE IF Ended THEN "ui" ELSE "run"

(* The actions of Debugger, by what they do to its four variables.          *)
LEMMA IdealIs ==
  /\ (Mode = "ui" /\ Mode' = "run" /\ UNCHANGED <<At, Bps, Told>>) => Ideal!Next
  /\ (Mode = "run" /\ Mode' = "ui" /\ UNCHANGED <<At, Bps, Told>>) => Ideal!Next
  /\ (/\ Mode = "run" /\ At \in Bps /\ ~Told /\ Told' /\ Mode' = "ui"
      /\ UNCHANGED <<At, Bps>>) => Ideal!Next
  /\ (/\ Mode = "run" /\ (At \in Bps => Told) /\ ~Told'
      /\ IF At = Exit THEN Mode' = "stop" /\ At' = At + 1
                      ELSE Mode' = Mode /\ At' \in Addrs
      /\ UNCHANGED Bps) => Ideal!Next
  /\ (At' = Handler /\ ~Told' /\ UNCHANGED <<Bps, Mode>>) => Ideal!Next
  /\ Mode' = "closed" => Ideal!Next
  /\ (/\ Mode = "ui" /\ At \in Bps /\ Told /\ Bps' = Bps \ {At} /\ ~Told'
      /\ UNCHANGED <<At, Mode>>) => Ideal!Next
  /\ \A a \in Addrs :
       (Mode = "ui" /\ Bps' = Bps \cup {a} /\ UNCHANGED <<At, Told, Mode>>) => Ideal!Next
  /\ UNCHANGED <<At, Bps, Told, Mode>> => UNCHANGED Ideal!vars
<1> USE DEF Mode, Bps, Told
<1>1. (Mode = "ui" /\ Mode' = "run" /\ UNCHANGED <<At, Bps, Told>>) => Ideal!Continue
  BY DEF Ideal!Continue
<1>2. (Mode = "run" /\ Mode' = "ui" /\ UNCHANGED <<At, Bps, Told>>) => Ideal!Pause
  BY DEF Ideal!Pause
<1>3. (/\ Mode = "run" /\ At \in Bps /\ ~Told /\ Told' /\ Mode' = "ui"
       /\ UNCHANGED <<At, Bps>>) => Ideal!Report
  BY DEF Ideal!Report
<1>4. (/\ Mode = "run" /\ (At \in Bps => Told) /\ ~Told'
       /\ IF At = Exit THEN Mode' = "stop" /\ At' = At + 1
                       ELSE Mode' = Mode /\ At' \in Addrs
       /\ UNCHANGED Bps) => Ideal!Execute
  BY DEF Ideal!Execute
<1>5. (At' = Handler /\ ~Told' /\ UNCHANGED <<Bps, Mode>>) => Ideal!Interrupted
  BY DEF Ideal!Interrupted
<1>6. Mode' = "closed" => Ideal!Close
  BY DEF Ideal!Close
<1>7. (/\ Mode = "ui" /\ At \in Bps /\ Told /\ Bps' = Bps \ {At} /\ ~Told'
       /\ UNCHANGED <<At, Mode>>) => Ideal!Unset
  BY DEF Ideal!Unset
<1>8. \A a \in Addrs :
        (Mode = "ui" /\ Bps' = Bps \cup {a} /\ UNCHANGED <<At, Told, Mode>>) => Ideal!Set(a)
  BY DEF Ideal!Set
<1>9. UNCHANGED <<At, Bps, Told, Mode>> => UNCHANGED Ideal!vars
  BY DEF Ideal!vars
<1> HIDE DEF Mode, Bps, Told
<1>10. QED
  BY <1>1, <1>2, <1>3, <1>4, <1>5, <1>6, <1>7, <1>8, <1>9 DEF Ideal!Next

(* The abstract set of breakpoints, read off the list.                      *)
LEMMA BpsAre == ASSUME PoolInv PROVE Bps = {list[j].addr : j \in BreakAt}
BY BreaksAre DEF Bps

(* What the interface does between two runs is what Debugger allows there. *)
LEMMA CommandsMap ==
  ASSUME Careful, IInv, IInv', closed = "no", closed' = "no",
         \/ \E a \in Addrs : SetBreakpoint(a)
         \/ SetWatchpoint
         \/ \E j \in 1 .. NR_BP : Delete(j)
         \/ DeleteAll
  PROVE  Ideal!Next \/ UNCHANGED Ideal!vars
<1> USE DEF IInv
<1>1. /\ pc = "ui" /\ pc' = "ui" /\ nemu_state # "STOP" /\ ~rerun /\ ~hit
      /\ UNCHANGED <<eip, hit, nemu_state, n, rerun, closed>>
  <2>1. pc = "ui" /\ Prompt /\ UNCHANGED <<eip, hit, nemu_state, n, rerun, closed>>
    BY DEF SetBreakpoint, SetWatchpoint, Delete, DeleteAll, Command, guest, local
  <2>2. nemu_state # "STOP" /\ ~rerun /\ ~hit
    BY <2>1 DEF OpenInv, StopInv, TypeInv
  <2>3. QED
    BY <2>1, <2>2 DEF Prompt
<1>2. Mode = "ui" /\ Mode' = "ui" /\ UNCHANGED At
  BY <1>1 DEF Mode, Ended, At
<1>3. /\ Told = (nemu_state = "BREAK" /\ At \in Bps)
      /\ Told' = (nemu_state = "BREAK" /\ At \in Bps')
  BY <1>1, <1>2 DEF Told
<1>4. Bps = {list[j].addr : j \in BreakAt} /\ Bps' = {list'[j].addr : j \in BreakAt'}
  <2>1. DOMAIN list' = 1 .. Len(list')
    BY DEF PoolInv
  <2>2. Breaks' = {list'[j] : j \in BreakAt'}
    BY <2>1 DEF Breaks, BreakAt, Range
  <2>3. Bps' = {list'[j].addr : j \in BreakAt'}
    BY <2>2 DEF Bps
  <2>4. QED
    BY <2>3, BpsAre
<1>5. ASSUME nemu_state = "BREAK", Bps' = {}, \A b \in Bps : b = eip
      PROVE  Ideal!Next \/ UNCHANGED Ideal!vars
  <2>1. At = eip
    BY <1>1 DEF At
  <2>2. CASE Bps = {}
    BY <1>2, <1>3, <1>5, <2>2, IdealIs
  <2>3. CASE Bps # {}
    <3>1. Bps = {At} /\ At \in Bps /\ Told /\ ~Told'
      BY <1>3, <1>5, <2>1, <2>3
    <3>2. Bps' = Bps \ {At}
      BY <1>5, <3>1
    <3>3. QED
      BY <1>2, <3>1, <3>2, IdealIs
  <2>4. QED
    BY <2>2, <2>3
<1>6. ASSUME UNCHANGED Bps PROVE Ideal!Next \/ UNCHANGED Ideal!vars
  BY <1>2, <1>3, <1>6, IdealIs
<1>7. CASE \E a \in Addrs : SetBreakpoint(a)
  <2>1. PICK a \in Addrs : SetBreakpoint(a)
    BY <1>7
  <2>2. Breaks = {} /\ nemu_state # "BREAK"
    BY <2>1 DEF SetBreakpoint, MaySet
  <2>3. Bps = {} /\ UNCHANGED Told
    BY <1>3, <2>2 DEF Bps
  <2>4. Bps' = {a}
    <3> DEFINE e == [NO |-> 0, type |-> "break", addr |-> a, ori_byte |-> mem[a], old_val |-> 0]
    <3>1. NewBP(e) /\ e.addr = a /\ e.type = "break" /\ BreakAt = {}
      BY <2>1, <2>2, BreaksAre DEF SetBreakpoint
    <3>2. e \in Entry
      <4>1. mem[a] = a
        BY <3>1 DEF CodeInv
      <4>2. QED
        BY <4>1, Constants DEF Entry, Values
    <3>3. [e EXCEPT !.NO = Head(free)].type = "break" /\ [e EXCEPT !.NO = Head(free)].addr = a
      BY <3>1
    <3> HIDE DEF e
    <3>4. /\ Len(list') = Len(list) + 1 /\ Len(list) \in Nat
          /\ list'[1].type = "break" /\ list'[1].addr = a
      BY <3>1, <3>2, <3>3, NewBPFacts, EntriesAre
    <3>5. 1 \in BreakAt' /\ list'[1].addr = a
      BY <3>4 DEF BreakAt
    <3>6. \A j \in BreakAt' : j = 1
      BY <3>5 DEF AloneInv, BreakAt
    <3>7. QED
      BY <1>4, <3>5, <3>6
  <2>5. QED
    <3>1. Bps' = Bps \cup {a}
      BY <2>3, <2>4
    <3>2. QED
      BY <1>2, <2>3, <3>1, IdealIs
<1>8. CASE SetWatchpoint
  <2> DEFINE e == [NO |-> 0, type |-> "watch", addr |-> 0, ori_byte |-> 0, old_val |-> value]
  <2>1. NewBP(e) /\ e.type = "watch"
    BY <1>8 DEF SetWatchpoint
  <2>2. e \in Entry
    BY Constants DEF Entry, TypeInv
  <2>3. [e EXCEPT !.NO = Head(free)].type = "watch"
    BY <2>1
  <2> HIDE DEF e
  <2>4. /\ Len(list') = Len(list) + 1 /\ list'[1].type = "watch" /\ Len(list) \in Nat
        /\ \A j \in 1 .. Len(list) : list'[j + 1] = list[j]
    BY <2>1, <2>2, <2>3, NewBPFacts, EntriesAre
  <2>5. \A j \in BreakAt : j + 1 \in BreakAt' /\ list'[j + 1] = list[j]
    BY <2>4 DEF BreakAt
  <2>6. \A j \in BreakAt' : j - 1 \in BreakAt /\ list[j - 1] = list'[j]
    <3> SUFFICES ASSUME NEW j \in BreakAt' PROVE j - 1 \in BreakAt /\ list[j - 1] = list'[j]
      OBVIOUS
    <3>1. j \in 1 .. Len(list) + 1 /\ j # 1
      BY <2>4 DEF BreakAt
    <3>2. j - 1 \in 1 .. Len(list) /\ (j - 1) + 1 = j
      BY <2>4, <3>1
    <3>3. list[j - 1] = list'[j]
      BY <2>4, <3>2
    <3>4. QED
      BY <3>2, <3>3 DEF BreakAt
  <2>7. UNCHANGED Bps
    BY <1>4, <2>5, <2>6
  <2>8. QED
    BY <1>6, <2>7
<1>9. CASE \E j \in 1 .. NR_BP : Delete(j)
  <2>1. PICK j \in 1 .. Len(list) : MayDelete(list[j]) /\ list' = RemoveAt(list, j)
    BY <1>9 DEF Delete
  <2>2. list \in Seq(Entry) /\ Len(list) \in Nat
    BY EntriesAre
  <2>3. /\ list' \in Seq(Entry) /\ Len(list') = Len(list) - 1
        /\ \A i \in 1 .. Len(list') : list'[i] = list[IF i < j THEN i ELSE i + 1]
    BY <2>1, <2>2, RemoveFacts
  <2>4. \A i \in BreakAt' : \E h \in BreakAt : h # j /\ list[h].addr = list'[i].addr
    <3> SUFFICES ASSUME NEW i \in BreakAt'
                 PROVE  \E h \in BreakAt : h # j /\ list[h].addr = list'[i].addr
      OBVIOUS
    <3> DEFINE h == IF i < j THEN i ELSE i + 1
    <3>1. i \in 1 .. Len(list') /\ list'[i].type = "break"
      BY DEF BreakAt
    <3>2. list'[i] = list[h] /\ h \in 1 .. Len(list) /\ h # j
      BY <2>2, <2>3, <3>1
    <3>3. QED
      BY <3>1, <3>2 DEF BreakAt
  <2>5. CASE list[j].type = "break"
    <3>1. nemu_state = "BREAK" /\ list[j].addr = eip
      BY <2>1, <2>5 DEF MayDelete
    <3>2. \A h \in BreakAt : h = j
      BY <2>5 DEF AloneInv, BreakAt
    <3>3. Bps' = {} /\ \A b \in Bps : b = eip
      BY <1>4, <2>4, <3>1, <3>2
    <3>4. QED
      BY <1>5, <3>1, <3>3
  <2>6. CASE list[j].type # "break"
    <3>1. \A h \in BreakAt : \E i \in BreakAt' : list[h].addr = list'[i].addr
      <4> SUFFICES ASSUME NEW h \in BreakAt
                   PROVE  \E i \in BreakAt' : list[h].addr = list'[i].addr
        OBVIOUS
      <4> DEFINE i == IF h < j THEN h ELSE h - 1
      <4>1. h \in 1 .. Len(list) /\ list[h].type = "break" /\ h # j
        BY <2>6 DEF BreakAt
      <4>2. i \in 1 .. Len(list') /\ (IF i < j THEN i ELSE i + 1) = h
        BY <2>2, <2>3, <4>1
      <4>3. list'[i] = list[h]
        BY <2>3, <4>2
      <4>4. i \in BreakAt'
        BY <4>1, <4>2, <4>3 DEF BreakAt
      <4>5. QED
        BY <4>3, <4>4
    <3>2. UNCHANGED Bps
      BY <1>4, <2>4, <3>1
    <3>3. QED
      BY <1>6, <3>2
  <2>7. QED
    BY <2>5, <2>6
<1>10. CASE DeleteAll
  <2>1. list' = <<>> /\ \A e \in Range(list) : MayDelete(e)
    BY <1>10 DEF DeleteAll
  <2>2. Bps' = {}
    BY <2>1 DEF Bps, Breaks, Range
  <2>3. CASE Breaks = {}
    BY <1>6, <2>2, <2>3 DEF Bps
  <2>4. CASE Breaks # {}
    <3>1. \A e \in Breaks : nemu_state = "BREAK" /\ e.addr = eip
      BY <2>1 DEF Breaks, MayDelete
    <3>2. nemu_state = "BREAK" /\ \A b \in Bps : b = eip
      BY <2>4, <3>1 DEF Bps
    <3>3. QED
      BY <1>5, <2>2, <3>2
  <2>5. QED
    BY <2>3, <2>4
<1>11. QED
  BY <1>7, <1>8, <1>9, <1>10

(* An instruction is executed in front of which the program was stopped,   *)
(* or one without a breakpoint; INT3_CODE is no step of the program.       *)
LEMMA InstMaps ==
  ASSUME Careful, IInv, IInv', closed = "no", closed' = "no", Inst
  PROVE  Ideal!Next \/ UNCHANGED Ideal!vars
<1> USE DEF IInv
<1>1. /\ pc = "inst" /\ pc' = "check" /\ eip \in Addrs /\ ExecInst /\ ~rerun'
      /\ nemu_state = "RUN" /\ ~hit
  BY DEF Inst, OpenInv
<1>2. At = eip /\ Mode = "run" /\ Told = (rerun /\ eip \in Bps)
  BY <1>1 DEF At, Mode, Ended, Told
<1>3. UNCHANGED Bps
  <2>1. CASE ~rerun
    BY <2>1 DEF Inst, Bps, Breaks
  <2>2. CASE rerun
    <3>1. list' = Resaved(mem) /\ list' \in Seq(Entry) /\ list \in Seq(Entry)
      BY <2>2 DEF Inst, PoolInv
    <3>2. Len(list') = Len(list) /\ DOMAIN list = 1 .. Len(list) /\ DOMAIN list' = 1 .. Len(list)
      BY <3>1 DEF Resaved
    <3>3. \A j \in 1 .. Len(list) : list'[j].type = list[j].type /\ list'[j].addr = list[j].addr
      <4>1. SUFFICES ASSUME NEW j \in 1 .. Len(list)
                     PROVE  list'[j].type = list[j].type /\ list'[j].addr = list[j].addr
        OBVIOUS
      <4>2. list[j] \in Entry
        BY EntriesAre
      <4>3. PICK x : list'[j] = list[j] \/ list'[j] = [list[j] EXCEPT !.ori_byte = x]
        BY <3>1 DEF Resaved
      <4>4. QED
        BY <4>2, <4>3 DEF Entry
    <3>4. /\ Breaks = {list[j] : j \in BreakAt} /\ Breaks' = {list'[j] : j \in BreakAt}
          /\ \A j \in BreakAt : list'[j].addr = list[j].addr
      BY <3>2, <3>3 DEF Breaks, BreakAt, Range
    <3>5. /\ Bps = {list[j].addr : j \in BreakAt} /\ Bps' = {list'[j].addr : j \in BreakAt}
      BY <3>4 DEF Bps
    <3>6. QED
      BY <3>4, <3>5
  <2>3. QED
    BY <2>1, <2>2
<1>4. CASE mem[eip] = INT3_CODE
  <2>1. eip' = eip + 1 /\ nemu_state' = "BREAK" /\ hit'
    BY <1>1, <1>4 DEF ExecInst
  <2>2. ~rerun
    BY <1>1, <1>4, Constants DEF StopInv, Whole
  <2>3. At' = At
    BY <1>1, <1>2, <2>1, Constants DEF At, Addrs
  <2>4. Mode' = Mode /\ ~Told /\ ~Told'
    BY <1>1, <1>2, <2>1, <2>2 DEF Mode, Ended, Told
  <2>5. UNCHANGED Told
    BY <2>4 DEF Told
  <2>6. QED
    BY <1>3, <2>3, <2>4, <2>5, IdealIs
<1>5. CASE mem[eip] # INT3_CODE
  <2>1. mem[eip] = eip
    BY <1>1, <1>5 DEF CodeInv
  <2>2. eip \in Bps => rerun
    <3> SUFFICES ASSUME eip \in Bps, ~rerun PROVE FALSE
      OBVIOUS
    <3>1. PICK j \in BreakAt : list[j].addr = eip
      BY BpsAre
    <3>2. QED
      BY <1>1, <1>5, <3>1 DEF OpenInv
  <2>3. nemu_state' # "BREAK" /\ ~hit' /\ At' = eip'
    BY <1>1, <1>5 DEF ExecInst, At
  <2>4. At \in Bps => Told
    BY <1>2, <2>2
  <2>5. ~Told'
    BY <1>1, <2>3 DEF Told
  <2>6. IF At = Exit THEN Mode' = "stop" /\ At' = At + 1
                     ELSE Mode' = Mode /\ At' \in Addrs
    <3>1. CASE eip = Exit
      <4>1. eip' = eip + 1 /\ nemu_state' = "STOP"
        BY <1>1, <1>5, <2>1, <3>1 DEF ExecInst
      <4>2. QED
        BY <1>2, <2>3, <3>1, <4>1 DEF Mode
    <3>2. CASE eip # Exit
      <4>1. eip' \in Addrs /\ nemu_state' = "RUN"
        BY <1>1, <1>5, <2>1, <3>2 DEF ExecInst
      <4>2. QED
        BY <1>1, <1>2, <2>3, <3>2, <4>1 DEF Mode, Ended
    <3>3. QED
      BY <3>1, <3>2
  <2>7. QED
    BY <1>2, <1>3, <2>4, <2>5, <2>6, IdealIs
<1>6. QED
  BY <1>4, <1>5

(* find_breakpoint reports; a watchpoint that changed, and the last step   *)
(* of si, pause.                                                           *)
LEMMA CheckMaps ==
  ASSUME Careful, IInv, IInv', closed = "no", closed' = "no", Check
  PROVE  Ideal!Next \/ UNCHANGED Ideal!vars
<1> USE DEF IInv
<1> DEFINE found == IF nemu_state = "BREAK" THEN FirstAt(eip - 1) ELSE {}
           changed == FirstChanged
<1>1. /\ pc = "check"
      /\ IF found # {} THEN eip' = eip - 1 /\ hit' = FALSE ELSE UNCHANGED <<eip, hit>>
      /\ list' = [j \in 1 .. Len(list) |->
                    IF j \in changed THEN [list[j] EXCEPT !.old_val = value] ELSE list[j]]
      /\ IF changed # {} THEN nemu_state' = "READY" /\ pc' = "leave"
                         ELSE pc' = "loop" /\ UNCHANGED nemu_state
      /\ UNCHANGED <<n, rerun>>
  BY DEF Check, local
<1>2. ~rerun /\ ~rerun' /\ nemu_state \in {"RUN", "BREAK", "STOP"} /\ (hit <=> nemu_state = "BREAK")
  BY <1>1 DEF StopInv, OpenInv, TypeInv, States
<1>3. nemu_state # "RUN" => changed = {}
  <2>1. \A j \in changed : j \in WatchAt /\ list[j].old_val # value
    BY DEF FirstChanged, WatchAt
  <2>2. QED
    BY <1>1, <1>2, <2>1 DEF WatchInv
<1>4. Bps' = Bps
  <2>1. list' \in Seq(Entry) /\ list \in Seq(Entry)
    BY DEF PoolInv
  <2>2. Len(list') = Len(list) /\ DOMAIN list = 1 .. Len(list) /\ DOMAIN list' = 1 .. Len(list)
    BY <1>1, <2>1
  <2>3. \A j \in 1 .. Len(list) : list'[j].type = list[j].type /\ list'[j].addr = list[j].addr
    <3>1. \A e \in Entry : /\ [e EXCEPT !.old_val = value].type = e.type
                           /\ [e EXCEPT !.old_val = value].addr = e.addr
      BY DEF Entry
    <3>2. \A j \in 1 .. Len(list) : /\ list[j] \in Entry
                                    /\ \/ list'[j] = list[j]
                                       \/ list'[j] = [list[j] EXCEPT !.old_val = value]
      BY <1>1, EntriesAre
    <3>3. QED
      BY <3>1, <3>2
  <2>4. /\ Breaks = {list[j] : j \in BreakAt} /\ Breaks' = {list'[j] : j \in BreakAt}
        /\ \A j \in BreakAt : list'[j].addr = list[j].addr
    BY <2>2, <2>3 DEF Breaks, BreakAt, Range
  <2>5. /\ Bps = {list[j].addr : j \in BreakAt} /\ Bps' = {list'[j].addr : j \in BreakAt}
    BY <2>4 DEF Bps
  <2>6. QED
    BY <2>4, <2>5
<1> HIDE DEF changed
<1>5. CASE nemu_state = "BREAK"
  <2>1. PICK j \in BreakAt : list[j].addr = eip - 1
    BY <1>1, <1>5 DEF StopInv
  <2>2. j \in FirstAt(eip - 1)
    <3>1. \A i \in 1 .. j - 1 : i \in 1 .. Len(list) /\ i # j
      BY EntriesAre DEF BreakAt
    <3>2. QED
      BY <2>1, <3>1 DEF FirstAt, BreakAt, AloneInv
  <2>3. eip' = eip - 1 /\ hit' = FALSE /\ pc' = "loop" /\ nemu_state' = "BREAK"
    BY <1>1, <1>3, <1>5, <2>2
  <2>4. At = eip - 1 /\ At' = At /\ At \in Bps
    BY <1>2, <1>5, <2>1, <2>3, BpsAre DEF At
  <2>5. ~Told /\ Told'
    BY <1>2, <1>4, <1>5, <2>3, <2>4 DEF Told
  <2>6. Mode = "run" /\ Mode' = "ui"
    BY <1>1, <1>5, <2>3 DEF Mode, Ended, GoesOn
  <2>7. QED
    BY <1>4, <2>4, <2>5, <2>6, IdealIs
<1>6. CASE nemu_state # "BREAK"
  <2>1. UNCHANGED <<eip, hit>> /\ nemu_state' # "BREAK"
    BY <1>1, <1>6
  <2>2. UNCHANGED <<At, Told>>
    BY <1>2, <1>6, <2>1 DEF At, Told
  <2>3. (nemu_state = "STOP" => Mode = "stop") /\ (nemu_state # "STOP" => Mode = "run")
    BY <1>1 DEF Mode, Ended
  <2>4. (nemu_state = "STOP" => Mode' = "stop") /\ (nemu_state # "STOP" => Mode' \in {"run", "ui"})
    BY <1>1, <1>3 DEF Mode, Ended
  <2>5. QED
    BY <1>4, <2>2, <2>3, <2>4, IdealIs
<1>7. QED
  BY <1>5, <1>6

(* The rest of exec(): an interrupt takes the program away, and everything *)
(* else is no step of it.                                                  *)
LEMMA FlowMaps ==
  ASSUME Careful, IInv, IInv', closed = "no", closed' = "no",
         Continue \/ StepOn \/ Begin \/ Test \/ Loop \/ Leave \/ Ready \/ After
  PROVE  Ideal!Next \/ UNCHANGED Ideal!vars
<1> USE DEF IInv
<1>1. UNCHANGED <<list, Bps, mem>>
  <2>1. UNCHANGED <<list, mem>>
    BY DEF Continue, StepOn, Enter, Begin, Test, Loop, Leave, Ready, After, guest, local
  <2>2. QED
    BY <2>1 DEF Bps, Breaks
<1>2. CASE Continue \/ StepOn
  <2>1. /\ pc = "ui" /\ pc' = "enter" /\ rerun' = (nemu_state = "BREAK")
        /\ UNCHANGED <<eip, hit, nemu_state>>
    BY <1>2 DEF Continue, StepOn, Enter, Command, guest
  <2>2. ~rerun /\ nemu_state # "STOP" /\ ~hit
    BY <2>1 DEF StopInv, OpenInv
  <2>3. UNCHANGED <<At, Told>>
    BY <1>1, <2>1, <2>2 DEF At, Told
  <2>4. Mode = "ui" /\ Mode' = "run"
    BY <2>1, <2>2 DEF Mode, Ended
  <2>5. QED
    BY <1>1, <2>3, <2>4, IdealIs
<1>3. CASE Begin
  <2>1. /\ pc = "enter" /\ pc' = "test" /\ nemu_state' = "RUN"
        /\ UNCHANGED <<eip, hit, n, rerun>>
    BY <1>3 DEF Begin, guest, local
  <2>2. rerun = (nemu_state = "BREAK") /\ nemu_state # "STOP" /\ n # 0
    BY <2>1 DEF OpenInv, CountInv
  <2>3. UNCHANGED <<At, Told>>
    BY <1>1, <2>1, <2>2 DEF At, Told
  <2>4. Mode = "run" /\ Mode' = "run"
    BY <2>1, <2>2 DEF Mode, Ended, GoesOn
  <2>5. QED
    BY <1>1, <2>3, <2>4, IdealIs
<1>4. CASE Test
  <2>1. /\ pc = "test" /\ pc' = (IF GoesOn THEN "inst" ELSE "leave")
        /\ UNCHANGED <<eip, hit, nemu_state, n, rerun>>
    BY <1>4 DEF Test, guest, local
  <2>2. UNCHANGED <<At, Told>>
    BY <1>1, <2>1 DEF At, Told
  <2>3. UNCHANGED Mode
    BY <2>1 DEF Mode, Ended, GoesOn
  <2>4. QED
    BY <1>1, <2>2, <2>3, IdealIs
<1>5. CASE Loop
  <2>1. /\ pc = "loop" /\ pc' = "test" /\ UNCHANGED <<nemu_state, n, rerun>>
        /\ UNCHANGED <<eip, hit>> \/ (eip' = Handler /\ hit' = FALSE)
    BY <1>5 DEF Loop, Intr, local, guest
  <2>2. UNCHANGED Mode
    BY <2>1 DEF Mode, Ended, GoesOn
  <2>3. ~rerun /\ ~hit
    BY <2>1 DEF StopInv, OpenInv
  <2>4. CASE UNCHANGED <<eip, hit>>
    <3>1. UNCHANGED <<At, Told>>
      BY <1>1, <2>1, <2>4 DEF At, Told
    <3>2. QED
      BY <1>1, <2>2, <3>1, IdealIs
  <2>5. CASE eip' = Handler /\ hit' = FALSE
    <3>1. At = eip /\ At' = Handler
      BY <2>3, <2>5 DEF At
    <3>2. CASE nemu_state = "BREAK" /\ Handler \in Bps
      <4>1. PICK j \in BreakAt : list[j].addr = eip
        BY <2>1, <3>2 DEF StopInv
      <4>2. PICK i \in BreakAt : list[i].addr = Handler
        BY <3>2, BpsAre
      <4>3. eip = Handler
        BY <4>1, <4>2 DEF AloneInv, BreakAt
      <4>4. UNCHANGED <<At, Told>>
        BY <1>1, <2>1, <2>3, <2>5, <3>1, <4>3 DEF Told
      <4>5. QED
        BY <1>1, <2>2, <4>4, IdealIs
    <3>3. CASE ~(nemu_state = "BREAK" /\ Handler \in Bps)
      <4>1. ~Told'
        BY <1>1, <2>1, <2>3, <3>1, <3>3 DEF Told
      <4>2. QED
        BY <1>1, <2>2, <3>1, <4>1, IdealIs
    <3>4. QED
      BY <3>2, <3>3
  <2>6. QED
    BY <2>1, <2>4, <2>5
<1>6. CASE Leave
  <2>1. /\ pc = "leave" /\ pc' \in {"ready", "after"} /\ UNCHANGED <<eip, hit, nemu_state, rerun>>
    BY <1>6 DEF Leave, guest, local
  <2>2. UNCHANGED <<At, Told, Mode>>
    BY <1>1, <2>1 DEF At, Told, Mode, Ended
  <2>3. QED
    BY <1>1, <2>2, IdealIs
<1>7. CASE Ready
  <2>1. /\ pc = "ready" /\ pc' = "after" /\ nemu_state' = "READY" /\ UNCHANGED <<eip, hit, rerun, n>>
    BY <1>7 DEF Ready, guest, local
  <2>2. Bps = {} /\ nemu_state # "STOP"
    <3>1. BreakAt = {}
      BY <2>1, Constants DEF CountInv
    <3>2. QED
      BY <2>1, <3>1, BpsAre DEF OpenInv
  <2>3. UNCHANGED <<At, Told, Mode>>
    BY <1>1, <2>1, <2>2 DEF At, Told, Mode, Ended
  <2>4. QED
    BY <1>1, <2>3, IdealIs
<1>8. CASE After
  <2>1. /\ pc = "after" /\ pc' \in {"ui", "gone"} /\ UNCHANGED <<eip, hit, nemu_state, rerun>>
    BY <1>8 DEF After, Prompt, guest
  <2>2. UNCHANGED <<At, Told, Mode>>
    BY <1>1, <2>1 DEF At, Told, Mode, Ended
  <2>3. QED
    BY <1>1, <2>2, IdealIs
<1>9. QED
  BY <1>2, <1>3, <1>4, <1>5, <1>6, <1>7, <1>8

(* Every step is one of Debugger's, or leaves its variables alone.          *)
LEMMA NextMaps ==
  ASSUME Careful, IInv, IInv', [Next]_vars
  PROVE  Ideal!Next \/ UNCHANGED Ideal!vars
<1>1. CASE closed' # "no"
  BY <1>1, IdealIs DEF Mode
<1>2. CASE closed' = "no" /\ UNCHANGED vars
  <2>1. UNCHANGED <<At, Bps, Told, Mode>>
    BY <1>2 DEF vars, At, Bps, Breaks, Told, Mode, Ended, GoesOn
  <2>2. QED
    BY <2>1, IdealIs
<1>3. CASE closed' = "no" /\ Next
  <2> DEFINE Sets == \E a \in Addrs : SetBreakpoint(a)
             Deletes == \E j \in 1 .. NR_BP : Delete(j)
  <2>1. \/ Sets \/ SetWatchpoint \/ Deletes \/ DeleteAll \/ Continue \/ StepOn
        \/ Exec \/ Close
    BY <1>3 DEF Next, Continue, StepOn
  <2>2. ~Close
    BY <1>3 DEF Close
  <2>3. closed = "no"
    BY <1>3, <2>1, <2>2 DEF SetBreakpoint, SetWatchpoint, Delete, DeleteAll, Continue, StepOn,
       Enter, Exec, Begin, Test, Inst, Check, Loop, Leave, Ready, After
  <2>4. CASE Sets \/ SetWatchpoint \/ Deletes \/ DeleteAll
    BY <1>3, <2>3, <2>4, CommandsMap
  <2>5. CASE Inst
    BY <1>3, <2>3, <2>5, InstMaps
  <2>6. CASE Check
    BY <1>3, <2>3, <2>6, CheckMaps
  <2>7. CASE Continue \/ StepOn \/ Begin \/ Test \/ Loop \/ Leave \/ Ready \/ After
    BY <1>3, <2>3, <2>7, FlowMaps
  <2> HIDE DEF Sets, Deletes
  <2>8. QED
    BY <2>1, <2>2, <2>4, <2>5, <2>6, <2>7 DEF Exec
<1>4. QED
  BY <1>1, <1>2, <1>3

(* In the hands of a careful user the program is stopped in front of every *)
(* breakpoint, once each time it arrives there, and goes on from there,    *)
(* whatever is planted in its code for that.                               *)
THEOREM Refinement == ASSUME Careful PROVE Spec => ImplementsDebugger
<1>1. Init => Ideal!Init
  <2> SUFFICES ASSUME Init PROVE Ideal!Init
    OBVIOUS
  <2>1. list = <<>> /\ eip = 0 /\ ~hit /\ pc = "ui" /\ nemu_state = "READY" /\ closed = "no" /\ ~rerun
    BY DEF Init
  <2>2. Breaks = {}
    BY <2>1 DEF Breaks, Range
  <2>3. At = 0 /\ {e.addr : e \in Breaks} = {} /\ Ended
    BY <2>1, <2>2 DEF At, Ended
  <2>4. QED
    BY <2>1, <2>3 DEF Ideal!Init
<1>2. IInv /\ IInv' /\ [Next]_vars => [Ideal!Next]_(Ideal!vars)
  BY NextMaps
<1>3. QED
  BY <1>1, <1>2, Invariance, PTL DEF Spec, Ideal!Spec, ImplementsDebugger
=============================================================================
