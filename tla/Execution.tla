------------------------------ MODULE Execution ------------------------------
(***************************************************************************)
(* A guest on its stack, one instruction after another: calls, frames,     *)
(* saved registers and interrupts, each with the instruction that undoes   *)
(* it, in any nesting and with other instructions in between (cpu/instr,   *)
(* exec and raise_intr); and the loop of a repeated string instruction.    *)
(***************************************************************************)
EXTENDS IntInstructions, Stack

CONSTANTS Depth,    \* how deep the guest nests
          Budget,   \* how many instructions begin in a run, those that undo one left out
          Scratch,  \* registers that values are moved to and saved in
          Pushed,   \* values that are pushed or moved, and targets of calls
          Locals,   \* bytes of local variables
          Copies    \* where a repeated instruction reads and writes, and how often

ASSUME ExecutionAssumption ==
  /\ Depth \in Nat /\ Budget \in Nat
  /\ Scratch \subseteq Registers \ {REG_ESP, REG_EBP}
  /\ Pushed \subseteq 0 .. Word - 1 /\ Locals \subseteq Nat
  /\ \A c \in Copies :   \* strings of words, upwards and downwards, that do not overlap
       /\ c.count \in Nat /\ c.from \in 0 .. Word - 1 /\ c.to \in 0 .. Word - 1
       /\ 4 * c.count <= c.from /\ c.from + 4 * c.count <= Word
       /\ 4 * c.count <= c.to /\ c.to + 4 * c.count <= Word
       /\ c.from + 8 * c.count <= c.to \/ c.to + 8 * c.count <= c.from

VARIABLES machine,  \* registers, eip, eflags, cs and memory
          nest,     \* what is not undone yet: the instruction and the machine before it
          left,     \* what is left of the budget
          string    \* the repeated instruction under way

programVars == <<machine, nest, left, string>>

(* Every byte of memory tells its address.                                 *)
Machine ==
  [gpr |-> [Gpr EXCEPT ![REG_ESP] = 3 * (Word \div 4)], eip |-> 0, cs |-> 2,
   eflags |-> [CF |-> 1, ZF |-> 0, INTR |-> 1],
   mem |-> [a \in 0 .. Word - 1 |-> (a + a \div 2^Byte) % 2^Byte]]
Gates == {[interrupt |-> i, cs |-> 1, offset |-> Word \div 2] : i \in BOOLEAN}
NoString == [op |-> "none"]

(* Instructions that leave something on the stack.                         *)
Openings ==
  [item : {"save"}, n : Sizes, r : Scratch, v : Pushed]
  \cup [item : {"call"}, n : {2 * Byte, Host}, rel : Pushed]
  \cup [item : {"call_indirect"}, rel : Pushed]   \* with one argument, which ret drops
  \cup [item : {"frame"}, locals : Locals]
  \cup [item : {"all"}]
  \cup [item : {"int", "irq"}, gate : Gates]

PopSize(n) == IF n = Byte THEN Host ELSE n  \* what a byte was pushed as
LocalBytes(o) == IF o.item = "frame" THEN o.locals ELSE 0
Bytes(o) ==   \* of the stack
  CASE o.item = "save" -> PopSize(o.n) \div Byte
    [] o.item = "call" -> 4
    [] o.item = "call_indirect" -> 8
    [] o.item = "frame" -> 4 + o.locals
    [] o.item = "all" -> 32
    [] o.item \in {"int", "irq"} -> 12

Enter(o, m) ==
  CASE o.item = "save" -> After(push(m, o.n, o.v), 1)
    [] o.item = "call" -> call_near(m, o.n, o.rel)
    [] o.item = "call_indirect" -> call_near_indirect(After(push(m, Host, o.rel), 1), 2, o.rel)
    [] o.item = "frame" ->   \* push ebp, mov ebp, sub esp
         LET saved == After(push(m, Host, m.gpr[REG_EBP]), 1)
             framed == After([saved EXCEPT !.gpr[REG_EBP] = Esp(saved)], 2)
         IN After(MoveEsp(framed, -o.locals), 3)
    [] o.item = "all" -> After(pusha(m), 1)
    [] o.item = "int" -> raise_sw_intr(m, o.gate)
    [] o.item = "irq" -> raise_intr(m, o.gate)

Leave(o, m) ==
  CASE o.item = "save" -> After(pop(m, o.r, PopSize(o.n)), 1)
    [] o.item = "call" -> ret_near(m)
    [] o.item = "call_indirect" -> ret_near_imm16(m, 4)
    [] o.item = "frame" -> leave(m)
    [] o.item = "all" -> After(popa(m), 1)
    [] o.item \in {"int", "irq"} -> iret(m)
-----------------------------------------------------------------------------
ProgramInit == machine = Machine /\ nest = <<>> /\ left = Budget /\ string = NoString

(* The stack does not run empty, and exec() raises an interrupt only while *)
(* IF is set.                                                              *)
Open(o) ==
  /\ Len(nest) < Depth /\ left > 0 /\ string = NoString
  /\ Bytes(o) <= Esp(machine)
  /\ o.item = "irq" => machine.eflags.INTR = 1
  /\ machine' = Enter(o, machine)
  /\ nest' = Append(nest, [opening |-> o, before |-> machine])
  /\ left' = left - 1
  /\ UNCHANGED string

Innermost == nest[Len(nest)]

Close ==
  /\ nest # <<>>
  /\ machine' = Leave(Innermost.opening, machine)
  /\ nest' = SubSeq(nest, 1, Len(nest) - 1)
  /\ UNCHANGED <<left, string>>

(* Instructions in between: a value to a register or to a local variable,  *)
(* sti and cli.                                                            *)
Plain(m) ==
  /\ left > 0 /\ string = NoString
  /\ machine' = m
  /\ left' = left - 1
  /\ UNCHANGED <<nest, string>>

MoveValue == \E r \in Scratch, v \in Pushed : Plain(After([machine EXCEPT !.gpr[r] = v], 5))
StoreLocal ==
  /\ nest # <<>>
  /\ \E i \in 0 .. LocalBytes(Innermost.opening) - 1, v \in Pushed :
       Plain(After(Store(machine, Address(Esp(machine) + i), 1, v), 5))
SetIF == \E on \in 0 .. 1 : Plain(After([machine EXCEPT !.eflags.INTR = on], 1))

(* rep with movs, stos or cmps; a run with one does nothing else.          *)
StartString == \E op \in {"movs", "stos", "cmps"}, len \in {1, 2, 4}, down \in BOOLEAN, c \in Copies :
  /\ nest = <<>> /\ left = Budget /\ left > 0 /\ string = NoString
  /\ machine' = [machine EXCEPT !.gpr =
                    [@ EXCEPT ![REG_ECX] = c.count, ![REG_ESI] = c.from, ![REG_EDI] = c.to]]
  /\ string' = [op |-> op, len |-> len, step |-> IF down THEN -len ELSE len, copy |-> c,
                before |-> machine', over |-> FALSE]
  /\ left' = 0
  /\ UNCHANGED nest

Finished == string # NoString /\ (string.over \/ machine.gpr[REG_ECX] = 0)

RepeatString ==
  /\ string # NoString /\ ~Finished
  /\ machine' = rep_repe(string.op, machine, string.step, string.len)
  /\ string' = [string EXCEPT !.over = Stops(string.op, machine')]
  /\ UNCHANGED <<nest, left>>

EndString ==
  /\ Finished
  /\ machine' = After(machine, 2)
  /\ string' = NoString
  /\ UNCHANGED <<nest, left>>

ProgramStep ==
  \/ \E o \in Openings : Open(o)
  \/ Close \/ MoveValue \/ StoreLocal \/ SetIF
  \/ StartString \/ RepeatString \/ EndString

ProgramSpec == ProgramInit /\ [][ProgramStep]_programVars
-----------------------------------------------------------------------------
PushedValue(o) == IF o.n = Byte THEN sign_ext(o.v, o.n) ELSE Low(o.v, o.n)

Unwound(o, b, m, out) ==
  /\ Esp(out) = Esp(b) /\ out.gpr[REG_EBP] = b.gpr[REG_EBP] /\ out.cs = b.cs
  /\ \A a \in Esp(b) .. Word - 1 : out.mem[a] = b.mem[a]
  /\ out.eip = CASE o.item = "call" -> Address(b.eip + 1 + o.n \div Byte)
                 [] o.item = "call_indirect" -> Address(b.eip + 3)
                 [] o.item = "int" -> Address(b.eip + 2)
                 [] o.item = "irq" -> b.eip
                 [] OTHER -> Address(m.eip + 1)
  /\ out.eflags = IF o.item \in {"int", "irq"} THEN b.eflags ELSE m.eflags
  /\ CASE o.item = "all" -> out.gpr = b.gpr
       [] o.item = "save" ->
            \A r \in Scratch : out.gpr[r] = operand_write(m.gpr, o.r, PopSize(o.n), PushedValue(o))[r]
       [] OTHER -> \A r \in Scratch : out.gpr[r] = m.gpr[r]

(* However calls, frames, saved registers and interrupts nest and whatever *)
(* runs in between, each is undone as if nothing had been on the stack     *)
(* since: esp, ebp, cs and the memory above the stack pointer are those of *)
(* before, a call returns behind itself and an interrupt to where it       *)
(* arrived, with the flags of then, and values come back in reverse order  *)
(* and in the widths they were pushed with.                                *)
PiecesUnwind ==
  [][nest # <<>> /\ Len(nest') < Len(nest) =>
       Unwound(Innermost.opening, Innermost.before, machine, machine')]_programVars

(* A repeated movs copies, and a repeated stos fills, exactly the elements *)
(* it is told to, in either direction; cmps stops behind the first pair    *)
(* that is equal.                                                          *)
StringsAreMoved ==
  Finished =>
    LET m == string.before  len == string.len  step == string.step
        from == string.copy.from  to == string.copy.to  k == string.copy.count
        did == k - machine.gpr[REG_ECX]
        Element(a, i) == (a + step * i) .. (a + step * i + len - 1)
        Equal(i) == Load(m, from + step * i, len) = Load(m, to + step * i, len)
        written == IF string.op = "cmps" THEN {} ELSE UNION {Element(to, i) : i \in 0 .. k - 1}
    IN /\ machine.gpr[REG_EDI] = Address(to + step * did)
       /\ machine.gpr[REG_ESI] = IF string.op = "stos" THEN from ELSE Address(from + step * did)
       /\ \A a \in 0 .. Word - 1 : a \notin written => machine.mem[a] = m.mem[a]
       /\ string.op = "movs" => \A a \in written : machine.mem[a] = m.mem[(a - to) + from]
       /\ string.op = "stos" =>
            \A i \in 0 .. k - 1 : Load(machine, to + step * i, len) = Low(m.gpr[0], Byte * len)
       /\ IF string.op = "cmps"
          THEN /\ \A i \in 0 .. did - 1 : Equal(i) <=> (i = did - 1 /\ string.over)
               /\ did = k \/ string.over
          ELSE did = k
=============================================================================
