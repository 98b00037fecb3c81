-------------------------------- MODULE Stack --------------------------------
(***************************************************************************)
(* The stack and the control transfers of nemu: push, pop, call, ret,      *)
(* leave, jmp, int and iret of cpu/instr, raise_intr of cpu/intr.c, and    *)
(* the repeated string instructions.  A machine is [gpr, eip, eflags, cs,  *)
(* mem]: eflags keeps CF, ZF and IF (INTR), mem is a byte for each         *)
(* address, and the segments are flat, as load_sreg asserts.               *)
(***************************************************************************)
EXTENDS Decode

Load(m, a, len) ==
  PartialSums([i \in 0 .. len - 1 |-> m.mem[Address(a + i)] * 2^(Byte * i)], len)[len]

Store(m, a, len, v) ==
  [m EXCEPT !.mem = [b \in DOMAIN @ |->
     IF Address(b - a) < len THEN Low(v \div 2^(Byte * Address(b - a)), Byte) ELSE @[b]]]

Esp(m) == m.gpr[REG_ESP]
MoveEsp(m, d) == [m EXCEPT !.gpr[REG_ESP] = Address(@ + d)]
After(m, len) == [m EXCEPT !.eip = Address(@ + len)]

PushBytes(m, len, v) == Store(MoveEsp(m, -len), Address(Esp(m) - len), len, v)

push(m, n, v) ==  \* of 8 bits: an immediate, extended to 32
  IF n = Byte THEN PushBytes(m, 4, sign_ext(v, n)) ELSE PushBytes(m, n \div Byte, Low(v, n))

pop(m, r, n) ==
  LET v == Load(m, Esp(m), n \div Byte)
      up == MoveEsp(m, n \div Byte)
  IN [up EXCEPT !.gpr = operand_write(@, r, n, v)]

(* pusha pushes the esp from before; popa, which reads only, drops it.     *)
PushRegister(x, m, r) == PushBytes(x, 4, m.gpr[r])
PushHalf(x, m, r) ==
  PushRegister(PushRegister(PushRegister(PushRegister(x, m, r), m, r + 1), m, r + 2), m, r + 3)
pusha(m) == PushHalf(PushHalf(m, m, 0), m, 4)

popa(m) ==
  [m EXCEPT !.gpr = [r \in Registers |->
     IF r = REG_ESP THEN Address(Esp(m) + 32) ELSE Load(m, Esp(m) + 4 * (7 - r), 4)]]
-----------------------------------------------------------------------------
jmp_near(m, n, rel) == After(m, sign_ext(rel, n) + 1 + n \div Byte)
call_near(m, n, rel) ==
  jmp_near(PushBytes(m, 4, Address(m.eip + 1 + n \div Byte)), n, rel)
call_near_indirect(m, len, target) ==
  [PushBytes(m, 4, Address(m.eip + len)) EXCEPT !.eip = target]

ret_near(m) == [MoveEsp(m, 4) EXCEPT !.eip = Load(m, Esp(m), 4)]
ret_near_imm16(m, imm) == MoveEsp(ret_near(m), imm)

leave(m) ==
  LET frame == [m EXCEPT !.gpr[REG_ESP] = m.gpr[REG_EBP]]
  IN After(MoveEsp([frame EXCEPT !.gpr[REG_EBP] = Load(frame, Esp(frame), 4)], 4), 1)

(* An interrupt through a gate [interrupt, cs, offset]: a gate of type 0xE *)
(* clears IF.  eflags is pushed as a word.                                 *)
EflagsWord(f) == f.CF + 2 * f.ZF + 4 * f.INTR
raise_intr(m, gate) ==
  LET pushed == PushBytes(PushBytes(PushBytes(m, 4, EflagsWord(m.eflags)), 4, m.cs), 4, m.eip)
  IN [pushed EXCEPT !.eflags.INTR = IF gate.interrupt THEN 0 ELSE @, !.cs = gate.cs, !.eip = gate.offset]

raise_sw_intr(m, gate) == raise_intr(After(m, 2), gate)

IretNoFlags(m) ==  \* mutated form: eflags stays as the handler left it
  [MoveEsp(m, 12) EXCEPT !.eip = Load(m, Esp(m), 4), !.cs = Low(Load(m, Esp(m) + 4, 4), 2 * Byte)]

iret(m) ==
  LET f == Load(m, Esp(m) + 8, 4)
  IN [MoveEsp(m, 12) EXCEPT !.eip = Load(m, Esp(m), 4),
        !.cs = Low(Load(m, Esp(m) + 4, 4), 2 * Byte),
        !.eflags = [CF |-> Bit(f, 0), ZF |-> Bit(f, 1), INTR |-> Bit(f, 2)]]
-----------------------------------------------------------------------------
(* The string instructions, with esi and edi in the machine; a step is the *)
(* length of an element, downwards if DF is set.                           *)
REG_ECX == 1
REG_ESI == 6
REG_EDI == 7
Move(m, r, d) == [m EXCEPT !.gpr[r] = Address(@ + d)]

movs(m, step, len) ==
  Move(Move(Store(m, m.gpr[REG_EDI], len, Load(m, m.gpr[REG_ESI], len)), REG_ESI, step), REG_EDI, step)

StosMoved(m, step, len) ==  \* mutated form: edi moves before its address is taken
  LET moved == Move(m, REG_EDI, step)
  IN Store(moved, moved.gpr[REG_EDI], len, operand_read(m.gpr, 0, len * Byte))

stos(m, step, len) ==
  Move(Store(m, m.gpr[REG_EDI], len, operand_read(m.gpr, 0, len * Byte)), REG_EDI, step)

(* cmps compares with data_size, also single bytes, which keeps ZF right.  *)
cmps(m, step, len) ==
  LET equal == Load(m, m.gpr[REG_ESI], len) = Load(m, m.gpr[REG_EDI], len)
  IN Move(Move([m EXCEPT !.eflags.ZF = Flag(equal)], REG_ESI, step), REG_EDI, step)

StepOf(op, m, step, len) ==
  CASE op = "movs" -> movs(m, step, len)
    [] op = "stos" -> stos(m, step, len)
    [] op = "cmps" -> cmps(m, step, len)

(* One pass of rep's loop, which goes on until ecx is 0; a comparison also *)
(* stops it when ZF is set, that is at the first equal pair.               *)
rep_repe(op, m, step, len) == Move(StepOf(op, m, step, len), REG_ECX, -1)
Stops(op, m) == op = "cmps" /\ m.eflags.ZF = 1
=============================================================================
