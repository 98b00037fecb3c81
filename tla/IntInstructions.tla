-------------------------- MODULE IntInstructions ----------------------------
(***************************************************************************)
(* One integer instruction on every input of small widths, its result      *)
(* against what the operation means (alu.c and the instructions that call  *)
(* it), and the address and the length of an operand (cpu/decode) against  *)
(* the encoding it was made from.                                          *)
(***************************************************************************)
EXTENDS Decode

CONSTANTS Values,       \* operands of the integer instructions
          Dividends,    \* high and low halves of a dividend, and divisors
          Gpr           \* the registers before an instruction

ASSUME OperandAssumption ==
  /\ Values \subseteq 0 .. Word - 1 /\ Dividends \subseteq 0 .. Word - 1
  /\ Gpr \in [Registers -> 0 .. Word - 1]

VARIABLE last   \* the instruction that ran, its operands and what it left behind

Nothing == [op |-> "none"]
Flags == {[CF |-> c, PF |-> 0, ZF |-> 0, SF |-> 0, OF |-> 0] : c \in 0 .. 1}

Run(op, f, src, dest, n, out) ==
  last' = [op |-> op, f |-> f, src |-> src, dest |-> dest, n |-> n, out |-> out]

AddSub == \E f \in Flags, src, dest \in Values, n \in Sizes :
  \/ Run("add", f, src, dest, n, alu_add(f, src, dest, n))
  \/ Run("adc", f, src, dest, n, alu_adc(f, src, dest, n))
  \/ Run("sub", f, src, dest, n, alu_sub(f, src, dest, n))
  \/ Run("sbb", f, src, dest, n, alu_sbb(f, src, dest, n))
  \/ Run("cmp", f, src, dest, n, cmp_2op(f, src, dest, n))

OneOperand == \E f \in Flags, x \in Values, n \in Sizes :
  \/ Run("inc", f, 1, x, n, inc_rm(f, x, n))
  \/ Run("dec", f, 1, x, n, dec_rm(f, x, n))
  \/ Run("neg", f, x, 0, n, neg_rm(f, x, n))
  \/ Run("not", f, x, 0, n, not_rm(f, x, n))

Logic == \E f \in Flags, src, dest \in Values, n \in Sizes :
  \/ Run("and", f, src, dest, n, alu_and(f, src, dest, n))
  \/ Run("or", f, src, dest, n, alu_or(f, src, dest, n))
  \/ Run("xor", f, src, dest, n, alu_xor(f, src, dest, n))

Shift == \E f \in Flags, src, dest \in Values, n \in Sizes :
  \/ Run("shl", f, src, dest, n, alu_shl(f, src, dest, n))
  \/ Run("sal", f, src, dest, n, alu_sal(f, src, dest, n))
  \/ Run("shr", f, src, dest, n, alu_shr(f, src, dest, n))
  \/ Run("sar", f, src, dest, n, alu_sar(f, src, dest, n))

Multiply == \E f \in Flags, src, dest \in Values, n \in Sizes :
  \/ Run("mul", f, src, dest, n, mul_rm2a(f, src, dest, n))
  \/ Run("imul", f, src, dest, n, imul_rm2a(f, src, dest, n))

Convert == \E x \in Values, n \in Sizes \ {Byte} :
  \/ Run("cbw", {}, x, 0, n, cbw_a(x, n))
  \/ Run("cltd", {}, x, 0, n, cltd(x, n))
  \/ \E m \in Sizes : m < n /\ Run("movs", m, x, 0, n, mov_srm2r(x, m, n))

Divide == \E src, hi, lo \in Dividends, n \in Sizes :
  /\ Low(src, n) # 0
  /\ \/ Run("div", hi, src, lo, n, div_rm2a(src, hi, lo, n))
     \/ Run("idiv", hi, src, lo, n, idiv_rm2a(src, hi, lo, n))

(* The ways to write a memory operand: its base and index (None if there   *)
(* is none), scale and displacement, and the field mod.                    *)
None == 8
MemoryOperands ==
  {o \in [base : Registers \cup {None}, index : (Registers \ {REG_ESP}) \cup {None},
          ss : 0 .. 3, disp : {0, 1, 2^(Byte - 1), Word \div 2, Word - 1}, mod : 0 .. 2] :
     /\ o.index = None => o.ss = 0
     /\ o.base = None => o.mod = 0
     /\ o.mod = 0 /\ o.base # None => o.disp = 0 /\ o.base # REG_EBP
     /\ o.mod = 1 => o.disp = sign_ext(o.disp, Byte)}
HasSib(o) == o.index # None \/ o.base = REG_ESP
DispBytes(o) == IF o.base = None THEN 4 ELSE IF o.mod = 2 THEN 4 ELSE o.mod

Code(o) ==
  <<[mod |-> o.mod, rm |-> IF HasSib(o) THEN 4 ELSE IF o.base = None THEN 5 ELSE o.base]>>
  \o (IF HasSib(o) THEN <<[ss |-> o.ss, index |-> IF o.index = None THEN 4 ELSE o.index,
                          base |-> IF o.base = None THEN 5 ELSE o.base]>> ELSE <<>>)
  \o (IF DispBytes(o) = 0 THEN <<>> ELSE <<Low(o.disp, IF DispBytes(o) = 1 THEN Byte ELSE Host)>>)

MemoryOperand == \E o \in MemoryOperands : Run("modrm", {}, o, Gpr, 0, modrm_rm(Code(o), Gpr))

RegisterWrite == \E r \in Registers, n \in Sizes, val \in Values :
  Run("write", r, val, Gpr, n, operand_write(Gpr, r, n, val))

IntegerStep ==
  \/ AddSub \/ OneOperand \/ Logic \/ Shift \/ Multiply \/ Convert \/ Divide
  \/ MemoryOperand \/ RegisterWrite
IntegerSpec == last = Nothing /\ [][IntegerStep]_last   \* one instruction after another
-----------------------------------------------------------------------------
Did(ops) == last.op \in ops
In == last.f      \* the flags before, the high half before a division
Out == last.out
N == last.n
U(x) == x % 2^N                                  \* as a natural number
AsInteger(x, n) == IF x % 2^n < 2^(n - 1) THEN x % 2^n ELSE (x % 2^n) - 2^n
S(x) == AsInteger(x, N)                            \* as an integer
Carry == IF Did({"adc", "sbb"}) THEN In.CF ELSE 0

(* A sum or a difference, with the carry of the operation before it, is    *)
(* right modulo the width; CF says that it left the natural numbers of the *)
(* width and OF that it left the integers of the width (set_CF_* and       *)
(* set_OF_* see only the truncated result); inc and dec keep CF.           *)
SumsAreExact ==
  Did({"add", "adc", "sub", "sbb", "cmp", "inc", "dec"}) =>
    LET plus == Did({"add", "adc", "inc"})
        u == IF plus THEN U(last.dest) + U(last.src) + Carry ELSE U(last.dest) - U(last.src) - Carry
        s == IF plus THEN S(last.dest) + S(last.src) + Carry ELSE S(last.dest) - S(last.src) - Carry
    IN /\ Out.val = U(u)
       /\ Out.flags.CF = IF Did({"inc", "dec"}) THEN In.CF ELSE Flag(u \notin 0 .. 2^N - 1)
       /\ Out.flags.OF = Flag(s \notin -2^(N - 1) .. 2^(N - 1) - 1)
       /\ Out.flags.ZF = Flag(U(u) = 0)
       /\ Out.flags.SF = Flag(S(u) < 0)

(* A jump after cmp goes the way the operands compare, as natural numbers  *)
(* for b, be, a and ae and as integers for l, le, g and ge: the conditions *)
(* of instr_helper.h fit the flags of alu.c.                               *)
JumpsCompare ==
  Did({"cmp"}) =>
    LET d == last.dest  s == last.src
        Taken(cc) == condition(cc, Out.flags)
    IN /\ Taken("e") <=> U(d) = U(s)
       /\ Taken("ne") <=> U(d) # U(s)
       /\ Taken("b") <=> U(d) < U(s)
       /\ Taken("be") <=> U(d) <= U(s)
       /\ Taken("a") <=> U(d) > U(s)
       /\ Taken("ae") <=> U(d) >= U(s)
       /\ Taken("l") <=> S(d) < S(s)
       /\ Taken("le") <=> S(d) <= S(s)
       /\ Taken("g") <=> S(d) > S(s)
       /\ Taken("ge") <=> S(d) >= S(s)

(* A shift by fewer bits than the width multiplies or divides by a power   *)
(* of 2, rounding down, of the operand as a natural number, and as an      *)
(* integer for sar; CF is the last bit that fell out.  The bitwise         *)
(* operations add up: what two words share and what either has is their    *)
(* sum, and what they differ in is the difference of the two.              *)
ShiftsScale ==
  /\ Did({"and"}) =>
       LET either == alu_or(In, last.src, last.dest, N).val
       IN /\ Out.val + either = U(last.src) + U(last.dest)
          /\ alu_xor(In, last.src, last.dest, N).val = either - Out.val
          /\ Out.flags.CF = 0 /\ Out.flags.OF = 0
  /\ Did({"neg", "not"}) => U(Out.val + last.src + Flag(Did({"not"}))) = 0
  /\ Did({"shl", "sal", "shr", "sar"}) /\ U(last.src) \in 1 .. N - 1 =>
    LET k == U(last.src)  d == last.dest
    IN CASE Did({"shl", "sal"}) -> /\ Out.val = U(U(d) * 2^k)
                                   /\ Out.flags.CF = ((U(d) * 2^k) \div 2^N) % 2
         [] Did({"shr"}) -> Out.val = U(d) \div 2^k /\ Out.flags.CF = (U(d) \div 2^(k - 1)) % 2
         [] Did({"sar"}) -> S(Out.val) = S(d) \div 2^k /\ Out.flags.CF = (S(d) \div 2^(k - 1)) % 2

(* The register pair holds the whole product, and after a division the     *)
(* quotient and the remainder give the dividend back, when the quotient    *)
(* fits and, for div, the high half is 0: alu_div cuts the dividend to the *)
(* width of the divisor.  What a conversion extends keeps its value; cltd  *)
(* does so for a whole word only.                                          *)
PairsAreExact ==
  /\ Did({"cbw"}) => S(Out) = AsInteger(last.src, N \div 2)
  /\ Did({"movs"}) => S(Out) = AsInteger(last.src, last.f)
  /\ Did({"cltd"}) /\ N = Host => S(Out) * 2^N + U(last.src) = S(last.src)
  /\ Did({"mul"}) => /\ Out.hi * 2^N + Out.lo = U(last.dest) * U(last.src)
                     /\ Out.flags.CF = Flag(Out.hi # 0) /\ Out.flags.OF = Flag(Out.hi # 0)
  /\ Did({"imul"}) => S(Out.hi) * 2^N + Out.lo = S(last.dest) * S(last.src)
  /\ Did({"div"}) /\ U(last.f) = 0 =>
       Out.lo * U(last.src) + Out.hi = U(last.dest) /\ Out.hi < U(last.src)
  /\ Did({"idiv"}) =>
       LET dividend == S(last.f) * 2^N + U(last.dest)
           q == alu_idiv(S(last.src), dividend)
       IN q \in -2^(N - 1) .. 2^(N - 1) - 1 =>
            /\ S(Out.lo) * S(last.src) + S(Out.hi) = dividend
            /\ Abs(S(Out.hi)) < Abs(S(last.src))
            /\ S(Out.hi) # 0 => (S(Out.hi) < 0) = (dividend < 0)

(* All of them: alu.c computes with the integers.                          *)
AluIsExact == SumsAreExact /\ ShiftsScale /\ PairsAreExact

(* An operand decodes to the address and the length it was encoded with,   *)
(* and uses the stack segment when its base is esp or ebp (modrm.c and     *)
(* sib.c, whose forms share the register numbers 4 and 5 with the marks    *)
(* for "a SIB byte follows" and "no base").  A register written in part    *)
(* reads back as it was written, and no register that does not overlap the *)
(* part changes: ah and al, ax and eax share their bits.                   *)
AddressesDecode ==
  Did({"modrm"}) =>
    LET o == last.src
        base == IF o.base = None THEN 0 ELSE Gpr[o.base]
        index == IF o.index = None THEN 0 ELSE Gpr[o.index]
    IN /\ Out.addr = (base + index * 2^o.ss + o.disp) % Word
       /\ Out.len = 1 + Flag(HasSib(o)) + DispBytes(o)
       /\ o.base # None => Out.sreg = IF o.base \in {REG_ESP, REG_EBP} THEN "ss" ELSE "ds"

Bits(r, n) ==
  {<<IF n = Byte THEN r % 4 ELSE r, (IF n = Byte THEN Byte * (r \div 4) ELSE 0) + i>> : i \in 0 .. n - 1}
PartsAreApart ==
  Did({"write"}) =>
    \A r \in Registers, n \in Sizes :
      IF Bits(r, n) \cap Bits(last.f, N) = {} THEN operand_read(Out, r, n) = operand_read(Gpr, r, n)
      ELSE r = last.f /\ n = N => operand_read(Out, r, n) = Low(last.src, n)

OperandsDecode == AddressesDecode /\ PartsAreApart
=============================================================================
