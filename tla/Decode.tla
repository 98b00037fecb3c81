------------------------------- MODULE Decode --------------------------------
(***************************************************************************)
(* Operands of nemu's instructions: cpu/decode/modrm.c, sib.c, operand.c.  *)
(* The bytes behind the opcode are a sequence: the fields of ModR/M, those *)
(* of SIB if there is one, and the displacement as one number.             *)
(***************************************************************************)
EXTENDS Alu, Sequences

Registers == 0 .. 7      \* REG_EAX .. REG_EDI
REG_ESP == 4
REG_EBP == 5

Address(x) == x % Word

SibDropsBase(code, eip, mod, gpr) ==  \* mutated form: base 5 never is a register
  LET sib == code[eip]
      idx == IF sib.index = REG_ESP THEN 0 ELSE gpr[sib.index] * 2^sib.ss
      sreg == IF sib.base \in {REG_ESP, REG_EBP} THEN "ss" ELSE "ds"
  IN IF sib.base = 5
     THEN [addr |-> Address(idx + (IF mod = 0 THEN code[eip + 1] ELSE 0)), sreg |-> sreg,
           len |-> IF mod = 0 THEN 5 ELSE 1]
     ELSE [addr |-> Address(gpr[sib.base] + idx), sreg |-> sreg, len |-> 1]

parse_sib(code, eip, mod, gpr) ==
  LET sib == code[eip]
      idx == IF sib.index = REG_ESP THEN 0 ELSE gpr[sib.index] * 2^sib.ss
      sreg == IF sib.base \in {REG_ESP, REG_EBP} THEN "ss" ELSE "ds"
  IN IF mod = 0 /\ sib.base = 5
     THEN [addr |-> Address(idx + code[eip + 1]), sreg |-> sreg, len |-> 5]
     ELSE [addr |-> Address(gpr[sib.base] + idx), sreg |-> sreg, len |-> 1]

case_mod_00(code, rm, gpr) ==
  CASE rm = 4 -> parse_sib(code, 2, 0, gpr)
    [] rm = 5 -> [addr |-> code[2], sreg |-> "ds", len |-> 4]
    [] OTHER -> [addr |-> gpr[rm], sreg |-> "ds", len |-> 0]

(* case_mod_01 and case_mod_10: a displacement of n bits after the rest.   *)
case_mod_disp(code, mod, rm, gpr, n) ==
  LET opr == IF rm = 4 THEN parse_sib(code, 2, mod, gpr)
             ELSE [addr |-> gpr[rm], sreg |-> IF rm = REG_EBP THEN "ss" ELSE "ds", len |-> 0]
      disp == sign_ext(code[IF rm = 4 THEN 3 ELSE 2], n)
  IN [opr EXCEPT !.addr = Address(@ + disp), !.len = @ + n \div Byte]

modrm_rm(code, gpr) ==
  LET mod == code[1].mod  rm == code[1].rm
      opr == CASE mod = 0 -> case_mod_00(code, rm, gpr)
               [] mod = 1 -> case_mod_disp(code, 1, rm, gpr, Byte)
               [] mod = 2 -> case_mod_disp(code, 2, rm, gpr, Host)
  IN [opr EXCEPT !.len = @ + 1]
-----------------------------------------------------------------------------
(* Register operands: of 8 bits, register r is a low byte for r < 4 and    *)
(* the second byte of register r - 4 otherwise.                            *)
operand_read(gpr, r, n) ==
  IF n = Byte THEN Low(gpr[r % 4] \div 2^(Byte * (r \div 4)), Byte) ELSE Low(gpr[r], n)

operand_write(gpr, r, n, val) ==
  LET reg == IF n = Byte THEN r % 4 ELSE r
      at == IF n = Byte THEN Byte * (r \div 4) ELSE 0   \* the lowest bit of the part
      old == Low(gpr[reg] \div 2^at, n)
  IN [gpr EXCEPT ![reg] = @ + (Low(val, n) - old) * 2^at]
=============================================================================
