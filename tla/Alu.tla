-------------------------------- MODULE Alu ----------------------------------
(***************************************************************************)
(* Integer arithmetic of nemu: cpu/alu.c and the conditions of             *)
(* instr_helper.h.  Every operation takes the flags that stand before it   *)
(* and returns [val, flags]; eflags is kept to the five flags that the     *)
(* conditions read.  The width of a byte is a parameter: uint32_t has four *)
(* of them, and every mask and shift count of the code scales with it.     *)
(***************************************************************************)
EXTENDS Integers, FiniteSets

CONSTANT Byte

ASSUME ByteAssumption == Byte \in Nat \ {0}

Host == 4 * Byte                   \* bits of a uint32_t
Word == 2^Host
Sizes == {Byte, 2 * Byte, Host}    \* data_size: 8, 16, 32

Low(x, n) == x % 2^n               \* x & (0xFFFFFFFF >> (32 - n))
Bit(x, i) == (x \div 2^i) % 2
Flag(b) == IF b THEN 1 ELSE 0

sign_ext(x, n) == (IF Low(x, n) < 2^(n - 1) THEN Low(x, n) ELSE Low(x, n) - 2^n) % Word
sign(x) == x \div 2^(Host - 1)
AsInt(x, n) == IF Low(x, n) < 2^(n - 1) THEN Low(x, n) ELSE Low(x, n) - 2^n  \* the cast to int

SetPSZ(f, res, n) ==
  [f EXCEPT !.PF = Flag(Cardinality({i \in 0 .. Byte - 1 : Bit(res, i) = 1}) % 2 = 0),
            !.ZF = Flag(Low(res, n) = 0),
            !.SF = sign(sign_ext(res, n))]
-----------------------------------------------------------------------------
(* A sum carries when it is below an operand; with a carry in, when it is  *)
(* not above it.                                                           *)
SumStrict(f, src, dest, n, carry) ==  \* mutated form: set_CF_add used for adc
  LET res == (dest + src + carry) % Word
      r == sign_ext(res, n)  s == sign_ext(src, n)  d == sign_ext(dest, n)
  IN [val |-> Low(res, n),
      flags |-> [SetPSZ(f, res, n) EXCEPT !.CF = Flag(r < s),
                   !.OF = Flag(sign(s) = sign(d) /\ sign(s) # sign(r))]]

Sum(f, src, dest, n, carry) ==
  LET res == (dest + src + carry) % Word
      r == sign_ext(res, n)  s == sign_ext(src, n)  d == sign_ext(dest, n)
  IN [val |-> Low(res, n),
      flags |-> [SetPSZ(f, res, n) EXCEPT
                   !.CF = Flag(IF carry = 1 THEN r <= s ELSE r < s),
                   !.OF = Flag(sign(s) = sign(d) /\ sign(s) # sign(r))]]

alu_add(f, src, dest, n) == Sum(f, src, dest, n, 0)
alu_adc(f, src, dest, n) == Sum(f, src, dest, n, f.CF)

Difference(f, src, dest, n, borrow) ==
  LET res == (dest - src - borrow) % Word
      r == sign_ext(res, n)  s == sign_ext(src, n)  d == sign_ext(dest, n)
  IN [val |-> Low(res, n),
      flags |-> [SetPSZ(f, res, n) EXCEPT
                   !.CF = Flag(IF borrow = 1 THEN d <= s ELSE d < s),
                   !.OF = Flag(sign(s) # sign(d) /\ sign(d) # sign(r))]]

alu_sub(f, src, dest, n) == Difference(f, src, dest, n, 0)
alu_sbb(f, src, dest, n) == Difference(f, src, dest, n, f.CF)

(* The sums of the first values of g, of none up to n of them.             *)
PartialSums(g, n) == LET sum[k \in 0 .. n] == IF k = 0 THEN 0 ELSE sum[k - 1] + g[k - 1] IN sum

Bitwise(op(_, _), x, y) ==
  PartialSums([i \in 0 .. Host - 1 |-> 2^i * op(Bit(x, i), Bit(y, i))], Host)[Host]

Logical(f, res, n) ==
  [val |-> Low(res, n), flags |-> [SetPSZ(f, res, n) EXCEPT !.CF = 0, !.OF = 0]]

alu_and(f, src, dest, n) == Logical(f, Bitwise(LAMBDA a, b : a * b, src, dest), n)
alu_or(f, src, dest, n)  == Logical(f, Bitwise(LAMBDA a, b : a + b - a * b, src, dest), n)
alu_xor(f, src, dest, n) == Logical(f, Bitwise(LAMBDA a, b : (a + b) % 2, src, dest), n)
-----------------------------------------------------------------------------
(* The shifts move one bit at a time, as often as the operand says: the    *)
(* count is not reduced modulo 32.  alu_sal repeats alu_shl.               *)
Doubled(d, j) == IF j >= Host THEN 0 ELSE (d * 2^j) % Word
Halved(d, j) == d \div 2^(IF j > Host THEN Host ELSE j)

alu_shl(f, src, dest, n) ==
  LET k == Low(src, n)  d == Low(dest, n)
      res == Doubled(d, k)
      cf == IF k = 0 THEN f.CF ELSE Bit(Doubled(d, k - 1), n - 1)
      of == IF k = 1 THEN Flag(res \div 2^(n - 1) # cf) ELSE f.OF
  IN [val |-> Low(res, n), flags |-> [SetPSZ(f, res, n) EXCEPT !.CF = cf, !.OF = of]]

alu_sal(f, src, dest, n) == alu_shl(f, src, dest, n)

(* The loops of alu_shr and alu_sar count src down to 0, so the test       *)
(* src == 1 after them never holds and OF stays.                           *)
Right(f, k, d, n) ==
  LET res == Halved(d, k) % Word
      cf == IF k = 0 THEN f.CF ELSE Bit(Halved(d, k - 1), 0)
  IN [val |-> Low(res, n), flags |-> [SetPSZ(f, res, n) EXCEPT !.CF = cf]]

alu_shr(f, src, dest, n) == Right(f, Low(src, n), Low(dest, n), n)
alu_sar(f, src, dest, n) == Right(f, Low(src, n), AsInt(dest, n), n)
-----------------------------------------------------------------------------
(* Products are 64 bits wide.  set_OF_imul compares (newres & 0x0) with 1  *)
(* and so finds every product "equal": OF is always set.                   *)
alu_mul(f, src, dest, n) ==
  LET res == Low(src, n) * Low(dest, n)
      high == Flag(res \div 2^n # 0)
  IN [val |-> res, flags |-> [f EXCEPT !.CF = high, !.OF = high]]

alu_imul(f, src, dest, n) ==
  [val |-> AsInt(src, n) * AsInt(dest, n), flags |-> [f EXCEPT !.OF = 1]]

(* alu_div cuts the dividend to data_size bits, alu_mod does not; the      *)
(* divisor is not 0 (asserted).                                            *)
alu_div(src, dest, n) == Low(dest, n) \div Low(src, n)
alu_mod(src, dest) == dest % src

Abs(x) == IF x < 0 THEN -x ELSE x
alu_idiv(src, dest) ==
  LET q == Abs(dest) \div Abs(src) IN IF (dest < 0) = (src < 0) THEN q ELSE -q
alu_imod(src, dest) == dest - src * alu_idiv(src, dest)

(* mul, imul, div and idiv with the register pair hi:lo, ah:al for bytes.  *)
mul_rm2a(f, src, lo, n) ==
  LET p == alu_mul(f, src, lo, n)
  IN [lo |-> Low(p.val, n), hi |-> p.val \div 2^n, flags |-> p.flags]
imul_rm2a(f, src, lo, n) ==
  LET p == alu_imul(f, src, lo, n)
  IN [lo |-> Low(p.val, n), hi |-> Low(p.val \div 2^n, n), flags |-> p.flags]

div_rm2a(src, hi, lo, n) ==
  LET dividend == Low(hi, n) * 2^n + Low(lo, n)
  IN [lo |-> alu_div(src, dividend, n), hi |-> Low(alu_mod(Low(src, n), dividend), n)]
idiv_rm2a(src, hi, lo, n) ==
  LET dividend == AsInt(hi, n) * 2^n + Low(lo, n)
  IN [lo |-> Low(alu_idiv(AsInt(src, n), dividend), n),
      hi |-> Low(alu_imod(AsInt(src, n), dividend), n)]

inc_rm(f, x, n) ==
  LET r == alu_add(f, 1, x, n) IN [r EXCEPT !.flags.CF = f.CF]
dec_rm(f, x, n) ==
  LET r == alu_sub(f, 1, x, n) IN [r EXCEPT !.flags.CF = f.CF]
neg_rm(f, x, n) == [val |-> Low(-Low(x, n), n), flags |-> [f EXCEPT !.CF = Flag(Low(x, n) # 0)]]
not_rm(f, x, n) == [val |-> Low(-x - 1, n), flags |-> f]

(* The conversions: cbw extends the lower half of the accumulator, cltd    *)
(* answers with the high half for it, by the sign of a word that has been  *)
(* cut to data_size and so is never negative when that is 16.              *)
mov_srm2r(x, m, n) == Low(sign_ext(x, m), n)
cbw_a(x, n) == Low(sign_ext(x, n \div 2), n)
cltd(x, n) == IF AsInt(Low(x, n), Host) < 0 THEN 2^n - 1 ELSE 0
cmp_2op(f, src, dest, n) == alu_sub(f, sign_ext(src, n), sign_ext(dest, n), n)
-----------------------------------------------------------------------------
(* The conditions of jcc, setcc and cmov.                                  *)
condition_LeNoZero(cc, f) ==  \* mutated form: ZF is not tested by le
  CASE cc = "e" -> f.ZF = 1 [] cc = "ne" -> f.ZF = 0
    [] cc = "b" -> f.CF = 1 [] cc = "ae" -> f.CF = 0
    [] cc = "a" -> f.CF = 0 /\ f.ZF = 0 [] cc = "be" -> f.CF = 1 \/ f.ZF = 1
    [] cc = "l" -> f.SF # f.OF [] cc = "ge" -> f.SF = f.OF
    [] cc = "g" -> f.ZF = 0 /\ f.SF = f.OF [] cc = "le" -> f.SF # f.OF

condition(cc, f) ==
  CASE cc = "e" -> f.ZF = 1 [] cc = "ne" -> f.ZF = 0
    [] cc = "b" -> f.CF = 1 [] cc = "ae" -> f.CF = 0
    [] cc = "a" -> f.CF = 0 /\ f.ZF = 0 [] cc = "be" -> f.CF = 1 \/ f.ZF = 1
    [] cc = "l" -> f.SF # f.OF [] cc = "ge" -> f.SF = f.OF
    [] cc = "g" -> f.ZF = 0 /\ f.SF = f.OF [] cc = "le" -> f.ZF = 1 \/ f.SF # f.OF
=============================================================================
