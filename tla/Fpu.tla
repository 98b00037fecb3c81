-------------------------------- MODULE Fpu ----------------------------------
(***************************************************************************)
(* Floating point of nemu, cpu/fpu.c, with the widths as parameters:       *)
(* ExpBits = 8 and FracBits = 23 in the code, and a 64-bit dividend.  A    *)
(* number is a record of its three fields.                                 *)
(***************************************************************************)
EXTENDS Integers

CONSTANTS ExpBits, FracBits,
          DivBits     \* width of the dividend's significand: 64

(* The product of two normal significands lies above the position of the   *)
(* hidden bit with its guard bits, as 2 * 23 > 23 + 3 does.                *)
ASSUME FpuAssumption ==
  /\ ExpBits \in Nat \ {0, 1}
  /\ FracBits \in Nat /\ FracBits > 3
  /\ DivBits \in Nat /\ DivBits > 2 * FracBits + 4

MaxExp == 2^ExpBits - 1         \* 0xff
Bias == 2^(ExpBits - 1) - 1     \* 127
Hidden == 2^FracBits            \* 0x800000
Top(sig) == sig \div (8 * Hidden)  \* sig_grs >> (23 + 3)

Float == [sign : 0 .. 1, exponent : 0 .. MaxExp, fraction : 0 .. Hidden - 1]

Zero(s) == [sign |-> s, exponent |-> 0, fraction |-> 0]
Inf(s)  == [sign |-> s, exponent |-> MaxExp, fraction |-> 0]
NaN(s)  == [sign |-> s, exponent |-> MaxExp, fraction |-> Hidden \div 2]
IsZero(x) == x \in {Zero(0), Zero(1)}
IsInf(x) == x \in {Inf(0), Inf(1)}
IsNaN(x) == x \in {NaN(0), NaN(1)}   \* the two that the code knows by name
Negate(x) == [x EXCEPT !.sign = 1 - @]
Xor(x, y) == (x.sign + y.sign) % 2
-----------------------------------------------------------------------------
(* One shift to the right; what falls out is kept in the sticky bit.       *)
JamDrops(sig) == sig \div 2  \* mutated form: no sticky bit
Jam(sig) == IF sig % 4 = 1 THEN sig \div 2 + 1 ELSE sig \div 2

RECURSIVE ShiftRight(_, _), ShiftLeft(_, _)
ShiftRight(exp, sig) ==
  IF (Top(sig) > 1 /\ exp < MaxExp) \/ (sig > 4 /\ exp < 0)
  THEN ShiftRight(exp + 1, Jam(sig)) ELSE [exp |-> exp, sig |-> sig]

ShiftLeft(exp, sig) ==
  IF Top(sig) = 0 /\ exp > 0 THEN ShiftLeft(exp - 1, 2 * sig) ELSE [exp |-> exp, sig |-> sig]

JamAtZero(r) == IF r.exp = 0 THEN [r EXCEPT !.sig = Jam(@)] ELSE r

(* The significand aligned: to the right, to the left, or two denormals    *)
(* that have become a normal number.                                       *)
Aligned(exp, sig) ==
  CASE Top(sig) > 1 \/ exp < 0 -> JamAtZero(ShiftRight(exp, sig))
    [] Top(sig) = 0 /\ exp > 0 -> JamAtZero(ShiftLeft(exp, sig))
    [] OTHER -> [exp |-> IF exp = 0 /\ Top(sig) = 1 THEN 1 ELSE exp, sig |-> sig]

Round(sig) ==
  LET grs == sig % 8
  IN IF grs > 4 \/ (grs = 4 /\ (sig \div 8) % 2 = 1) THEN sig + 8 ELSE sig

RECURSIVE internal_normalize(_, _, _)
internal_normalize(s, exp, sig) ==
  LET r == Aligned(exp, sig)
      rounded == Round(r.sig)
      shifted == Top(sig) > 1 \/ exp < 0   \* only this branch looks for overflow
  IN CASE shifted /\ r.exp >= MaxExp -> Inf(s)
       [] shifted /\ r.exp < 0 -> Zero(s)
       [] Top(rounded) > 1 -> internal_normalize(s, r.exp, rounded)
       [] OTHER -> [sign |-> s, exponent |-> r.exp % (MaxExp + 1),
                    fraction |-> (rounded \div 8) % Hidden]
-----------------------------------------------------------------------------
Significand(x) == IF x.exponent = 0 THEN x.fraction ELSE x.fraction + Hidden
Exponent(x) == IF x.exponent = 0 THEN 1 ELSE x.exponent

RECURSIVE JamBy(_, _)
JamBy(sig, n) == IF n = 0 THEN sig ELSE JamBy(Jam(sig), n - 1)

Signed(x, sig) == IF x.sign = 1 THEN -sig ELSE sig

(* corner_add and the early returns after it.                              *)
corner_add(a, b) ==
  IF IsZero(a) /\ IsZero(b) THEN Zero(a.sign * b.sign)
  ELSE IF IsInf(a) /\ IsInf(b) /\ a # b THEN NaN(1)
  ELSE IF (IsInf(a) \/ a = NaN(1)) /\ IsNaN(b) THEN b
  ELSE IF IsZero(a) THEN b
  ELSE IF IsZero(b) \/ a.exponent = MaxExp THEN a ELSE b

internal_float_add(b, a) ==
  IF IsZero(a) \/ IsZero(b) \/ MaxExp \in {a.exponent, b.exponent} THEN corner_add(a, b)
  ELSE LET fa == IF a.exponent > b.exponent THEN b ELSE a
           fb == IF a.exponent > b.exponent THEN a ELSE b
           sig_a == JamBy(8 * Significand(fa), Exponent(fb) - Exponent(fa))
           res == Signed(fa, sig_a) + Signed(fb, 8 * Significand(fb))
       IN internal_normalize(IF res < 0 THEN 1 ELSE 0, fb.exponent, IF res < 0 THEN -res ELSE res)

internal_float_sub(b, a) ==
  IF IsZero(a) /\ IsZero(b) THEN Zero(IF a.sign = 1 /\ b.sign = 0 THEN 1 ELSE 0)
  ELSE IF IsNaN(a) /\ IsNaN(b) THEN IF a = b THEN a ELSE NaN(0)
  ELSE IF IsNaN(a) THEN a
  ELSE IF IsNaN(b) THEN b ELSE internal_float_add(Negate(b), a)

TheNaN(a, b) == IF NaN(0) \in {a, b} THEN NaN(0) ELSE NaN(1)

internal_float_mul(b, a) ==
  IF (IsZero(a) /\ IsInf(b)) \/ (IsInf(a) /\ IsZero(b)) THEN NaN(1)
  ELSE IF IsNaN(a) \/ IsNaN(b) THEN TheNaN(a, b)
  ELSE IF IsZero(a) \/ IsZero(b) THEN Zero(Xor(a, b))
  ELSE IF IsInf(a) \/ IsInf(b) THEN Inf(Xor(a, b))
  ELSE internal_normalize(Xor(a, b), Exponent(a) + Exponent(b) - Bias - (FracBits - 3),
                          Significand(a) * Significand(b))

(* efforts to maintain the precision of the result: the dividend is moved  *)
(* to the top of 64 bits, the divisor is freed of its trailing zeros.  The *)
(* remainder is dropped, it does not reach the sticky bit.                 *)
RECURSIVE UpShift(_), DownShift(_)
UpShift(sig) == IF sig >= 2^(DivBits - 1) THEN 0 ELSE 1 + UpShift(2 * sig)
DownShift(sig) == IF sig % 2 = 1 THEN 0 ELSE 1 + DownShift(sig \div 2)

internal_float_div(b, a) ==
  IF (IsZero(a) /\ IsZero(b)) \/ (IsInf(a) /\ IsInf(b)) THEN NaN(1)
  ELSE IF IsNaN(a) \/ IsNaN(b) THEN TheNaN(a, b)
  ELSE IF IsInf(a) \/ IsZero(b) THEN Inf(Xor(a, b))
  ELSE IF IsZero(a) \/ IsInf(b) THEN Zero(Xor(a, b))
  ELSE LET up == UpShift(Significand(a))  down == DownShift(Significand(b))
       IN internal_normalize(Xor(a, b),
            Exponent(a) - Exponent(b) + Bias - (up + down - FracBits - 3),
            (Significand(a) * 2^up) \div (Significand(b) \div 2^down))
=============================================================================
