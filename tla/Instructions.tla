---------------------------- MODULE Instructions -----------------------------
(***************************************************************************)
(* The instructions on floating point numbers, their results against what  *)
(* the operations mean on real numbers (fpu.c).                            *)
(***************************************************************************)
EXTENDS IntInstructions, Fpu

Floats == {x \in Float : x.exponent = MaxExp => IsInf(x) \/ IsNaN(x)}

FloatOp == \E a, b \in Floats :
  \/ Run("fadd", {}, b, a, 0, internal_float_add(b, a))
  \/ Run("fsub", {}, b, a, 0, internal_float_sub(b, a))
  \/ Run("fmul", {}, b, a, 0, internal_float_mul(b, a))
  \/ Run("fdiv", {}, b, a, 0, internal_float_div(b, a))
-----------------------------------------------------------------------------
(* Rounding to the nearest number, ties to even, by neighbours: numbers    *)
(* without their sign are ordered as their fields are (Place), the one     *)
(* after the largest is infinity, and Units counts the smallest denormal.  *)
Place(x) == x.exponent * Hidden + x.fraction
Units(i) == IF i < Hidden THEN i ELSE (Hidden + (i % Hidden)) * 2^((i \div Hidden) - 1)
One == 2^(Bias - 1 + FracBits)  \* the units in 1.0

Nearest(i, num, den) ==  \* num / den units round to place i
  LET low == (Units(i - 1) + Units(i)) * den
      high == (Units(i) + Units(i + 1)) * den
  IN /\ i = 0 \/ 2 * num > low \/ (2 * num = low /\ i % 2 = 0)
     /\ i = MaxExp * Hidden \/ 2 * num < high \/ (2 * num = high /\ i % 2 = 0)

Finite(x) == x.exponent < MaxExp
Of(x) == IF x.sign = 1 THEN -Units(Place(x)) ELSE Units(Place(x))
OnFinite(ops) == Did(ops) /\ Finite(last.dest) /\ Finite(last.src)
A == last.dest
B == last.src

ExactSum == IF Did({"fadd"}) THEN Of(A) + Of(B) ELSE Of(A) - Of(B)
ExactNum == IF Did({"fmul"}) THEN Abs(Of(A) * Of(B)) ELSE Abs(Of(A)) * One
ExactDen == IF Did({"fmul"}) THEN One ELSE Abs(Of(B))

(* A sum or difference of finite numbers is the exact one, rounded to the  *)
(* nearest, ties to even, with its sign: the three guard bits are enough   *)
(* (internal_float_add).  One of specials is a special.                    *)
SumsAreRounded ==
  Did({"fadd", "fsub"}) =>
    LET b == IF Did({"fadd"}) THEN B ELSE Negate(B)
    IN IF OnFinite({"fadd", "fsub"})
       THEN /\ Nearest(Place(Out), Abs(ExactSum), 1)
            /\ ExactSum # 0 => Out.sign = Flag(ExactSum < 0)
       ELSE IF IsNaN(A) \/ IsNaN(B) \/ (IsInf(A) /\ IsInf(b) /\ A # b) THEN IsNaN(Out)
            ELSE Out = IF IsInf(A) THEN A ELSE b

(* A product is the exact one rounded to the nearest, except where         *)
(* internal_normalize confuses exponent 0 with exponent 1: a product whose *)
(* exponent is 0 before it is aligned, and a denormal that rounds up to    *)
(* the smallest normal number, which is left with exponent 0.  A quotient  *)
(* may also be one place below: the dropped remainder cannot break a tie.  *)
MeetsExpZero ==
  /\ Did({"fmul"})
  /\ Exponent(A) + Exponent(B) = Bias + FracBits - 3
  /\ Top(Significand(A) * Significand(B)) <= 1
LosesCarry == IsZero(Out) /\ Nearest(Hidden, ExactNum, ExactDen)

ProductsAreRounded ==
  /\ OnFinite({"fmul"}) /\ ~MeetsExpZero =>
       Nearest(Place(Out), ExactNum, ExactDen) \/ LosesCarry
  /\ OnFinite({"fdiv"}) /\ ~IsZero(B) =>
       (\E i \in {Place(Out), Place(Out) + 1} : Nearest(i, ExactNum, ExactDen)) \/ LosesCarry
  /\ Did({"fmul", "fdiv"}) /\ ~IsNaN(Out) => Out.sign = Xor(A, B)

(* Both: what fpu.c does with aligning, rounding and aligning again, below *)
(* the smallest normal number and at the largest, against real numbers.    *)
FloatsAreRounded == SumsAreRounded /\ ProductsAreRounded
=============================================================================
