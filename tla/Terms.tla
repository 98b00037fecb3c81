-------------------------------- MODULE Terms ---------------------------------
(***************************************************************************)
(* Terms of a compiled program on the register stack of the FPU, and its   *)
(* comparison.                                                             *)
(***************************************************************************)
EXTENDS Instructions, X87

CONSTANT Loaded    \* floating point values that are loaded

(* Terms as a compiler evaluates them on the register stack; of a          *)
(* difference and a quotient, the second operand comes from memory.        *)
Term1 == [op : {"load"}, val : Loaded]
Term(terms) == terms \cup [op : {"add", "mul"}, l : terms, r : terms, swap : BOOLEAN]
                     \cup [op : {"fsub", "fdiv"}, l : terms, val : Loaded]
Terms == Term(Term(Term1))

RECURSIVE OnStack(_, _), TermValue(_)
OnStack(t, f) ==
  CASE t.op = "load" -> fpu_load(f, t.val)
    [] t.op = "fsub" -> fpu_sub(OnStack(t.l, f), t.val)
    [] t.op = "fdiv" -> fpu_div(OnStack(t.l, f), t.val)
    [] OTHER ->
         LET both == IF t.swap THEN fpu_xch(OnStack(t.l, OnStack(t.r, f)), 1)
                     ELSE OnStack(t.r, OnStack(t.l, f))
         IN IF t.op = "add" THEN faddp(both, 1) ELSE fstp(fmull(both, 1), 0)
TermValue(t) ==
  CASE t.op = "load" -> t.val
    [] t.op = "fsub" -> internal_float_sub(t.val, TermValue(t.l))
    [] t.op = "fdiv" -> internal_float_div(t.val, TermValue(t.l))
    [] t.op = "add" -> internal_float_add(TermValue(t.l), TermValue(t.r))
    [] t.op = "mul" -> internal_float_mul(TermValue(t.l), TermValue(t.r))

FpuBefore == [top |-> 2, regStack |-> [i \in 0 .. Ring - 1 |-> [Zero(0) EXCEPT !.fraction = i + 1]]]
FpuTerm == \E t \in Terms : Run("term", {}, t, FpuBefore, 0, OnStack(t, FpuBefore))
FpuCompare == \E a, b \in Floats :
  Run("fucompp", {}, b, a, 0, fucompp(fpu_load(fpu_load(FpuBefore, b), a)))
-----------------------------------------------------------------------------
(* A term leaves its value on the register stack and nothing else; a       *)
(* comparison leaves nothing, and its bits say how numbers compare.        *)
FpuStackUnwinds ==
  /\ Did({"term"}) => /\ fpu_store(Out).top = last.dest.top
                      /\ Top0(Out) = TermValue(last.src)
                      /\ \A i \in 0 .. 2 : Out.regStack[St(last.dest, i)] = last.dest.regStack[St(last.dest, i)]
  /\ Did({"fucompp"}) =>
       /\ Out.fpu.top = FpuBefore.top
       /\ Finite(last.dest) /\ Finite(last.src) =>
            /\ Out.status.c0 = 1 <=> Of(last.dest) < Of(last.src)
            /\ Out.status.c3 = 1 <=> Of(last.dest) = Of(last.src)
=============================================================================
