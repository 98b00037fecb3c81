--------------------------------- MODULE X87 ---------------------------------
(***************************************************************************)
(* The register stack of the floating point unit: the ends of cpu/fpu.c    *)
(* and the instructions of cpu/instr/x87.c that reach them.  The stack is  *)
(* a ring of eight registers; nothing watches over it overflowing.         *)
(***************************************************************************)
EXTENDS Fpu

Ring == 8
St(f, idx) == (f.top + idx) % Ring
Top0(f) == f.regStack[f.top]

fpu_load(f, val) ==
  LET top == IF f.top = 0 THEN Ring - 1 ELSE f.top - 1
  IN [f EXCEPT !.top = top, !.regStack[top] = val]
fpu_store(f) == [f EXCEPT !.top = (@ + 1) % Ring]   \* its answer is Top0(f)

(* op is one of the internal_float operations, which take b before a.      *)
With(f, op(_, _), val) == [f EXCEPT !.regStack[f.top] = op(val, @)]
fpu_add(f, val) == With(f, internal_float_add, val)
fpu_sub(f, val) == With(f, internal_float_sub, val)
fpu_mul(f, val) == With(f, internal_float_mul, val)
fpu_div(f, val) == With(f, internal_float_div, val)

AddIntoTop(f, idx, store_idx) ==  \* mutated form: the sum goes to the top
  [f EXCEPT !.regStack[f.top] = internal_float_add(f.regStack[St(f, idx)], Top0(f))]

fpu_add_idx(f, idx, store_idx) ==
  [f EXCEPT !.regStack[St(f, store_idx)] = internal_float_add(f.regStack[St(f, idx)], Top0(f))]
fpu_mul_idx(f, idx, store_idx) ==
  [f EXCEPT !.regStack[St(f, store_idx)] = internal_float_mul(f.regStack[St(f, idx)], Top0(f))]

fpu_xch(f, idx) ==
  [f EXCEPT !.regStack = [@ EXCEPT ![f.top] = f.regStack[St(f, idx)], ![St(f, idx)] = Top0(f)]]
fpu_copy(f, idx) == [f EXCEPT !.regStack[St(f, idx)] = Top0(f)]

(* fpu_cmp and fpu_cmpi: the answer goes to c0, c2, c3 or to CF, PF, ZF.   *)
(* The host compares; a NaN is neither above nor below and counts equal.   *)
Key(x) == (IF x.sign = 1 THEN -1 ELSE 1) * (x.exponent * Hidden + x.fraction)
Unordered(x) == x.exponent = MaxExp /\ x.fraction # 0
fpu_cmp(f, idx) ==
  LET a == Top0(f)  b == f.regStack[St(f, idx)]
      known == ~Unordered(a) /\ ~Unordered(b)
  IN [c0 |-> IF known /\ Key(a) < Key(b) THEN 1 ELSE 0, c2 |-> 0,
      c3 |-> IF known /\ Key(a) # Key(b) THEN 0 ELSE 1]
-----------------------------------------------------------------------------
(* The instructions that pop.                                              *)
faddp(f, idx) == fpu_store(fpu_add_idx(f, idx, idx))
fmull(f, idx) == fpu_mul_idx(f, idx, idx)
fstp(f, idx) == fpu_store(fpu_copy(f, idx))
fucompp(f) == [fpu |-> fpu_store(fpu_store(f)), status |-> fpu_cmp(f, 1)]
=============================================================================
