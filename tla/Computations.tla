---------------------------- MODULE Computations -----------------------------
(***************************************************************************)
(* One computation on one of its inputs: an instruction, a term, or an     *)
(* expression given to the debugger, none of which reads more than its     *)
(* operands, so that one step reaches everything they do; or a guest that  *)
(* executes instructions one after another.                                *)
(***************************************************************************)
EXTENDS Terms, Execution, Evaluator, Paging

Init == last = Nothing /\ ProgramInit /\ PagingInit

NotExecuted == left = Budget /\ string = NoString
NotPaged == segments = <<>> /\ stored.count = 0

Compute ==
  /\ last = Nothing /\ NotExecuted /\ NotPaged
  /\ IntegerStep \/ FloatOp \/ FpuTerm \/ FpuCompare \/ Evaluate
  /\ UNCHANGED <<programVars, pageVars>>

Execute == last = Nothing /\ NotPaged /\ ProgramStep /\ UNCHANGED <<last, pageVars>>

MapOrAccess == last = Nothing /\ NotExecuted /\ PagingStep /\ UNCHANGED <<last, programVars>>

Next == MapOrAccess \/ Compute \/ Execute

Spec == Init /\ [][Next]_<<last, programVars, pageVars>>
=============================================================================
