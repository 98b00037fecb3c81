--------------------------- MODULE MCComputations ----------------------------
(* Registers and operand tokens with different values, so that no two      *)
(* name the same by accident, and a memory whose words are not their own   *)
(* addresses.                                                              *)
EXTENDS Computations
MCGpr == [r \in 0 .. 7 |-> 27 * r + 40]
MCValueOf == [o \in OperandTokens |->
  CASE o = "NUM" -> 3 [] o = "ZERO" -> 0 [] o = "REG" -> 14 [] o = "SYMB" -> 5]
MCLoaded == {Zero(0), [sign |-> 0, exponent |-> 3, fraction |-> 5], [sign |-> 1, exponent |-> 4, fraction |-> 9],
             [sign |-> 0, exponent |-> 1, fraction |-> 15]}
MCText == [vaddr |-> 16, file |-> <<3, 1, 2, 0, 1>>, memsz |-> 5]
MCLayouts ==  \* data on a page of its own, and beginning in the last one of the text
  {<<MCText, [vaddr |-> 25, file |-> <<2, 3>>, memsz |-> 5]>>,
   <<MCText, [vaddr |-> 22, file |-> <<3, 1, 3>>, memsz |-> 4]>>}
MCCopies == [from : {16, 18}, to : {48, 51, 80, 82}, count : 0 .. 3]
MCMemory == [a \in 0 .. 31 |-> (5 * a + 2) % 256]
=============================================================================
