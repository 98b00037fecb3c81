-------------------------------- MODULE Expr ---------------------------------
(***************************************************************************)
(* The expression evaluator of the debugger, monitor/expr.c.  A token is   *)
(* its type; the operands are one number, 0, one register and one symbol   *)
(* that is in the symbol table and one that is not.                        *)
(***************************************************************************)
EXTENDS Alu, Sequences

CONSTANTS ValueOf,      \* the value of each operand token, a uint32_t
          Memory        \* vaddr_read, by address; the addresses below 128M

Binary == {"||", "&&", "==", "!=", "+", "-", "*", "/"}
Unary == {"NEG", "POT", "!"}
OperandTokens == {"NUM", "ZERO", "REG", "SYMB"}
Tokens == Binary \cup {"!", "(", ")", "UNKNOWN"} \cup OperandTokens

ASSUME ExprAssumption ==
  /\ ValueOf \in [OperandTokens -> 0 .. Word - 1]
  /\ DOMAIN Memory \subseteq 0 .. Word - 1
-----------------------------------------------------------------------------
(* expr() first marks the signs that have one operand: the first token, or *)
(* a sign before a parenthesis, number or symbol that follows an operator. *)
(* A marked sign counts as an operator for the next one only where the     *)
(* lists of the code name it.  The last token is not looked at.            *)
Follows(t) == Binary \cup {"(", "!"} \cup (IF t = "*" THEN {"NEG"} ELSE {})

Starts == {"(", "NUM", "SYMB", "UNKNOWN"}

Mark(tokens) ==
  LET m[i \in 0 .. Len(tokens)] ==
        IF i = 0 THEN <<>>
        ELSE LET t == tokens[i]
                 one == /\ t \in {"*", "-"} /\ i < Len(tokens)
                        /\ i = 1 \/ (tokens[i + 1] \in Starts /\ m[i - 1][i - 1] \in Follows(t))
             IN Append(m[i - 1], IF one THEN IF t = "*" THEN "POT" ELSE "NEG" ELSE t)
  IN m[Len(tokens)]

Count(tokens, t, p, q) == LET f[i \in p - 1 .. q] == IF i < p THEN 0 ELSE f[i - 1] + (IF tokens[i] = t THEN 1 ELSE 0)
                          IN f[q]

check_parentheses(tokens, p, q) ==
  /\ tokens[p] = "(" /\ tokens[q] = ")"
  /\ \A i \in p + 1 .. q - 1 : Count(tokens, "(", p + 1, i) >= Count(tokens, ")", p + 1, i)
  /\ Count(tokens, "(", p + 1, q - 1) = Count(tokens, ")", p + 1, q - 1)

priority(t) ==
  CASE t = "||" -> 1 [] t = "&&" -> 2 [] t \in {"==", "!="} -> 3 [] t \in {"+", "-"} -> 4
    [] t \in {"*", "/"} -> 5 [] t \in Unary -> 6

(* The operators outside of parentheses, and the last of those that bind   *)
(* least.                                                                  *)
Outside(tokens, p, q) ==
  {i \in p .. q : tokens[i] \in Binary \cup Unary /\
                  Count(tokens, "(", p, i) = Count(tokens, ")", p, i)}

DominatesFirst(tokens, i, j) ==  \* mutated form: < in place of <=
  \/ priority(tokens[i]) < priority(tokens[j])
  \/ priority(tokens[i]) = priority(tokens[j]) /\ i <= j

Dominates(tokens, i, j) ==
  \/ priority(tokens[i]) < priority(tokens[j])
  \/ priority(tokens[i]) = priority(tokens[j]) /\ i >= j

dominant(tokens, ops) == CHOOSE i \in ops : \A j \in ops : Dominates(tokens, i, j)
-----------------------------------------------------------------------------
Failed == [ok |-> FALSE, val |-> Word - 1]
Value(v) == [ok |-> TRUE, val |-> v % Word]
Truth(b) == Value(IF b THEN 1 ELSE 0)

Apply1(op, v) ==
  CASE op = "NEG" -> Value(-v)
    [] op = "!" -> Truth(v = 0)
    [] op = "POT" -> IF v \in DOMAIN Memory THEN Value(Memory[v]) ELSE Failed

Apply2(op, v1, v2) ==
  CASE op = "+" -> Value(v1 + v2) [] op = "-" -> Value(v1 - v2) [] op = "*" -> Value(v1 * v2)
    [] op = "/" -> IF v2 = 0 THEN Failed ELSE Value(v1 \div v2)
    [] op = "==" -> Truth(v1 = v2) [] op = "!=" -> Truth(v1 # v2)
    [] op = "&&" -> Truth(v1 # 0 /\ v2 # 0) [] op = "||" -> Truth(v1 # 0 \/ v2 # 0)

(* eval(p, q): a single operand, a parenthesised expression, or the        *)
(* dominant operator with what is on its sides.  Whatever stands before an *)
(* operator with one operand is not looked at.                             *)
RECURSIVE eval(_, _, _)
eval(tokens, p, q) ==
  IF p > q THEN Failed
  ELSE IF p = q THEN IF tokens[p] \in OperandTokens THEN Value(ValueOf[tokens[p]]) ELSE Failed
  ELSE IF check_parentheses(tokens, p, q) THEN eval(tokens, p + 1, q - 1)
  ELSE LET ops == Outside(tokens, p, q)
           op == dominant(tokens, ops)
           v2 == eval(tokens, op + 1, q)
           v1 == IF tokens[op] \in Unary THEN Value(0) ELSE eval(tokens, p, op - 1)
       IN IF ops = {} \/ Count(tokens, "(", p, q) # Count(tokens, ")", p, q) THEN Failed
          ELSE IF ~v1.ok \/ ~v2.ok THEN Failed
          ELSE IF tokens[op] \in Unary THEN Apply1(tokens[op], v2.val)
          ELSE Apply2(tokens[op], v1.val, v2.val)

expr(tokens) == eval(Mark(tokens), 1, Len(tokens))
=============================================================================
