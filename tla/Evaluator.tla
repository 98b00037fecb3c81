----------------------------- MODULE Evaluator -------------------------------
(***************************************************************************)
(* The evaluator of monitor/expr.c on every expression tree of depth 2,    *)
(* written with the parentheses that it needs; asked beside the            *)
(* instructions, which are computed from their operands alone as it is.    *)
(***************************************************************************)
EXTENDS Instructions, Expr

CONSTANT Leaves      \* the operands of the trees

Leaf(o) == [op |-> o, kids |-> <<>>]
Grow(trees) == trees
  \cup {[op |-> o, kids |-> <<t>>] : o \in Unary, t \in trees}
  \cup {[op |-> o, kids |-> <<l, r>>] : o \in Binary, l, r \in trees}
Trees == Grow(Grow({Leaf(o) : o \in Leaves}))

Symbol(op) == CASE op = "NEG" -> "-" [] op = "POT" -> "*" [] OTHER -> op
InParentheses(text) == <<"(">> \o text \o <<")">>

(* The operators as a C programmer reads them, from what binds least; the  *)
(* signs with one operand bind most.  The evaluator's own table is         *)
(* priority, in Expr, and is not asked here.                               *)
Tiers == <<{"||"}, {"&&"}, {"==", "!="}, {"+", "-"}, {"*", "/"}, Unary>>
Binds == [o \in Binary \cup Unary |-> CHOOSE i \in DOMAIN Tiers : o \in Tiers[i]]

(* Parentheses go around what binds less, around an equal on the right,    *)
(* and around the operand of a sign unless it is a number or a symbol: two *)
(* signs in a row, or a sign before 0 or a register, are not understood.   *)
RECURSIVE Text(_)
Text(t) ==
  LET Kid(k, bare) == IF bare THEN Text(k) ELSE InParentheses(Text(k))
  IN IF t.kids = <<>> THEN <<t.op>>
     ELSE IF t.op \in Unary
     THEN <<Symbol(t.op)>> \o Kid(t.kids[1], t.kids[1].op \in OperandTokens /\
                                    (t.op = "!" \/ t.kids[1].op \in Starts))
     ELSE LET Bare(k, least) == k.kids = <<>> \/ Binds[k.op] >= least
          IN Kid(t.kids[1], Bare(t.kids[1], Binds[t.op])) \o <<t.op>>
             \o Kid(t.kids[2], Bare(t.kids[2], Binds[t.op] + 1))

RECURSIVE Meaning(_)
Meaning(t) ==
  IF t.kids = <<>> THEN Value(ValueOf[t.op])
  ELSE LET m == [i \in 1 .. Len(t.kids) |-> Meaning(t.kids[i])]
       IN IF \E i \in DOMAIN m : ~m[i].ok THEN Failed
          ELSE IF Len(m) = 1 THEN Apply1(t.op, m[1].val) ELSE Apply2(t.op, m[1].val, m[2].val)

Evaluate == \E t \in Trees : Run("p", {}, t, <<>>, 0, expr(Text(t)))
-----------------------------------------------------------------------------
(* An expression has the value of its tree: precedence, association to the *)
(* left, signs with one operand, wrap-around, and failure exactly where a  *)
(* division by 0 or a bad address is in it (eval, with the marks of expr). *)
TreesMeanWhatTheySay == Did({"p"}) => Out = Meaning(last.src)
=============================================================================
