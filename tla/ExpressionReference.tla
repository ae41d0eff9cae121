------------------------ MODULE ExpressionReference ------------------------
(***************************************************************************)
(* What an expression of a script means: numbers have types, the right     *)
(* operand takes the type of the left one and so does the result           *)
(* (genBinaryOp), a number is reduced to its type whenever it is computed, *)
(* and operands are evaluated from left to right.                          *)
(***************************************************************************)
EXTENDS Expressions

NumberOfType(tp, n) == IF IsFloat(tp) THEN FromInt(n) ELSE n
Fit(tp, v) == Meaning(tp, IF IsFloat(tp) THEN Pattern(tp, v) ELSE Low(Info[tp].size, v))

BinaryMeaning(op, tp, a, b) ==
    LET bits(v) == Low(Info[tp].size, v)
    IN  CASE op = "rem" /\ ~IsFloat(tp) -> Fit(tp, Rem(a, b))
          [] op \in DOMAIN Arithmetic /\ ~(op = "rem" /\ ~IsFloat(tp)) ->
                Fit(tp, IF IsFloat(tp) THEN Real(Arithmetic[op], a, b)
                        ELSE Whole(Arithmetic[op], a, b))
          [] op = "bitand" -> Fit(tp, BitAnd(bits(a), bits(b)))
          [] op = "bitor"  -> Fit(tp, BitOr(bits(a), bits(b)))
          [] op = "bitxor" -> Fit(tp, BitXor(bits(a), bits(b)))
          [] op = "left"   -> Fit(tp, a * 2^b)
          [] op = "right"  -> Fit(tp, a \div 2^b)
          [] op = "both"   -> NumberOfType(tp, Truth(a # 0 /\ b # 0))
          [] op = "either" -> NumberOfType(tp, Truth(a # 0 \/ b # 0))
          [] op \in DOMAIN Relations -> NumberOfType(tp, Truth(Holds(Relations[op], a, b)))

\* What is in the variable after a unary operator, and what the operator gives.
Stepped(op, tp, a) ==
    CASE op \in {"preInc", "postInc"} -> Fit(tp, a + NumberOfType(tp, 1))
      [] op \in {"preDec", "postDec"} -> Fit(tp, a - NumberOfType(tp, 1))
      [] OTHER -> a
UnaryMeaning(op, tp, a) ==
    CASE op = "negate" -> Fit(tp, -a)
      [] op = "not"    -> NumberOfType(tp, Truth(a = 0))
      [] op = "invert" -> Fit(tp, -a - 1)
      [] op \in Postfix -> a
      [] OTHER         -> Stepped(op, tp, a)

(***************************************************************************)
(* A program on its operands, which have the values x and y.               *)
(***************************************************************************)
RightValue(p) == Convert(p.right.tp, p.left.tp, p.right.v)
Operation(p) == BinaryMeaning(p.op, p.left.tp, p.left.v, RightValue(p))
Branch(v) == IF v # 0 THEN 1 ELSE 2

ExpectedValue(p) ==
    CASE p.shape \in {"value", "update", "late"} -> Operation(p)
      [] p.shape = "assign"   -> RightValue(p)
      [] p.shape = "unary"    -> UnaryMeaning(p.op, p.left.tp, p.left.v)
      [] p.shape = "if"       -> Branch(p.left.v)
      [] p.shape = "ifBinary" -> Branch(Operation(p))
      [] p.shape = "cast"     -> Convert(p.left.tp, p.to, p.left.v)
ExpectedVariable(p) ==
    CASE p.shape = "update" -> Operation(p)
      [] p.shape \in {"assign", "late"} -> RightValue(p)
      [] p.shape = "unary"  -> Stepped(p.op, p.left.tp, p.left.v)
      [] OTHER -> p.left.v

\* An integer division by zero has no value, nor has the one that overflows.
Undefined(p) == /\ p.op \in {"over", "rem"} /\ ~IsFloat(p.left.tp)
                /\ NoQuotient(p.left.v, RightValue(p))
=============================================================================
