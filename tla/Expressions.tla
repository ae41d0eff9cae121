---------------------------- MODULE Expressions ----------------------------
(***************************************************************************)
(* The operators of compiler::Value: the IR that an operation on primitive *)
(* values appends to the function, and the value it gives back.  A value   *)
(* is an immediate, a register, or a register that holds the address of a  *)
(* variable; src is the address a loaded value came from (m_srcPtr), where *)
(* an assignment to it must be stored.  Then the constant folding every    *)
(* function goes through.                                                  *)
(***************************************************************************)
EXTENDS Instructions

Emitted(irs, val) == [irs |-> irs, val |-> val]
Equivalent(a, b) == Info[a] = Info[b]          \* DataType::isEquivalentTo

\* Registers of a program: its operands, and those the operators allocate.
LeftId == 1
RightId == 2
OutId == 3
ConvertedId == 4
LoadedId == 6
BooleanId == 8

Load(to, ptr) == <<Ir(<<"mem", "load">>, to, ptr, None)>>
StoreTo(val, ptr) == IF ptr = None THEN <<>> ELSE <<Ir(<<"mem", "store">>, val, ptr, None)>>
Assign(to, from) == <<Ir(<<"any", "assign">>, to, from, None)>>

\* Value::operator*: a pointer is loaded into a new register.
Deref(v, id) == Emitted(Load(RegOf(id, v.tp), v), RegOf(id, v.tp))

(***************************************************************************)
(* Value::convertedTo.  An immediate is converted at once, between fp      *)
(* types of two sizes excepted; the switches over the size of the target   *)
(* have no break, so every immediate ends as the 64 bit number.            *)
(***************************************************************************)
ImmAs(v, tp) ==
    CASE IsFloat(v.tp) /\ ~IsFloat(tp) -> ImmOf(tp, Reg(ToInt(F64(v.bits))))
      [] ~IsFloat(v.tp) /\ IsFloat(tp) -> ImmOf(tp, ToF64(FromInt(WholeOf(v))))
      [] OTHER -> ImmOf(tp, v.bits)

ConvertedTo(v, tp, id) ==
    LET to == RegOf(id, tp)
        from == Deref(v, id + 1)
        cvt(o) == <<Ir(<<"any", "cvt">>, to, o, None)>>
    IN  CASE Equivalent(tp, v.tp) /\ v.ptr -> from
          [] Equivalent(tp, v.tp) /\ ~v.ptr -> Emitted(<<>>, v)
          [] ~Equivalent(tp, v.tp) /\ v.ptr -> Emitted(from.irs \o cvt(from.val), to)
          [] ~Equivalent(tp, v.tp) /\ IsImm(v) /\ ~(IsFloat(tp) /\ IsFloat(v.tp)) ->
                Emitted(<<>>, ImmAs(v, tp))
          [] OTHER -> Emitted(cvt(v), to)

(***************************************************************************)
(* Which operation an operator is for a type.                              *)
(***************************************************************************)
ClassOf(tp) == IF IsFloat(tp) THEN (IF tp = "f64" THEN "dbl" ELSE "flt")
               ELSE IF IsUnsigned(tp) THEN "uint" ELSE "int"
Arithmetic == [plus |-> "add", minus |-> "sub", times |-> "mul", over |-> "div", rem |-> "mod"]
BitOps == [bitand |-> "band", bitor |-> "bor", bitxor |-> "xor", left |-> "sl", right |-> "sr"]
Logical == [both |-> "land", either |-> "lor"]
Relations == [lt |-> "lt", lte |-> "lte", gt |-> "gt", gte |-> "gte", eq |-> "cmp", neq |-> "ncmp"]
Noop == <<"any", "noop">>

BinaryIr(op, tp) ==
    CASE op \in DOMAIN Arithmetic -> <<ClassOf(tp), Arithmetic[op]>>
      [] op \in DOMAIN Relations  -> <<ClassOf(tp), Relations[op]>>
      [] op \in DOMAIN Logical    -> <<"bit", Logical[op]>>
      [] op \in DOMAIN BitOps     -> IF IsFloat(tp) THEN Noop ELSE <<"bit", BitOps[op]>>
UnaryIr(op, tp) ==
    CASE op = "negate" -> IF IsFloat(tp) \/ ~IsUnsigned(tp) THEN <<ClassOf(tp), "neg">> ELSE Noop
      [] op = "not"    -> <<"any", "not">>
      [] op = "invert" -> IF IsFloat(tp) THEN Noop ELSE <<"any", "inv">>
      [] op \in {"preInc", "postInc"} -> <<ClassOf(tp), "inc">>
      [] op \in {"preDec", "postDec"} -> <<ClassOf(tp), "dec">>

(***************************************************************************)
(* genBinaryOp.  The right operand takes the type of the left one, and so  *)
(* does the result, of comparisons too.                                    *)
(***************************************************************************)
Applied(op, self, to, left, right, ptr) ==
    Emitted(right.irs \o left.irs
                \o <<Ir(BinaryIr(op, self.tp), to, left.val, right.val)>> \o StoreTo(to, ptr), to)
BinaryOp(op, self, src, rhs, assigning) ==
    Applied(op, self,
            IF assigning /\ ~self.ptr THEN self ELSE RegOf(OutId, self.tp),
            IF self.ptr THEN Deref(self, LoadedId) ELSE Emitted(<<>>, self),
            ConvertedTo(rhs, self.tp, ConvertedId),
            IF assigning THEN (IF self.ptr THEN self ELSE src) ELSE None)
AssignOp(self, src, rhs) ==
    LET right == ConvertedTo(rhs, self.tp, ConvertedId)
    IN  IF self.ptr THEN Emitted(right.irs \o StoreTo(right.val, self), right.val)
        ELSE Emitted(right.irs \o Assign(self, right.val) \o StoreTo(self, src), self)

(***************************************************************************)
(* genUnaryOp.  -, ! and ~ write the result and then assign the operand    *)
(* over it.                                                                *)
(***************************************************************************)
Assigning == {"preInc", "postInc", "preDec", "postDec"}
Postfix == {"postInc", "postDec"}
UnaryOp(op, self, src) ==
    LET out == RegOf(OutId, self.tp)
        v == IF self.ptr THEN Deref(self, LoadedId) ELSE Emitted(<<>>, self)
        inst == UnaryIr(op, self.tp)
    IN  Emitted(v.irs
                    \o (IF op \in Postfix THEN Assign(out, v.val) ELSE <<>>)
                    \o (IF op \in Assigning THEN <<Ir(inst, v.val, None, None)>>
                        ELSE <<Ir(inst, out, v.val, None)>>)
                    \o (IF op \in Postfix THEN <<>> ELSE Assign(out, v.val))
                    \o (IF op \in Assigning THEN StoreTo(v.val, IF self.ptr THEN self ELSE src)
                        ELSE <<>>),
                out)

(***************************************************************************)
(* compileIfStatement, its two bodies assigning a register.  A condition   *)
(* known to the compiler is decided there.                                 *)
(***************************************************************************)
Taken == RegOf(9, "i64")
Yes == Assign(Taken, ImmOf("i64", 1))
No == Assign(Taken, ImmOf("i64", 2))
LabelAt(k) == [None EXCEPT !.kind = "label", !.id = k]
Branching(before, test) ==
    LET label == <<Ir(<<"any", "label">>, None, None, None)>>
        to(k) == LabelAt(Len(before) + k)
    IN  before \o <<Ir(<<"any", "branch">>, test, to(2), to(5))>>
        \o label \o Yes \o <<Ir(<<"any", "jump">>, to(7), None, None)>>
        \o label \o No \o label
Tested(cond, test) == Branching(cond.irs \o test.irs, test.val)
IfStatement(cond) ==
    IF IsImm(cond.val) THEN cond.irs \o (IF cond.val.bits # 0 THEN Yes ELSE No)
    ELSE Tested(cond, ConvertedTo(cond.val, "boolean", BooleanId))

(***************************************************************************)
(* ConstantFoldingStep: an operation on immediates becomes the assignment  *)
(* of its result, computed in f64, u64 or i64; the type of the result is   *)
(* the type of the first operand, boolean for comparisons.                 *)
(***************************************************************************)
NumberOf(o) == IF IsFloat(o.tp) THEN F64(o.bits) ELSE WholeOf(o)
Bitwise2(fn, a, b) ==
    CASE fn = "band" -> BitAnd(a.bits, b.bits)
      [] fn = "bor"  -> BitOr(a.bits, b.bits)
      [] fn = "xor"  -> BitXor(a.bits, b.bits)
      [] fn = "sl"   -> a.bits * 2^(b.bits % Wide)
      [] fn = "sr"   -> WholeOf(a) \div 2^(b.bits % Wide)
FoldedResult(ir) ==
    LET fn == ir.op[2]
        a == NumberOf(ir.o2)
        b == NumberOf(ir.o3)
        same(number) == ImmOf(ir.o2.tp, number)
    IN  CASE fn \in Comparisons -> ImmOf("boolean", Truth(Holds(fn, a, b)))
          [] fn = "land" -> ImmOf("boolean", Truth(a # 0 /\ b # 0))
          [] fn = "lor"  -> ImmOf("boolean", Truth(a # 0 \/ b # 0))
          [] fn \in {"band", "bor", "xor", "sl", "sr"} -> same(Reg(Bitwise2(fn, ir.o2, ir.o3)))
          [] fn \notin Comparisons /\ IsFloat(ir.o2.tp) -> same(ToF64(Real(fn, a, b)))
          [] fn = "mod" /\ ~IsFloat(ir.o2.tp) -> same(Reg(Rem(a, b)))
          [] OTHER -> same(Reg(Whole(fn, a, b)))
FoldedUnary(ir) ==
    LET a == NumberOf(ir.o2)
    IN  CASE ir.op[2] = "neg" -> ImmOf(ir.o2.tp, IF IsFloat(ir.o2.tp) THEN ToF64(-a) ELSE Reg(-a))
          [] ir.op[2] = "not" -> ImmOf("boolean", Truth(a = 0))
          [] ir.op[2] = "inv" -> ImmOf(ir.o2.tp, Reg(-(ir.o2.bits) - 1))

FoldsBinary(ir) == /\ ir.op[1] \in {"int", "uint", "flt", "dbl", "bit"}
                   /\ IsImm(ir.o2) /\ IsImm(ir.o3)
FoldsUnary(ir) == /\ ir.op[2] \in {"neg", "not", "inv"}
                  /\ IsImm(ir.o2) /\ ir.o3 = None
FoldOne(ir) == CASE FoldsBinary(ir) -> Assign(ir.o1, FoldedResult(ir))[1]
                 [] FoldsUnary(ir)  -> Assign(ir.o1, FoldedUnary(ir))[1]
                 [] OTHER           -> ir
Fold(irs) == [k \in DOMAIN irs |-> FoldOne(irs[k])]
\* The division is done by the compiler, and so is the trap.
TrapsFolding(ir) ==
    /\ FoldsBinary(ir) /\ ir.op[1] \in {"int", "uint"} /\ ir.op[2] \in {"div", "mod"}
    /\ NoQuotient(NumberOf(ir.o2), NumberOf(ir.o3))
=============================================================================
