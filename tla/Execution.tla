----------------------------- MODULE Execution -----------------------------
(***************************************************************************)
(* From an expression of a script to its value: the IR the compiler emits  *)
(* for it, the constant folding every function goes through, the code      *)
(* VMBackend selects, and that code run by the VM, one instruction a step. *)
(* A program is a call of an inline method of the math module (kind        *)
(* vector) or an expression on primitive values (kind scalar):             *)
(*   [kind, method, T, same, in] - the method of class<T>; same says that  *)
(*     the argument is the very object it is called on;                    *)
(*   [kind, shape, op, left, right, to] - an operand is [how, tp, v]: a    *)
(*     number in a register, an immediate, in memory (ptr), or loaded from *)
(*     memory before (prop).                                               *)
(***************************************************************************)
EXTENDS MathReference, ExpressionReference

CONSTANT Programs       \* a sequence of sets of programs
VARIABLES program,
          value         \* the value the compiler gives an expression
vars == <<machine, program, value>>

(***************************************************************************)
(* Calls of the math module.  Object o is at Base(o).                      *)
(***************************************************************************)
Base(o) == 32 * o
Cells(o, n) == {Base(o) + k : k \in 0 .. n - 1}
MethodCode(p) == Instantiate(Bound(p.method), p.T)

\* The objects that have a value before the call, their cells in order.
Given(p) ==
    LET object(o, s) == [a \in Cells(o, Len(s)) |-> ToScalar(p.T, s[a - Base(o) + 1])]
        arguments == (IF p.same THEN <<>> ELSE <<p.in.arg>>) \o p.in.others
    IN  object(Self, p.in.self)
        @@ FoldLeft(LAMBDA f, k : f @@ object(Args[k], arguments[k]), << >>,
                    [k \in DOMAIN arguments |-> k])
\* The cells of the objects the call may write to.
Targets(p) ==
    (IF p.method[4] = "self" THEN Cells(Self, Components[p.method[1]]) ELSE {})
    \cup Cells(Result, ResultSize(p.method))
    \cup Cells(Turned, Components[p.method[1]])
    \cup UNION {Cells(Locals[k], 3) : k \in DOMAIN Locals}

MethodRegisters(p) ==
    LET scalar(first, s) == [r \in {<<"f", first + k>> : k \in 0 .. Len(s) - 1} |->
                                Pattern(p.T, s[r[2] - first + 1])]
    IN  [r \in {<<"s", o>> : o \in 1 .. 10} |->
            Base(IF p.same /\ r[2] = Arg THEN Self ELSE r[2])]
        @@ scalar(20, p.in.scalars) @@ scalar(40, p.in.answers)

(***************************************************************************)
(* Expressions.  The variable an operand comes from is at Address(id).     *)
(***************************************************************************)
VariableOf(id) == 32 * id
PointerId(id) == 20 + id
InMemory == {"ptr", "prop"}

ImmediateBits(o) == IF IsFloat(o.tp) THEN ToF64(o.v) ELSE Reg(o.v)
ValueOf(o, id) == CASE o.how = "imm" -> ImmOf(o.tp, ImmediateBits(o))
                    [] o.how = "ptr" -> PtrOf(PointerId(id), o.tp)
                    [] OTHER         -> RegOf(id, o.tp)
\* Where a value that was loaded came from, and the load.
SourceOf(o, id) == IF o.how = "prop" THEN PtrOf(PointerId(id), o.tp) ELSE None
FetchOf(o, id) == IF o.how = "prop" THEN Load(ValueOf(o, id), SourceOf(o, id)) ELSE <<>>

OperandRegisters(o, id) ==
    CASE o.how \in InMemory -> (<<"s", PointerId(id)>> :> VariableOf(id))
      [] o.how = "reg" -> (Place(RegOf(id, o.tp)) :> Pattern(o.tp, o.v))
      [] o.how = "imm" -> << >>
OperandCells(o, id) ==
    IF o.how \in InMemory
    THEN VariableOf(id) :> Low(Info[o.tp].size, Pattern(o.tp, o.v)) ELSE << >>

\* What an expression appends to the function, and its value.
After(before, e) == Emitted(before \o e.irs, e.val)
X(p) == ValueOf(p.left, LeftId)
Y(p) == ValueOf(p.right, RightId)
XSource(p) == SourceOf(p.left, LeftId)
Binary(p, y, assigning) == BinaryOp(p.op, X(p), XSource(p), y, assigning)
\* x op (x = y): the operator asks for x after the assignment.
Late(p, assigned) == After(assigned.irs, Binary(p, assigned.val, FALSE))
Shaped(p) ==
    CASE p.shape \in {"value", "update"} -> Binary(p, Y(p), p.shape = "update")
      [] p.shape = "assign"   -> AssignOp(X(p), XSource(p), Y(p))
      [] p.shape = "unary"    -> UnaryOp(p.op, X(p), XSource(p))
      [] p.shape = "if"       -> Emitted(IfStatement(Emitted(<<>>, X(p))), Taken)
      [] p.shape = "ifBinary" -> Emitted(IfStatement(Binary(p, Y(p), FALSE)), Taken)
      [] p.shape = "cast"     -> ConvertedTo(X(p), p.to, ConvertedId)
      [] p.shape = "late"     -> Late(p, AssignOp(X(p), XSource(p), Y(p)))
Compiled(p) == After(FetchOf(p.left, LeftId) \o FetchOf(p.right, RightId), Shaped(p))

-----------------------------------------------------------------------------
Compilation(p) == IF p.kind = "vector" THEN Emitted(MethodCode(p), None) ELSE Compiled(p)

Init ==
    /\ \E family \in DOMAIN Programs : program \in Programs[family]
    /\ IF program.kind = "vector"
       THEN /\ regs = MethodRegisters(program)
            /\ mem = Given(program)
            /\ cells = DOMAIN Given(program) \cup Targets(program)
       ELSE /\ regs = OperandRegisters(program.left, LeftId)
                      @@ OperandRegisters(program.right, RightId)
            /\ mem = OperandCells(program.left, LeftId) @@ OperandCells(program.right, RightId)
            /\ cells = DOMAIN mem
    /\ code = <<>> /\ ip = 1 /\ strayed = {} /\ status = "idle"
    /\ value = None

\* The compiler divides constants itself, and a division that traps ends it.
Compile ==
    /\ status = "idle"
    /\ \E compiled \in {Compilation(program)} :
          /\ value' = compiled.val
          /\ IF \E k \in DOMAIN compiled.irs : TrapsFolding(compiled.irs[k])
             THEN status' = "crashed" /\ UNCHANGED code
             ELSE status' = "running" /\ code' = Generate(Fold(compiled.irs))
    /\ UNCHANGED <<ip, regs, cells, mem, strayed, program>>

Execute == Step /\ UNCHANGED <<program, value>>

Next == Compile \/ Execute
Spec == Init /\ [][Next]_vars

-----------------------------------------------------------------------------
(***************************************************************************)
(* Properties.                                                             *)
(***************************************************************************)
Ended == status \in {"stopped", "threw", "trapped", "crashed"}
CompletesWell == status = "stopped" /\ strayed = {}

(***************************************************************************)
(* Calls of the math module, and the methods known to go wrong.            *)
(***************************************************************************)
\* The components of the object, or the scalar, a method has produced.
Produced(p) ==
    LET object(o, n) == [k \in 1 .. n |-> Scalar(p.T, Cell(Base(o) + k - 1))]
    IN  CASE p.method[4] = "number" -> <<Scalar(p.T, Get(<<"f", Result>>))>>
          [] p.method[4] = "self"   -> object(Self, Components[p.method[1]])
          [] OTHER                  -> object(Result, ResultSize(p.method))

\* v4set is in no switch of the VM: it throws.
SetsVec4(p) == \E k \in DOMAIN MethodCode(p) :
    LET ir == MethodCode(p)[k]
    IN  ir.op = <<"vec", "set">> /\ ir.o1.tp \in {"vec4f", "vec4d"}
\* vecN -= vecN adds.
Subtracts(m) == m[2] = "-" /\ m[3] = "v" /\ m[4] = "self"
\* A product that is returned overwrites its transposed operand.
ReturnsProduct(m) == m[4] = "returned"
\* A component is stored before it is loaded.
WidensLate(m) == m[3] = "narrower"
\* No instruction sums the products of a quat's components.
DotsQuats(m) == m[1] = "quat" /\ m[2] = "dot"
\* The cross product of vec4, and mat4 * vec3, leave w unset; the latter
\* also reads the cell after the vec3.
LeavesW(m) == m = <<"vec4", "cross", "v", "result">> \/ m[3] = "vec3"
\* The minus signs of orthographic do nothing.
ForgetsSigns(m) == m[2] = "orthographic"

MethodGoesWrong(p) ==
    \/ SetsVec4(p)
    \/ Subtracts(p.method) \/ ReturnsProduct(p.method) \/ WidensLate(p.method)
    \/ DotsQuats(p.method) \/ LeavesW(p.method) \/ ForgetsSigns(p.method)

\* A call of a method gives the mathematical result, in the object or the
\* register it is for, and uses nothing that was not set: with f32 and f64,
\* with an argument of its own and with itself as the argument (in place
\* products read components after they have begun to write them).
VectorsRightApart ==
    program.kind = "vector" /\ Ended =>
        \/ CompletesWell
           /\ Meets(program.method, program.in, Produced(program), program.T)
        \/ MethodGoesWrong(program)

\* No step of a method changes an object it was given and has no business to
\* change, and no step of an expression a variable it does not assign.
Assignable(p) ==
    IF p.kind = "vector" THEN Targets(p)
    ELSE IF p.op \in Assigning \/ p.shape \in {"update", "assign", "late"}
    THEN {VariableOf(LeftId)} ELSE {}
OperandsKept ==
    [][\A a \in DOMAIN mem : mem'[a] # mem[a] => a \in Assignable(program)]_mem

(***************************************************************************)
(* Expressions, and those known to go wrong.                               *)
(***************************************************************************)
\* The number a value of the compiler stands for when the program has run.
Denoted(val) ==
    CASE IsImm(val) -> Meaning(val.tp, IF IsFloat(val.tp) THEN Pattern(val.tp, F64(val.bits))
                                       ELSE val.bits)
      [] val.ptr    -> Meaning(val.tp, Cell(Get(Place(val))))
      [] OTHER      -> Meaning(val.tp, Get(Place(val)))
Variable(p) ==
    Denoted(IF p.left.how = "prop" THEN SourceOf(p.left, LeftId) ELSE ValueOf(p.left, LeftId))

Folded(p) == p.left.how = "imm" /\ p.right.how = "imm"
Compares(p) == p.op \in DOMAIN Relations
Orders(p) == Compares(p) /\ p.op \notin {"eq", "neq"}
\* The result is an integer 0 or 1 in the register of a float.
TruthOfFloats(p) == IsFloat(p.left.tp) /\ ~Folded(p)
                    /\ (Compares(p) \/ p.op \in DOMAIN Logical)
\* && and || with one immediate select instructions that do not exist.
LogicalImmediate(p) == p.op \in DOMAIN Logical /\ (p.left.how = "imm") # (p.right.how = "imm")
\* &, |, ^, << and >> of floats do nothing, and neither does the remainder.
FloatBits(p) == p.op \in DOMAIN BitOps /\ IsFloat(p.left.tp)
DropsRemainder(p) == p.op = "rem" /\ ~Folded(p)
\* -x, !x and ~x are x.
GivesOperand(p) == p.op \in {"negate", "not", "invert"}
\* c < x is compiled as x >= c.
MirrorsOrder(p) == Orders(p) /\ p.left.how = "imm" /\ ~Folded(p)
\* u64 are ordered as i64.
OrdersUnsigned(p) == Orders(p) /\ p.left.tp = "u64" /\ ~Folded(p)
                     /\ 2^(Wide - 1) <= (IF p.left.v > RightValue(p) THEN p.left.v ELSE RightValue(p))
\* >> shifts zeros into a negative number, and ones into a constant u64.
ShiftsWrongBits(p) ==
    p.op = "right" /\ (IF p.left.how = "imm" THEN p.left.v >= 2^(Wide - 1) /\ ~Folded(p)
                       ELSE p.left.v < 0)
\* A condition between -1 and 1 is truncated to false.
TruncatesCondition(p) ==
    LET condition == IF p.shape = "ifBinary" THEN Operation(p) ELSE p.left.v
    IN  p.shape \in {"if", "ifBinary"} /\ IsFloat(p.left.tp) /\ Abs(condition) < OneD
\* A negative number of a small type is loaded as a positive one.
LoadsPositive(o) == /\ o.how \in InMemory /\ o.v < 0
                    /\ ~IsFloat(o.tp) /\ Info[o.tp].size < Wide
WidthMatters(p) == Compares(p) \/ p.op \in {"over", "right"} \/ p.shape \in {"cast", "assign"}
ZeroExtends(p) == WidthMatters(p) /\ (LoadsPositive(p.left) \/ LoadsPositive(p.right))
\* A number is not reduced to its type while it is in a register.
Unreduced(p) ==
    LET whole == IF IsFloat(p.right.tp) THEN ToInt(p.right.v) ELSE p.right.v
    IN  /\ ~IsFloat(p.left.tp) /\ Info[p.left.tp].size < Wide
        /\ \/ Compares(p) /\ whole # RightValue(p)
           \/ /\ p.shape = "ifBinary" /\ p.op \in {"plus", "minus"}
              /\ Operation(p) # Whole(Arithmetic[p.op], p.left.v, RightValue(p))
\* In x - (x = y) both are y.
ReadsLate(p) == p.shape = "late"

ExpressionGoesWrong(p) ==
    \/ TruthOfFloats(p) \/ LogicalImmediate(p) \/ FloatBits(p) \/ DropsRemainder(p)
    \/ GivesOperand(p) \/ MirrorsOrder(p) \/ OrdersUnsigned(p)
    \/ ShiftsWrongBits(p) \/ TruncatesCondition(p) \/ ZeroExtends(p) \/ Unreduced(p) \/ ReadsLate(p)

\* An expression has the value its types give it and leaves it in its left
\* variable when it assigns: the conversions of operands, the folding of
\* constants, the choice of the instruction by type and by which operand is
\* an immediate, and the stores to memory agree with each other.
ScalarsRightApart ==
    program.kind = "scalar" /\ Ended =>
        \/ Undefined(program)
        \/ /\ CompletesWell
           /\ Denoted(value) = ExpectedValue(program)
           /\ Variable(program) = ExpectedVariable(program)
        \/ ExpressionGoesWrong(program)
=============================================================================
