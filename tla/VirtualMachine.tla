--------------------------- MODULE VirtualMachine ---------------------------
(***************************************************************************)
(* VM::executeInternal: a register machine whose registers and memory are  *)
(* untyped patterns.  An instruction is [cls, fn, form, tp, a, b, c, imm]: *)
(* the mnemonic is split into the class that fixes how operands are read   *)
(* (int, uint, flt, dbl, bit, icmp, fcmp, dcmp, cvt, vec, ...), what it    *)
(* does, and its form (rr: two registers, ri: immediate on the right, ir:  *)
(* immediate on the left; for vectors v, s, si).  A cell of memory is one  *)
(* scalar; an address that was never stored to reads as Leftover and is    *)
(* recorded in strayed, and so is a register nothing was written to.       *)
(***************************************************************************)
EXTENDS Numbers

CONSTANTS Leftover,     \* what an unset register or cell happens to hold
          StackPadding  \* the addresses behind the stack, as entry found it

VARIABLES code,         \* the instructions of the function
          ip,           \* the next instruction
          regs,         \* the patterns of the registers that were set
          cells,        \* the addresses that belong to some object
          mem,          \* the patterns of the cells that were set
          strayed,      \* what was read before it was set, or is no cell
          status        \* idle, running, stopped, threw or trapped
machine == <<code, ip, regs, cells, mem, strayed, status>>

Zero == <<"zero", 0>>
Get(r) == IF r = Zero THEN 0 ELSE IF r \in DOMAIN regs THEN regs[r] ELSE Leftover
Having(f, x, v) == [y \in DOMAIN f \cup {x} |-> IF y = x THEN v ELSE f[y]]

instr == code[ip]

Instr(cls, fn, form, a, b, c, imm) ==
    [cls |-> cls, fn |-> fn, form |-> form, tp |-> "none",
     a |-> a, b |-> b, c |-> c, imm |-> imm]

(***************************************************************************)
(* How a class of instructions reads and writes a register, and its        *)
(* immediate: a float immediate is kept as an f64 whatever reads it.       *)
(***************************************************************************)
Read(cls, p) ==
    CASE cls \in {"int", "icmp"} -> I64(p)
      [] cls \in {"uint", "bit"} -> p
      [] cls \in {"flt", "fcmp"} -> F32(p)
      [] cls \in {"dbl", "dcmp"} -> F64(p)
ReadImm(cls, p) ==
    IF cls \in {"flt", "fcmp"} THEN F32(ToF32(F64(p))) ELSE Read(cls, p)
Write(cls, old, v) ==
    CASE cls = "flt" -> WithF32(old, v)
      [] cls = "dbl" -> ToF64(v)
      [] OTHER       -> Reg(v)

Left(cls) == IF instr.form = "ir" THEN ReadImm(cls, instr.imm) ELSE Read(cls, Get(instr.b))
Right(cls) == CASE instr.form = "rr" -> Read(cls, Get(instr.c))
                [] instr.form = "ri" -> ReadImm(cls, instr.imm)
                [] instr.form = "ir" -> Read(cls, Get(instr.b))
Sources == IF instr.form = "rr" THEN {instr.b, instr.c} ELSE {instr.b}

StrayRegisters(rs) == IF rs \subseteq DOMAIN regs \cup {Zero} THEN {} ELSE {"register"}
StrayReads(as) == IF as \subseteq DOMAIN mem THEN {} ELSE {"read"}
StrayWrites(as) == IF as \subseteq cells THEN {} ELSE {"write"}

Cell(a) == IF a \in DOMAIN mem THEN mem[a] ELSE Leftover
Running == status = "running" /\ ip \in 1 .. Len(code)
Put(r, p) == regs' = Having(regs, r, p)
Advance == /\ ip' = ip + 1
           /\ UNCHANGED <<code, cells, status>>

(***************************************************************************)
(* Loads and stores.  A load extends with zeros whatever the type.  An     *)
(* access behind the end of the stack is thrown out.                       *)
(***************************************************************************)
Bits(form) == CASE form = "8" -> Narrow [] form = "32" -> Single [] form = "64" -> Wide
Address == Reg(Get(instr.b) + instr.imm)

Throw == /\ status' = "threw"
         /\ UNCHANGED <<code, ip, regs, cells, mem, strayed>>

LoadStep ==
    /\ Running /\ instr.cls = "ld"
    /\ IF Address \in StackPadding
       THEN Throw
       ELSE /\ Put(instr.a, Low(Bits(instr.form), Cell(Address)))
            /\ strayed' = strayed \cup StrayRegisters({instr.b}) \cup StrayReads({Address})
            /\ UNCHANGED mem
            /\ Advance

StoreStep ==
    /\ Running /\ instr.cls = "st"
    /\ IF Address \in StackPadding
       THEN Throw
       ELSE /\ mem' = Having(mem, Address, Low(Bits(instr.form), Get(instr.a)))
            /\ strayed' = strayed \cup StrayRegisters({instr.a, instr.b}) \cup StrayWrites({Address})
            /\ UNCHANGED regs
            /\ Advance

\* mtfp and mffp copy the bits of a register to one of the other kind.
MoveStep ==
    /\ Running /\ instr.cls = "move"
    /\ Put(instr.b, Get(instr.a))
    /\ strayed' = strayed \cup StrayRegisters({instr.a})
    /\ UNCHANGED mem
    /\ Advance

(***************************************************************************)
(* Arithmetic.  An integer division by zero, or of the least i64 by -1,    *)
(* ends the process.                                                       *)
(***************************************************************************)
Whole(fn, x, y) == CASE fn = "add" -> x + y
                     [] fn = "sub" -> x - y
                     [] fn = "mul" -> x * y
                     [] fn = "div" -> Quot(x, y)
                     [] fn = "neg" -> -x
Real(fn, x, y) == CASE fn = "add" -> FAdd(x, y)
                    [] fn = "sub" -> FSub(x, y)
                    [] fn = "mul" -> FMul(x, y)
                    [] fn = "div" -> FDiv(x, y)
                    [] fn = "mod" -> FMod(x, y)
                    [] fn = "neg" -> -x

Trap == /\ status' = "trapped"
        /\ UNCHANGED <<code, ip, regs, cells, mem, strayed>>

NoQuotient(x, y) == y = 0 \/ QuotOverflows(x, y)

WholeStep(cls) ==
    /\ Running /\ instr.cls = cls
    /\ IF instr.fn = "div" /\ NoQuotient(Left(cls), Right(cls))
       THEN Trap
       ELSE /\ Put(instr.a, Write(cls, Get(instr.a), Whole(instr.fn, Left(cls), Right(cls))))
            /\ strayed' = strayed \cup StrayRegisters(Sources)
            /\ UNCHANGED mem
            /\ Advance

RealStep(cls) ==
    /\ Running /\ instr.cls = cls
    /\ Put(instr.a, Write(cls, Get(instr.a), Real(instr.fn, Left(cls), Right(cls))))
    /\ strayed' = strayed \cup StrayRegisters(Sources)
    /\ UNCHANGED mem
    /\ Advance

IntStep == WholeStep("int")
UintStep == WholeStep("uint")
FloatStep == RealStep("flt")
DoubleStep == RealStep("dbl")

(***************************************************************************)
(* Bits.  The shifts right are shifts of u64; a count is taken modulo the  *)
(* width, as the processor does.  andi and ori have no case.               *)
(***************************************************************************)
BitForms == {<<fn, "rr">> : fn \in {"land", "lor", "band", "bor", "xor", "sl", "sr"}}
       \cup {<<fn, "ri">> : fn \in {"band", "bor", "xor", "sl", "sr"}}
       \cup {<<fn, "ir">> : fn \in {"sl", "sr"}}

BitFn(fn, x, y) ==
    CASE fn = "land" -> Truth(x # 0 /\ y # 0)
      [] fn = "lor"  -> Truth(x # 0 \/ y # 0)
      [] fn = "band" -> BitAnd(x, y)
      [] fn = "bor"  -> BitOr(x, y)
      [] fn = "xor"  -> BitXor(x, y)
      [] fn = "sl"   -> Reg(Low(Wide - (y % Wide), x) * 2^(y % Wide))
      [] fn = "sr" /\ instr.form = "ir" -> Reg(I64(x) \div 2^(y % Wide))
      [] fn = "sr"   -> x \div 2^(y % Wide)

BitStep ==
    /\ Running /\ instr.cls = "bit" /\ <<instr.fn, instr.form>> \in BitForms
    /\ Put(instr.a, BitFn(instr.fn, Left("bit"), Right("bit")))
    /\ strayed' = strayed \cup StrayRegisters(Sources)
    /\ UNCHANGED mem
    /\ Advance

(***************************************************************************)
(* Comparisons write 0 or 1 as an integer, into a float register too.      *)
(***************************************************************************)
Holds(fn, x, y) == CASE fn = "lt" -> x < y
                     [] fn = "lte" -> x <= y
                     [] fn = "gt" -> x > y
                     [] fn = "gte" -> x >= y
                     [] fn = "cmp" -> x = y
                     [] fn = "ncmp" -> x # y

Comparison(cls) ==
    /\ Running /\ instr.cls = cls
    /\ Put(instr.a, Truth(Holds(instr.fn, Left(cls), Right(cls))))
    /\ strayed' = strayed \cup StrayRegisters(Sources)
    /\ UNCHANGED mem
    /\ Advance
CompareStep == Comparison("icmp")
FloatCompareStep == Comparison("fcmp")
DoubleCompareStep == Comparison("dcmp")

(***************************************************************************)
(* Conversions, in place.                                                  *)
(***************************************************************************)
Converted(fn, p) ==
    CASE fn = "if" -> ToF32(FromInt(I64(p)))
      [] fn = "id" -> ToF64(FromInt(I64(p)))
      [] fn = "uf" -> ToF32(FromInt(p))
      [] fn = "ud" -> ToF64(FromInt(p))
      [] fn \in {"iu", "ui"} -> p
      [] fn \in {"fi", "fu"} -> Reg(ToInt(F32(p)))
      [] fn = "fd" -> ToF64(F32(p))
      [] fn \in {"di", "du"} -> Reg(ToInt(F64(p)))
      [] fn = "df" -> ToF32(F64(p))

ConvertStep ==
    /\ Running /\ instr.cls = "cvt"
    /\ Put(instr.a, Converted(instr.fn, Get(instr.a)))
    /\ strayed' = strayed \cup StrayRegisters({instr.a})
    /\ UNCHANGED mem
    /\ Advance

(***************************************************************************)
(* Branches go to their target when the condition in their name fails.     *)
(***************************************************************************)
Fails(fn, v) == CASE fn = "beqz"  -> v # 0
                  [] fn = "bneqz" -> v = 0
                  [] fn = "bgtz"  -> v <= 0
                  [] fn = "bgtez" -> v < 0
                  [] fn = "bltz"  -> v >= 0
                  [] fn = "bltez" -> v > 0
                  [] fn = "jmp"   -> TRUE

BranchStep ==
    /\ Running /\ instr.cls = "branch"
    /\ ip' = IF Fails(instr.fn, I64(Get(instr.a))) THEN instr.imm ELSE ip + 1
    /\ strayed' = strayed \cup StrayRegisters({instr.a})
    /\ UNCHANGED <<code, regs, cells, mem, status>>

(***************************************************************************)
(* Vectors in memory: registers hold their addresses.  fn works component  *)
(* by component on the vector at a with the vector at b (form v), the      *)
(* scalar in register b (form s) or the immediate (form si).               *)
(***************************************************************************)
Scalar(tp, p) == IF tp = "f64" THEN F64(p) ELSE F32(p)
ToScalar(tp, q) == IF tp = "f64" THEN ToF64(q) ELSE ToF32(q)
At(r, k) == Reg(Get(r) + k)
Span(r, n) == {At(r, k) : k \in 0 .. n - 1}
Component(r, k) == Scalar(instr.tp, Cell(At(r, k)))

Second(k) == CASE instr.form = "v"  -> Component(instr.b, k)
               [] instr.form = "s"  -> Scalar(instr.tp, Get(instr.b))
               [] instr.form = "si" -> Scalar(instr.tp, ToScalar(instr.tp, F64(instr.imm)))

\* The n components at address register r get the values of f.
Filled(r, n, f) ==
    [x \in DOMAIN mem \cup Span(r, n) |->
        IF x \in Span(r, n) THEN ToScalar(instr.tp, f[Reg(x - Get(r))]) ELSE mem[x]]

VectorAccess(n, rs, from, to) ==
    /\ strayed' = strayed \cup StrayRegisters(rs)
                     \cup StrayReads(UNION {Span(r, n) : r \in from})
                     \cup StrayWrites(UNION {Span(r, n) : r \in to})
    /\ Advance
SecondVector == IF instr.form = "v" THEN {instr.b} ELSE {}
Both == IF instr.form = "si" THEN {instr.a} ELSE {instr.a, instr.b}

VectorSet(n) ==
    /\ Running /\ instr.cls = "vec" /\ instr.fn = <<n, "set">>
    /\ mem' = Filled(instr.a, n, [k \in 0 .. n - 1 |-> Second(k)])
    /\ VectorAccess(n, Both, SecondVector, {instr.a})
    /\ UNCHANGED regs

Componentwise == {"add", "sub", "mul", "div", "mod"}
VectorArithmetic(n) ==
    /\ Running /\ instr.cls = "vec"
    /\ \E fn \in Componentwise :
          /\ instr.fn = <<n, fn>>
          /\ mem' = Filled(instr.a, n,
                           [k \in 0 .. n - 1 |-> Real(fn, Component(instr.a, k), Second(k))])
    /\ VectorAccess(n, Both, {instr.a} \cup SecondVector, {instr.a})
    /\ UNCHANGED regs

\* a[0] * b[0] + ... + a[n - 1] * b[n - 1].
Products(n, a, b) ==
    LET sum[k \in 0 .. n - 1] ==
            LET here == FMul(Component(a, k), Component(b, k))
            IN  IF k = 0 THEN here ELSE FAdd(sum[k - 1], here)
    IN  sum[n - 1]
Measure(fn, n) == CASE fn = "dot"   -> Products(n, instr.b, instr.c)
                    [] fn = "magsq" -> Products(n, instr.b, instr.b)
                    [] fn = "mag"   -> FSqrt(Products(n, instr.b, instr.b))
Measured(tp, old, q) == IF tp = "f64" THEN ToF64(q) ELSE WithF32(old, q)

VectorMeasure(n) ==
    /\ Running /\ instr.cls = "vec"
    /\ \E fn \in {"dot", "mag", "magsq"} :
          /\ instr.fn = <<n, fn>>
          /\ Put(instr.a, Measured(instr.tp, Get(instr.a), Measure(fn, n)))
          /\ LET from == IF fn = "dot" THEN {instr.b, instr.c} ELSE {instr.b}
             IN  VectorAccess(n, from, from, {})
    /\ UNCHANGED mem

\* The reciprocal of the length is computed before a component is written.
VectorScale(n) ==
    /\ Running /\ instr.cls = "vec"
    /\ \E fn \in {"neg", "norm"} :
          /\ instr.fn = <<n, fn>>
          /\ LET factor == IF fn = "neg" THEN -OneD
                           ELSE FDiv(OneD, FSqrt(Products(n, instr.a, instr.a)))
             IN  mem' = Filled(instr.a, n,
                    [k \in 0 .. n - 1 |-> FMul(Component(instr.a, k), factor)])
    /\ VectorAccess(n, {instr.a}, {instr.a}, {instr.a})
    /\ UNCHANGED regs

\* The cross product writes x, y and z one after the other and nothing else,
\* so it reads what it has written when the result is one of the operands.
VectorCross(n) ==
    /\ Running /\ instr.cls = "vec" /\ instr.fn = <<n, "cross">>
    /\ LET get(m, r, k) == Scalar(instr.tp,
               IF At(r, k) \in DOMAIN m THEN m[At(r, k)] ELSE Leftover)
           minor(m, j, k) == FSub(FMul(get(m, instr.b, j), get(m, instr.c, k)),
                                  FMul(get(m, instr.b, k), get(m, instr.c, j)))
           put(m, k, q) == Having(m, At(instr.a, k), ToScalar(instr.tp, q))
           m1 == put(mem, 0, minor(mem, 1, 2))
           m2 == put(m1, 1, minor(m1, 2, 0))
       IN  mem' = put(m2, 2, minor(m2, 0, 1))
    /\ VectorAccess(3, {instr.a, instr.b, instr.c}, {instr.b, instr.c}, {instr.a})
    /\ UNCHANGED regs

\* The instructions each size of vector has: a vec4 has no set.
Vec2SetStep == VectorSet(2)
Vec2ArithmeticStep == VectorArithmetic(2)
Vec2MeasureStep == VectorMeasure(2) \/ VectorScale(2)
Vec3SetStep == VectorSet(3)
Vec3ArithmeticStep == VectorArithmetic(3)
Vec3MeasureStep == VectorMeasure(3) \/ VectorScale(3) \/ VectorCross(3)
Vec4ArithmeticStep == VectorArithmetic(4)
Vec4MeasureStep == VectorMeasure(4) \/ VectorScale(4) \/ VectorCross(4)

(***************************************************************************)
(* Any other mnemonic is thrown out by the default case, and the last      *)
(* instruction returns.                                                    *)
(***************************************************************************)
InvalidStep ==
    /\ Running
    /\ \/ instr.cls = "bit" /\ <<instr.fn, instr.form>> \notin BitForms
       \/ instr.cls = "vec" /\ instr.fn = <<4, "set">>
    /\ Throw

ReturnStep ==
    /\ status = "running" /\ ip = Len(code) + 1
    /\ status' = "stopped"
    /\ UNCHANGED <<code, ip, regs, cells, mem, strayed>>

Step == \/ LoadStep \/ StoreStep \/ MoveStep
        \/ IntStep \/ UintStep \/ FloatStep \/ DoubleStep
        \/ BitStep \/ CompareStep \/ FloatCompareStep \/ DoubleCompareStep
        \/ ConvertStep \/ BranchStep
        \/ Vec2SetStep \/ Vec2ArithmeticStep \/ Vec2MeasureStep
        \/ Vec3SetStep \/ Vec3ArithmeticStep \/ Vec3MeasureStep
        \/ Vec4ArithmeticStep \/ Vec4MeasureStep
        \/ InvalidStep \/ ReturnStep
=============================================================================
