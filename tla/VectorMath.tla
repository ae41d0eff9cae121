----------------------------- MODULE VectorMath -----------------------------
(***************************************************************************)
(* The inline functions of the math module (builtin/Math.cpp): calling one *)
(* runs no function, it appends IR to the caller.  Binding maps a method   *)
(* <<class, name, arguments, place>> to that IR: the arguments are a       *)
(* vector v, a scalar s in a register, an immediate scalar i, a matrix m,  *)
(* parts (scalars), and so on; the result goes to self, to a temporary     *)
(* (result) or straight to where the caller returns it (returned).         *)
(* Like the C++ templates the IR is written for any T: "real" and "vec3"   *)
(* are made f32 or f64 by Instantiate.                                     *)
(***************************************************************************)
EXTENDS Instructions, SequencesExt

\* The objects of a call, named by the register that holds their address.
Self == 1
Result == 3
Turned == 4                                  \* the temporary "transposed" fills
Args == <<2, 5, 6, 7>>
Arg == Args[1]
Locals == <<8, 9, 10>>

VecName == <<"none", "vec2", "vec3", "vec4">>
Obj(o) == RegOf(o, "object")
Vec(o, n) == RegOf(o, VecName[n])
Argument(k) == RegOf(20 + k, "real")         \* scalar arguments, from 0
Answer(k) == RegOf(40 + k, "real")           \* what calls of the host returned
Number == RegOf(Result, "real")              \* a scalar result
Tmp(k) == RegOf(900 + k, "real")
Num(v) == ImmOf("real", ToF64(FromInt(v)))
RootTwo == ImmOf("root2", 0)                 \* 1.414214

Each(n, f(_)) == FlattenSeq([k \in 1 .. n |-> f(k - 1)])
EachPair(n, f(_, _)) == Each(n, LAMBDA row : Each(n, LAMBDA col : f(row, col)))

\* One operation on vectors, and one on scalars (the operators of Value).
V(fn, a, b) == <<Ir(<<"vec", fn>>, a, b, None)>>
Into(fn, to, a, b) == <<Ir(<<"vec", fn>>, to, a, b)>>
Calc(fn, to, a, b) == <<Ir(<<"real", fn>>, to, a, b)>>
Store(value, base, at) == <<Ir(<<"mem", "store">>, value, base, ImmOf("u32", at))>>

(***************************************************************************)
(* Value::getProp: the address of the property is computed, and what is    *)
(* there is loaded at once unless it is an object.                         *)
(***************************************************************************)
Row(o, n, k) == PtrOf(100 * o + k, VecName[n])
GetRow(o, n, k) ==
    <<Ir(<<"uint", "add">>, Row(o, n, k), Obj(o), ImmOf("u64", n * k))>>
Rows(o, n) == Each(n, LAMBDA k : GetRow(o, n, k))

Part(o, k) == RegOf(100 * o + 40 + k, "real")
GetPart(o, k, base, at) ==
    LET ptr == PtrOf(100 * o + 20 + k, "real")
    IN  <<Ir(<<"uint", "add">>, ptr, base, ImmOf("u64", at)),
          Ir(<<"mem", "load">>, Part(o, k), ptr, None)>>
Parts(o, n) == Each(n, LAMBDA k : GetPart(o, k, Obj(o), k))

(***************************************************************************)
(* vec2, vec3 and vec4.                                                    *)
(***************************************************************************)
Operand(arg, n) == CASE arg = "v" -> Vec(Arg, n)
                     [] arg = "s" -> Argument(0)
                     [] arg = "i" -> Num(2)

Constructors(class, n) ==
    [m \in {<<class, "new", arg, "self">> : arg \in {"none", "parts", "v", "s", "i"}} |->
        CASE m[3] = "none"  -> V("set", Vec(Self, n), Num(0))
          [] m[3] = "parts" -> Each(n, LAMBDA k : Store(Argument(k), Obj(Self), k))
          [] OTHER          -> V("set", Vec(Self, n), Operand(m[3], n))]

\* vec3(vec2, z) and vec4(vec3, w): each store is appended before its operand
\* is asked for, so the load of a component comes after the store of it.
Widening(class, n) ==
    [m \in {<<class, "new", "narrower", "self">>} |->
        Each(n - 1, LAMBDA k : Store(Part(Arg, k), Obj(Self), k)
                               \o GetPart(Arg, k, Obj(Arg), k))
        \o Store(Argument(0), Obj(Self), n - 1)]

Measures(class, n) ==
    [m \in {<<class, "length", "none", "number">>, <<class, "lengthSq", "none", "number">>,
            <<class, "dot", "v", "number">>} |->
        CASE m[2] = "length"   -> Into("mag", Number, Vec(Self, n), None)
          [] m[2] = "lengthSq" -> Into("magsq", Number, Vec(Self, n), None)
          [] m[2] = "dot"      -> Into("dot", Number, Vec(Self, n), Vec(Arg, n))]

Normals(class, n) ==
    [m \in {<<class, "normalize", "none", "self">>, <<class, "normal", "none", "result">>} |->
        IF m[2] = "normalize" THEN V("norm", Vec(Self, n), None)
        ELSE V("set", Vec(Result, n), Vec(Self, n)) \o V("norm", Vec(Result, n), None)]

Cross(class, n) ==
    [m \in {<<class, "cross", "v", "result">>} |->
        Into("cross", Vec(Result, n), Vec(Self, n), Vec(Arg, n))]

OpName == "+" :> "add" @@ "-" :> "sub" @@ "*" :> "mul" @@ "/" :> "div" @@ "%" :> "mod"
\* a -= b with a vector b is bound to the addition.
InPlaceName(op, arg) == IF op = "-" /\ arg = "v" THEN "add" ELSE OpName[op]

Operators(class, n, ops) ==
    [m \in {class} \X ops \X {"v", "s", "i"} \X {"self", "result"} |->
        IF m[4] = "self"
        THEN V(InPlaceName(m[2], m[3]), Vec(Self, n), Operand(m[3], n))
        ELSE V("set", Vec(Result, n), Vec(Self, n))
             \o V(OpName[m[2]], Vec(Result, n), Operand(m[3], n))]

Negation(class, n) ==
    [m \in {<<class, "negate", "none", "result">>} |->
        V("set", Vec(Result, n), Vec(Self, n)) \o V("neg", Vec(Result, n), None)]
Assignment(class, n) ==
    [m \in {<<class, "=", "v", "self">>} |-> V("set", Vec(Self, n), Vec(Arg, n))]

\* One component repeated is set as a scalar, others are copied one by one.
Picks == [xx |-> <<0, 0>>, xy |-> <<0, 1>>, xz |-> <<0, 2>>, xw |-> <<0, 3>>,
          yx |-> <<1, 0>>, yy |-> <<1, 1>>, yz |-> <<1, 2>>, yw |-> <<1, 3>>,
          zx |-> <<2, 0>>, zy |-> <<2, 1>>, zz |-> <<2, 2>>, zw |-> <<2, 3>>,
          xxx |-> <<0, 0, 0>>, yyy |-> <<1, 1, 1>>, zzz |-> <<2, 2, 2>>, www |-> <<3, 3, 3>>]
Swizzles(class, names) ==
    [m \in {<<class, name, "none", "result">> : name \in names} |->
        LET pick == Picks[m[2]]
        IN  IF \A k \in DOMAIN pick : pick[k] = pick[1]
            THEN GetPart(Self, pick[1], Obj(Self), pick[1])
                 \o V("set", Vec(Result, Len(pick)), Part(Self, pick[1]))
            ELSE Each(2, LAMBDA k : GetPart(Self, pick[k + 1], Obj(Self), pick[k + 1])
                                    \o Store(Part(Self, pick[k + 1]), Obj(Result), k))]

(***************************************************************************)
(* What each class binds.                                                  *)
(***************************************************************************)
Vec2Constructors == Constructors("vec2", 2)
Vec2Measures == Measures("vec2", 2) @@ Normals("vec2", 2)
Vec2Sums == Operators("vec2", 2, {"+", "-"})
Vec2Scalings == Operators("vec2", 2, {"*", "/", "%"})
Vec2Copies == Negation("vec2", 2) @@ Assignment("vec2", 2)

Vec3Constructors == Constructors("vec3", 3) @@ Widening("vec3", 3)
Vec3Measures == Measures("vec3", 3) @@ Cross("vec3", 3) @@ Normals("vec3", 3)
Vec3Sums == Operators("vec3", 3, {"+", "-"})
Vec3Scalings == Operators("vec3", 3, {"*", "/", "%"})
Vec3Copies == Negation("vec3", 3) @@ Assignment("vec3", 3)
Vec3Swizzles ==
    Swizzles("vec3", {"xx", "xy", "xz", "yx", "yy", "yz", "zx", "zy", "zz",
                      "xxx", "yyy", "zzz"})

Vec4Constructors == Constructors("vec4", 4) @@ Widening("vec4", 4)
Vec4Measures == Measures("vec4", 4) @@ Cross("vec4", 4) @@ Normals("vec4", 4)
Vec4Sums == Operators("vec4", 4, {"+", "-"})
Vec4Scalings == Operators("vec4", 4, {"*", "/", "%"})
Vec4Copies == Negation("vec4", 4) @@ Assignment("vec4", 4)
Vec4Pairs ==
    Swizzles("vec4", {"xx", "xy", "xz", "xw", "yx", "yy", "yz", "yw",
                      "zx", "zy", "zz", "zw"})
Vec4Triples == Swizzles("vec4", {"xxx", "yyy", "zzz", "www"})

VectorBindings ==
    <<Vec2Constructors, Vec2Measures, Vec2Sums, Vec2Scalings, Vec2Copies,
      Vec3Constructors, Vec3Measures, Vec3Sums, Vec3Scalings, Vec3Copies, Vec3Swizzles,
      Vec4Constructors, Vec4Measures, Vec4Sums, Vec4Scalings, Vec4Copies,
      Vec4Pairs, Vec4Triples>>

(***************************************************************************)
(* The IR of a method of vecN<T>.  1.414214 is a little more than the root *)
(* of two: here it is the least number of T whose square is not below two. *)
(***************************************************************************)
RootTwoAs(T) == LET step == IF T = "f32" THEN Coarse ELSE 1
                IN  step * (CHOOSE r \in 1 .. 2 * OneD :
                               /\ step * r * step * r >= 2 * OneD * OneD
                               /\ step * (r - 1) * step * (r - 1) < 2 * OneD * OneD)

TypeAs(tp, T) == CASE tp \in {"real", "root2"} -> T
                   [] tp \in {"vec2", "vec3", "vec4"} -> tp \o (IF T = "f32" THEN "f" ELSE "d")
                   [] OTHER -> tp
OperandAs(o, T) == [o EXCEPT !.tp = TypeAs(o.tp, T),
                             !.bits = IF o.tp = "root2" THEN ToF64(RootTwoAs(T)) ELSE @]
ClassAs(cls, T) == IF cls # "real" THEN cls ELSE IF T = "f32" THEN "flt" ELSE "dbl"
IrAs(ir, T) == [op |-> <<ClassAs(ir.op[1], T), ir.op[2]>>,
                o1 |-> OperandAs(ir.o1, T), o2 |-> OperandAs(ir.o2, T), o3 |-> OperandAs(ir.o3, T)]
Instantiate(irs, T) == [k \in DOMAIN irs |-> IrAs(irs[k], T)]
=============================================================================
