----------------------------- MODULE MatrixMath -----------------------------
(***************************************************************************)
(* The quaternions and matrices of builtin/Math.cpp.  A quaternion is a    *)
(* vec3 axis followed by an angle, a matrix n rows one after the other.    *)
(***************************************************************************)
EXTENDS VectorMath

Axis(o) == Row(o, 3, 0)
GetAxis(o) == GetRow(o, 3, 0)
Angle(o) == Part(o, 3)
GetAngle(o) == GetPart(o, 3, Obj(o), 3)

\* Tmp(at + 2 * Len(terms)) becomes the sum of the products of the terms,
\* each <<"add" or "sub", factor, factor>>, taken from left to right.
SumOfProducts(at, terms) ==
    LET product(k) == Tmp(at + 2 * k - 1)
        before(k) == IF k = 2 THEN product(1) ELSE Tmp(at + 2 * (k - 1))
    IN  Each(Len(terms), LAMBDA j :
            LET k == j + 1 IN
            Calc("mul", product(k), terms[k][2], terms[k][3])
            \o (IF k = 1 THEN <<>> ELSE Calc(terms[k][1], Tmp(at + 2 * k), before(k), product(k))))
SumAt(at, terms) == Tmp(at + 2 * Len(terms))

(***************************************************************************)
(* Quaternions.                                                            *)
(***************************************************************************)
CopyQuat == GetAxis(Self) \o GetAxis(Arg) \o GetAngle(Arg)
            \o V("set", Axis(Self), Axis(Arg)) \o Store(Angle(Arg), Obj(Self), 3)

QuatConstructors ==
    [m \in {<<"quat", "new", arg, "self">> : arg \in {"none", "parts", "q"}}
           \cup {<<"quat", "=", "q", "self">>} |->
        CASE m[3] = "none"  -> GetAxis(Self) \o V("set", Axis(Self), Num(0))
                               \o Store(Num(0), Obj(Self), 3)
          [] m[3] = "parts" -> Each(4, LAMBDA k : Store(Argument(k), Obj(Self), k))
          [] OTHER          -> CopyQuat]

\* Every component of both is loaded, and the product is computed, before
\* the first component is stored.
Hamilton(to) ==
    LET a(k) == Part(Self, k)
        b(k) == Part(Arg, k)
        xr == <<<<"add", a(3), b(0)>>, <<"add", b(3), a(0)>>,
                <<"add", a(1), b(2)>>, <<"sub", a(2), b(1)>>>>
        yr == <<<<"add", a(3), b(1)>>, <<"add", b(3), a(1)>>,
                <<"add", a(2), b(0)>>, <<"sub", a(0), b(2)>>>>
        zr == <<<<"add", a(3), b(2)>>, <<"add", b(3), a(2)>>,
                <<"add", a(0), b(1)>>, <<"sub", a(1), b(0)>>>>
        wr == <<<<"add", a(3), b(3)>>, <<"sub", a(0), b(0)>>,
                <<"sub", a(1), b(1)>>, <<"sub", a(2), b(2)>>>>
        results == <<xr, yr, zr, wr>>
    IN  Parts(Self, 4) \o Parts(Arg, 4)
        \o Each(4, LAMBDA k : SumOfProducts(20 * k, results[k + 1]))
        \o Each(4, LAMBDA k : Store(SumAt(20 * k, results[k + 1]), Obj(to), k))
QuatProduct == [m \in {<<"quat", "*", "q", "result">>} |-> Hamilton(Result)]
QuatInPlaceProduct == [m \in {<<"quat", "*", "q", "self">>} |-> Hamilton(Self)]

\* ir_vdot knows no quat and selects nothing: the sum starts from what the
\* result register holds.
QuatDot ==
    [m \in {<<"quat", "dot", "q", "number">>} |->
        Into("dot", Number, RegOf(Self, "quat"), RegOf(Arg, "quat"))
        \o GetAngle(Self) \o GetAngle(Arg)
        \o Calc("mul", Tmp(0), Angle(Self), Angle(Arg))
        \o Calc("add", Number, Number, Tmp(0))]

\* axis * 2 (axis . v) + v * (2 angle^2 - 1) + (axis x v) * 2 angle.
QuatRotate ==
    [m \in {<<"quat", "*", "v", "result">>} |->
        LET local == Vec(Locals[1], 3)
        IN  GetAxis(Self)
            \o Into("dot", Tmp(0), Axis(Self), Vec(Arg, 3))
            \o Calc("mul", Tmp(0), Tmp(0), Num(2))
            \o V("set", Vec(Result, 3), Axis(Self))
            \o V("mul", Vec(Result, 3), Tmp(0))
            \o V("set", local, Vec(Arg, 3))
            \o GetAngle(Self)
            \o Calc("mul", Tmp(1), Angle(Self), Angle(Self))
            \o Calc("mul", Tmp(2), Tmp(1), Num(2))
            \o Calc("sub", Tmp(3), Tmp(2), Num(1))
            \o V("mul", local, Tmp(3))
            \o V("add", Vec(Result, 3), local)
            \o Calc("mul", Tmp(4), Angle(Self), Num(2))
            \o Into("cross", local, Axis(Self), Vec(Arg, 3))
            \o V("mul", local, Tmp(4))
            \o V("add", Vec(Result, 3), local)]

\* The sine and the cosine of half the angle come from the host.
FromAxisAngle ==
    [m \in {<<"quat", "fromAxisAngle", arg, "result">> : arg \in {"v", "parts"}} |->
        Calc("mul", Tmp(0), Argument(3), ImmOf("real", ToF64(OneD \div 2)))
        \o GetAxis(Result)
        \o (IF m[3] = "v" THEN V("set", Axis(Result), Vec(Arg, 3))
            ELSE Each(3, LAMBDA k : Store(Argument(k), Axis(Result), k)))
        \o V("mul", Axis(Result), Answer(0)) \o Store(Answer(1), Obj(Result), 3)]

(***************************************************************************)
(* Matrices of every size.                                                 *)
(***************************************************************************)
Entry(o, n, row, col) == Part(o, n * row + col)
Entries(o, n) ==
    Rows(o, n) \o EachPair(n, LAMBDA row, col :
        GetPart(o, n * row + col, Row(o, n, row), col))
Transposed(n, from, to) ==
    Entries(from, n) \o EachPair(n, LAMBDA row, col :
        Store(Entry(from, n, col, row), Obj(to), n * row + col))

\* The matrix of value(row) on the diagonal and zeros.
Diagonal(n, o, value(_)) ==
    EachPair(n, LAMBDA row, col :
        Store(IF row = col THEN value(row) ELSE Num(0), Obj(o), n * row + col))

CopyRows(n) ==
    Each(n, LAMBDA k : GetRow(Self, n, k) \o GetRow(Arg, n, k)
                       \o V("set", Row(Self, n, k), Row(Arg, n, k)))
MatrixConstructors(class, n) ==
    [m \in {<<class, "new", arg, "self">> : arg \in {"none", "parts", "rows", "m"}} |->
        CASE m[3] = "none"  -> Diagonal(n, Self, LAMBDA k : Num(1))
          [] m[3] = "parts" -> Each(n * n, LAMBDA k : Store(Argument(k), Obj(Self), k))
          [] m[3] = "rows"  -> Each(n, LAMBDA k : GetRow(Self, n, k)
                                    \o V("set", Row(Self, n, k), Vec(Args[k + 1], n)))
          [] m[3] = "m"     -> CopyRows(n)]

\* Mutant of Product: the operand itself is transposed.
ProductTurningOperand(n, turned) ==
    Transposed(n, Arg, Arg) \o Rows(Arg, n)
    \o Each(n, LAMBDA row : GetRow(Self, n, row) \o Each(n, LAMBDA col :
           Into("dot", Tmp(0), Row(Self, n, row), Row(Arg, n, col))
           \o Store(Tmp(0), Obj(Result), n * row + col)))
\* Each entry is stored as soon as it is computed; when the product is
\* returned, "transposed" is given the same destination as the product.
Product(n, turned) ==
    Transposed(n, Arg, turned) \o Rows(turned, n)
    \o Each(n, LAMBDA row : GetRow(Self, n, row) \o Each(n, LAMBDA col :
           Into("dot", Tmp(0), Row(Self, n, row), Row(turned, n, col))
           \o Store(Tmp(0), Obj(Result), n * row + col)))
\* Mutant of InPlaceProduct: each entry is stored at once, as in Product.
InPlaceProductAtOnce(n) ==
    Transposed(n, Arg, Turned) \o Rows(Turned, n)
    \o Each(n, LAMBDA row : GetRow(Self, n, row) \o Each(n, LAMBDA col :
           Into("dot", Tmp(col), Row(Self, n, row), Row(Turned, n, col))
           \o Store(Tmp(col), Row(Self, n, row), col)))
\* A row is stored when its last entry is known.
InPlaceProduct(n) ==
    Transposed(n, Arg, Turned) \o Rows(Turned, n)
    \o Each(n, LAMBDA row : GetRow(Self, n, row)
        \o Each(n, LAMBDA col :
               Into("dot", Tmp(col), Row(Self, n, row), Row(Turned, n, col)))
        \o Each(n, LAMBDA col : Store(Tmp(col), Row(Self, n, row), col)))
\* The vector is a row: the result is its product with the matrix.
Apply(n) ==
    Transposed(n, Self, Turned) \o Rows(Turned, n)
    \o Each(n, LAMBDA col : Into("dot", Tmp(0), Row(Turned, n, col), Vec(Arg, n))
                            \o Store(Tmp(0), Obj(Result), col))

MatrixProducts(class, n) ==
    [m \in {<<class, "*", "m", place>> : place \in {"result", "returned", "self"}}
           \cup {<<class, "=", "m", "self">>} |->
        CASE m[2] = "=" -> CopyRows(n)
          [] m[4] = "result"   -> Product(n, Turned)
          [] m[4] = "returned" -> Product(n, Result)
          [] m[4] = "self"     -> InPlaceProduct(n)]
Application(class, n) == [m \in {<<class, "*", "v", "result">>} |-> Apply(n)]
Transpose(class, n) ==
    [m \in {<<class, "transpose", "none", "self">>} |-> Transposed(n, Self, Self)]
TransposedGetter(class, n) ==
    [m \in {<<class, "transposed", "none", "result">>} |-> Transposed(n, Self, Result)]

(***************************************************************************)
(* Rotations, from a quaternion scaled by the square root of two.          *)
(***************************************************************************)
FromRotation(o, n, source(_)) ==
    LET q(k) == Tmp(k)
        squares(row) == LET j == (row + 1) % 3
                            k == (row + 2) % 3
                        IN  <<<<"add", q(j), q(j)>>, <<"add", q(k), q(k)>>>>
        mixed(row, col) == <<<<"add", q(row), q(col)>>,
                             <<IF col = (row + 1) % 3 THEN "add" ELSE "sub",
                               q(3 - row - col), q(3)>>>>
        put(value, row, col) == Store(value, Obj(o), n * row + col)
    IN  Each(4, LAMBDA k : Calc("mul", q(k), source(k), RootTwo))
        \o EachPair(3, LAMBDA row, col :
               IF row = col
               THEN SumOfProducts(10, squares(row))
                    \o Calc("sub", Tmp(9), Num(1), SumAt(10, squares(row)))
                    \o put(Tmp(9), row, col)
               ELSE SumOfProducts(10, mixed(row, col))
                    \o put(SumAt(10, mixed(row, col)), row, col))
\* What a mat4 adds to the nine entries of a mat3.
Border(o) ==
    Each(3, LAMBDA k : Store(Num(0), Obj(o), 4 * k + 3) \o Store(Num(0), Obj(o), 12 + k))
    \o Store(Num(1), Obj(o), 15)
BorderOf(o, n) == IF n = 4 THEN Border(o) ELSE <<>>

Mat3OfQuat ==
    [m \in {<<"mat3", "new", "q", "self">>} |->
        GetAxis(Arg) \o Parts(Arg, 4) \o FromRotation(Self, 3, LAMBDA k : Part(Arg, k))]
Rotations(class, n) ==
    [m \in {<<class, "rotation", arg, "result">> : arg \in {"v", "parts"}} |->
        (IF m[3] = "v"
         THEN Parts(Arg, 3)
              \o FromRotation(Result, n, LAMBDA k : IF k = 3 THEN Argument(0) ELSE Part(Arg, k))
         ELSE FromRotation(Result, n, LAMBDA k : Argument(k)))
        \o BorderOf(Result, n)]

Scales(class, n) ==
    [m \in {<<class, "scale", arg, "result">> : arg \in {"v", "s", "parts"}} |->
        LET factor(k) == CASE k = 3 -> Num(1)
                           [] m[3] = "v" /\ k # 3 -> Part(Arg, k)
                           [] m[3] = "s" /\ k # 3 -> Argument(0)
                           [] m[3] = "parts" /\ k # 3 -> Argument(k)
        IN  (IF m[3] = "v" THEN Parts(Arg, 3) ELSE <<>>) \o Diagonal(n, Result, factor)]

(***************************************************************************)
(* What only a mat4 has.                                                   *)
(***************************************************************************)
\* mat4 * vec3: the products are those of vec4, so the cell after the vector
\* is read, and the row w is added; the result has no w.
ApplyToVec3 ==
    [m \in {<<"mat4", "*", "vec3", "result">>} |->
        Transposed(4, Self, Turned) \o Rows(Turned, 4)
        \o Each(3, LAMBDA col :
               Into("dot", Tmp(0), Row(Turned, 4, col), Vec(Arg, 3))
               \o GetPart(Turned, 12 + col, Row(Turned, 4, 3), col)
               \o Calc("add", Tmp(0), Tmp(0), Part(Turned, 12 + col))
               \o Store(Tmp(0), Obj(Result), col))]

Translations ==
    [m \in {<<"mat4", "translation", arg, "result">> : arg \in {"v", "parts"}} |->
        LET distance(k) == IF m[3] = "v" THEN Part(Arg, k) ELSE Argument(k)
        IN  (IF m[3] = "v" THEN Parts(Arg, 3) ELSE <<>>)
            \o Diagonal(4, Result, LAMBDA k : Num(1))
            \o Each(3, LAMBDA k : Store(distance(k), Obj(Result), 12 + k))]

\* lookAt(eye, center, up).
LookAt ==
    [m \in {<<"mat4", "lookAt", "v", "result">>} |->
        LET forward == Vec(Locals[1], 3)
            side == Vec(Locals[2], 3)
            up == Vec(Locals[3], 3)
            eye == Vec(Args[1], 3)
            part(axis, k) == Part(axis.id, k)
            column == <<side, up, forward>>
        IN  V("set", forward, Vec(Args[2], 3)) \o V("sub", forward, eye)
            \o V("norm", forward, None)
            \o Into("cross", side, forward, Vec(Args[3], 3)) \o V("norm", side, None)
            \o Into("cross", up, side, forward)
            \o Each(3, LAMBDA k : Into("dot", Tmp(k), column[k + 1], eye))
            \o Calc("neg", Tmp(0), Tmp(0), None) \o Calc("neg", Tmp(1), Tmp(1), None)
            \o V("neg", forward, None)
            \o Parts(Locals[3], 3) \o Parts(Locals[2], 3) \o Parts(Locals[1], 3)
            \o EachPair(3, LAMBDA row, col :
                   Store(part(column[col + 1], row), Obj(Result), 4 * row + col))
            \o Each(3, LAMBDA k : Store(Num(0), Obj(Result), 4 * k + 3))
            \o Each(3, LAMBDA k : Store(Tmp(k), Obj(Result), 12 + k))
            \o Store(Num(1), Obj(Result), 15)]

\* perspective(fovY, aspect, near, far); the tangent comes from the host.
Perspective ==
    [m \in {<<"mat4", "perspective", "parts", "result">>} |->
        LET entry == <<Tmp(1), Num(0), Num(0), Num(0),
                       Num(0), Tmp(2), Num(0), Num(0),
                       Num(0), Num(0), Tmp(5), Num(-1),
                       Num(0), Num(0), Tmp(8), Num(0)>>
        IN  Calc("mul", Tmp(0), Argument(0), ImmOf("real", ToF64(OneD \div 2)))
            \o Calc("div", Tmp(1), Num(1), Answer(0))
            \o Calc("mul", Tmp(2), Tmp(1), Argument(1))
            \o Calc("sub", Tmp(3), Argument(2), Argument(3))
            \o Calc("add", Tmp(4), Argument(3), Argument(2))
            \o Calc("div", Tmp(5), Tmp(4), Tmp(3))
            \o Calc("mul", Tmp(6), Num(2), Argument(2))
            \o Calc("mul", Tmp(7), Tmp(6), Argument(3))
            \o Calc("div", Tmp(8), Tmp(7), Tmp(3))
            \o Each(16, LAMBDA k : Store(entry[k + 1], Obj(Result), k))]

\* orthographic(left, right, bottom, top, near, far).  The unary minus of a
\* Value gives its operand back (Expressions).
Orthographic ==
    [m \in {<<"mat4", "orthographic", "parts", "result">>} |->
        LET extent(k) == Tmp(10 * k)
            scale(k) == Tmp(10 * k + 1)
            shift(k) == Tmp(10 * k + 5)
        IN  Each(3, LAMBDA k : Calc("sub", extent(k), Argument(2 * k + 1), Argument(2 * k)))
            \o Each(3, LAMBDA k :
                   Calc("div", scale(k), Num(IF k = 2 THEN -2 ELSE 2), extent(k)))
            \o Each(3, LAMBDA k :
                   Calc("add", Tmp(10 * k + 2), Argument(2 * k), Argument(2 * k + 1))
                   \o Calc("div", Tmp(10 * k + 3), Tmp(10 * k + 2), extent(k))
                   \o Calc("neg", Tmp(10 * k + 5), Tmp(10 * k + 3), None)
                   \o <<Ir(<<"any", "assign">>, shift(k), Tmp(10 * k + 3), None)>>)
            \o Diagonal(4, Result, LAMBDA k : IF k = 3 THEN Num(1) ELSE scale(k))
            \o Each(3, LAMBDA k : Store(shift(k), Obj(Result), 12 + k))]

\* The rows of the mat4 are read as the rows of a mat3.
Basis ==
    [m \in {<<"mat4", "basis", "none", "result">>} |->
        LET short(k) == [Row(Self, 4, k) EXCEPT !.tp = VecName[3]]
        IN  Rows(Self, 4) \o Rows(Result, 3)
            \o Each(3, LAMBDA k : V("set", Row(Result, 3, k), short(k)))]

(***************************************************************************)
(* What each class binds.                                                  *)
(***************************************************************************)
QuatBindings == <<QuatConstructors, QuatProduct, QuatInPlaceProduct, QuatDot, QuatRotate,
                  FromAxisAngle>>

Mat2Constructors == MatrixConstructors("mat2", 2)
Mat2Products == MatrixProducts("mat2", 2) @@ Application("mat2", 2)
Mat2Transposes == Transpose("mat2", 2) @@ TransposedGetter("mat2", 2)

Mat3Constructors == MatrixConstructors("mat3", 3)
Mat3Products == MatrixProducts("mat3", 3) @@ Application("mat3", 3)
Mat3Transpose == Transpose("mat3", 3)
Mat3Rotations == Rotations("mat3", 3)
Mat3Scales == Scales("mat3", 3)
Mat3Transposed == TransposedGetter("mat3", 3)

Mat4Constructors == MatrixConstructors("mat4", 4)
Mat4Products == MatrixProducts("mat4", 4)
Mat4Application == Application("mat4", 4)
Mat4Transpose == Transpose("mat4", 4)
Mat4Rotations == Rotations("mat4", 4)
Mat4Scales == Scales("mat4", 4)
Mat4Transposed == TransposedGetter("mat4", 4)

MatrixBindings ==
    <<Mat2Constructors, Mat2Products, Mat2Transposes,
      Mat3Constructors, Mat3OfQuat, Mat3Products, Mat3Transpose, Mat3Rotations, Mat3Scales,
      Mat3Transposed,
      Mat4Constructors, Mat4Products, Mat4Application, ApplyToVec3, Mat4Transpose,
      Mat4Rotations, Mat4Scales, Translations, LookAt, Perspective, Orthographic,
      Mat4Transposed, Basis>>

\* The methods, and the IR of one: it is in exactly one table.
Bindings == VectorBindings \o QuatBindings \o MatrixBindings
Methods == UNION {DOMAIN Bindings[k] : k \in DOMAIN Bindings}
Bound(m) == Bindings[CHOOSE k \in DOMAIN Bindings : m \in DOMAIN Bindings[k]][m]
=============================================================================
