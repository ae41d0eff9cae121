--------------------------- MODULE MathReference ---------------------------
(***************************************************************************)
(* What the methods of the math module are for, written without looking at *)
(* the IR they emit: the mathematical result of each, over numbers counted *)
(* in units of 1 / OneD, and the inputs on which the two are compared.     *)
(* An input is [self, arg, others, scalars, answers]: the components of    *)
(* the objects, row by row, and the scalars.                               *)
(***************************************************************************)
EXTENDS MatrixMath

Components == [vec2 |-> 2, vec3 |-> 3, vec4 |-> 4, quat |-> 4,
               mat2 |-> 4, mat3 |-> 9, mat4 |-> 16]
Side == [vec2 |-> 2, vec3 |-> 3, vec4 |-> 4, mat2 |-> 2, mat3 |-> 3, mat4 |-> 4]
Matrices == {"mat2", "mat3", "mat4"}

\* The class of the first argument, when it is an object.
ArgClass(m) ==
    CASE m[3] = "v" /\ (m[1] \in {"quat"} \/ m[2] \in {"rotation", "scale", "translation", "lookAt"}) -> "vec3"
      [] m[3] = "vec3" -> "vec3"
      [] m[3] \in {"v", "rows"} -> IF m[1] \in Matrices THEN VecName[Side[m[1]]] ELSE m[1]
      [] m[3] = "q" -> "quat"
      [] m[3] = "m" -> m[1]
      [] m[3] = "narrower" -> VecName[Side[m[1]] - 1]
      [] OTHER -> "none"
\* How many components the result has, if it is an object.
ResultSize(m) ==
    CASE m[2] \in DOMAIN Picks -> Len(Picks[m[2]])
      [] m[2] = "basis" -> 9
      [] m[2] = "*" /\ m[3] = "v" -> Components[ArgClass(m)]
      [] m[3] = "vec3" -> 4
      [] OTHER -> Components[m[1]]

(***************************************************************************)
(* Mathematics.                                                            *)
(***************************************************************************)
SumOf(s) == FoldLeft(FAdd, 0, s)
Dot(a, b) == SumOf([k \in DOMAIN a |-> FMul(a[k], b[k])])
Length(a) == FSqrt(Dot(a, a))
Times(a, q) == [k \in DOMAIN a |-> FMul(a[k], q)]
Plus(a, b) == [k \in DOMAIN a |-> FAdd(a[k], b[k])]
Minus(a, b) == Plus(a, Times(b, -OneD))
CrossOf(a, b) == LET at(j, k) == FMul(a[j], b[k]) - FMul(a[k], b[j])
                 IN  <<at(2, 3), at(3, 1), at(1, 2)>>
Unit(n, k) == [j \in 1 .. n |-> IF j = k THEN OneD ELSE 0]

\* (a, s) (b, t) = (s b + t a + a x b, s t - a . b).
QuatTimes(p, q) ==
    LET a == SubSeq(p, 1, 3)
        b == SubSeq(q, 1, 3)
    IN  Plus(Plus(Times(b, p[4]), Times(a, q[4])), CrossOf(a, b))
        \o <<FMul(p[4], q[4]) - Dot(a, b)>>
\* v + 2 s (a x v) + 2 a x (a x v), the rotation of v by the unit (a, s).
Rotated(q, v) ==
    LET a == SubSeq(q, 1, 3)
        once == Times(CrossOf(a, v), 2 * OneD)
    IN  Plus(v, Plus(Times(once, q[4]), CrossOf(a, once)))

Grid(n, f(_, _)) == Each(n, LAMBDA row : [col \in 1 .. n |-> f(row, col - 1)])
EntryOf(a, n, row, col) == a[n * row + col + 1]
RowOf(a, n, row) == SubSeq(a, n * row + 1, n * row + n)
ColumnOf(a, n, col) == [row \in 1 .. n |-> EntryOf(a, n, row - 1, col)]
MatrixTimes(a, b, n) == Grid(n, LAMBDA row, col : Dot(RowOf(a, n, row), ColumnOf(b, n, col)))
RowTimes(v, a, n) == [k \in 1 .. n |-> Dot(v, ColumnOf(a, n, k - 1))]
Turn(a, n) == Grid(n, LAMBDA row, col : EntryOf(a, n, col, row))
\* A matrix of 3 rows as the first rows and columns of an n by n matrix.
Within(a, n) == Grid(n, LAMBDA row, col :
    IF row < 3 /\ col < 3 THEN EntryOf(a, 3, row, col) ELSE Truth(row = col) * OneD)
\* The rows of a rotation are the rotated axes: a row vector is multiplied.
RotationOf(q, n) ==
    Within(Rotated(q, Unit(3, 1)) \o Rotated(q, Unit(3, 2)) \o Rotated(q, Unit(3, 3)), n)
DiagonalOf(d, n) == Within(Grid(3, LAMBDA row, col : IF row = col THEN d[row + 1] ELSE 0), n)

(***************************************************************************)
(* The expected result.                                                    *)
(***************************************************************************)
Built(m, in) ==
    CASE m[3] = "none"  -> IF m[1] \in Matrices THEN Grid(Side[m[1]], LAMBDA row, col : Truth(row = col) * OneD)
                           ELSE [k \in 1 .. Components[m[1]] |-> 0]
      [] m[3] = "parts" -> SubSeq(in.scalars, 1, Components[m[1]])
      [] m[3] = "s"     -> [k \in 1 .. Components[m[1]] |-> in.scalars[1]]
      [] m[3] = "i"     -> [k \in 1 .. Components[m[1]] |-> 2 * OneD]
      [] m[3] = "narrower" -> Append(in.arg, in.scalars[1])
      [] m[3] = "rows"  -> in.arg \o FlattenSeq(in.others)
      [] m[3] = "q" /\ m[1] = "mat3" -> RotationOf(in.arg, 3)
      [] OTHER          -> in.arg

Calculated(m, in) ==
    LET second(k) == CASE m[3] = "v" -> in.arg[k]
                       [] m[3] = "s" -> in.scalars[1]
                       [] m[3] = "i" -> 2 * OneD
    IN  [k \in DOMAIN in.self |-> Real(OpName[m[2]], in.self[k], second(k))]

Multiplied(m, in) ==
    CASE m[1] = "quat" /\ m[3] = "q" -> QuatTimes(in.self, in.arg)
      [] m[1] = "quat" /\ m[3] = "v" -> Rotated(in.self, in.arg)
      [] m[3] = "m" -> MatrixTimes(in.self, in.arg, Side[m[1]])
      [] m[3] = "vec3" -> RowTimes(Append(in.arg, OneD), in.self, 4)
      [] OTHER -> RowTimes(in.arg, in.self, Side[m[1]])

\* The vector, or the three scalars, that a static method is given.
Three(m, in) == CASE m[3] = "v" -> in.arg
                  [] m[3] = "s" -> [k \in 1 .. 3 |-> in.scalars[1]]
                  [] m[3] = "parts" -> SubSeq(in.scalars, 1, 3)
Made(m, in) ==
    CASE m[2] = "rotation" ->
            RotationOf(Append(Three(m, in), in.scalars[IF m[3] = "v" THEN 1 ELSE 4]), Side[m[1]])
      [] m[2] = "scale" -> DiagonalOf(Three(m, in), Side[m[1]])
      [] m[2] = "translation" ->
            Grid(4, LAMBDA row, col : IF row = 3 /\ col < 3 THEN Three(m, in)[col + 1]
                                      ELSE Truth(row = col) * OneD)
      [] m[2] = "fromAxisAngle" -> Append(Times(Three(m, in), in.answers[1]), in.answers[2])

IsCalculation(m) == m[1] \in {"vec2", "vec3", "vec4"} /\ m[2] \in DOMAIN OpName
Expected(m, in) ==
    CASE m[2] \in {"new", "="} -> Built(m, in)
      [] m[2] = "length"   -> <<Length(in.self)>>
      [] m[2] = "lengthSq" -> <<Dot(in.self, in.self)>>
      [] m[2] = "dot"      -> <<Dot(in.self, in.arg)>>
      [] m[2] = "cross"    -> CrossOf(in.self, in.arg) \o (IF m[1] = "vec4" THEN <<0>> ELSE <<>>)
      [] m[2] \in {"normalize", "normal"} ->
            [k \in DOMAIN in.self |-> FDiv(in.self[k], Length(in.self))]
      [] IsCalculation(m)  -> Calculated(m, in)
      [] m[2] = "*" /\ ~IsCalculation(m) -> Multiplied(m, in)
      [] m[2] = "negate"   -> Times(in.self, -OneD)
      [] m[2] \in DOMAIN Picks -> [k \in DOMAIN Picks[m[2]] |-> in.self[Picks[m[2]][k] + 1]]
      [] m[2] \in {"transpose", "transposed"} -> Turn(in.self, Side[m[1]])
      [] m[2] = "basis" -> Grid(3, LAMBDA row, col : EntryOf(in.self, 4, row, col))
      [] OTHER -> Made(m, in)

\* A point of a scene as the matrix takes it to the eye's coordinates.
Placed(a, point) == RowTimes(Append(point, OneD), a, 4)
\* lookAt puts the eye at the origin and the center on the axis -z.
LooksAt(in, a) ==
    LET distance == Length(Minus(in.others[1], in.arg))
    IN  /\ Placed(a, in.arg) = <<0, 0, 0, OneD>>
        /\ Placed(a, in.others[1]) = <<0, 0, -distance, OneD>>
\* perspective takes the near plane to -1 and the far plane to 1, after the
\* division by w; orthographic takes the corners of the box to -1 and 1.
Projects(in, a) ==
    LET near == Placed(a, <<OneD, OneD, -in.scalars[3]>>)
        far == Placed(a, <<OneD, OneD, -in.scalars[4]>>)
    IN  /\ near[3] = -near[4] /\ far[3] = far[4]
        /\ near[1] = FDiv(OneD, in.answers[1]) /\ near[2] = FMul(near[1], in.scalars[2])
Boxes(in, a) ==
    /\ Placed(a, <<in.scalars[1], in.scalars[3], -in.scalars[5]>>) = <<-OneD, -OneD, -OneD, OneD>>
    /\ Placed(a, <<in.scalars[2], in.scalars[4], -in.scalars[6]>>) = <<OneD, OneD, OneD, OneD>>

\* The numbers of s as a T holds them.
Rounded(T, s) == [k \in DOMAIN s |-> Scalar(T, ToScalar(T, s[k]))]
Meets(m, in, out, T) == CASE m[2] = "lookAt" -> LooksAt(in, out)
                          [] m[2] = "perspective" -> Projects(in, out)
                          [] m[2] = "orthographic" -> Boxes(in, out)
                          [] OTHER -> out = Rounded(T, Expected(m, in))
=============================================================================
