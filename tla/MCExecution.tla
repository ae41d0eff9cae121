---------------------------- MODULE MCExecution ----------------------------
(***************************************************************************)
(* The programs Execution compiles and runs: every method of the math      *)
(* module in f32 and f64, on inputs whose results are exact, and           *)
(* expressions on numbers of every type.                                   *)
(***************************************************************************)
EXTENDS Execution

\* n small whole numbers, with zeros and signs in different places.
Vals(n, salt, seed) ==
    [k \in 1 .. n |-> OneD * (((k * k + salt * k + seed * (k + salt)) % 5) - 2)]
\* The same without zeros, and with nothing but -1, 0 and 1.
NonZero(n, salt, seed) ==
    [k \in 1 .. n |-> OneD * <<-2, -1, 1, 2>>[((k * k + salt + seed * k) % 4) + 1]]
Units(n, salt, seed) ==
    [k \in 1 .. n |-> OneD * (((k * k + salt * k + seed * (k + salt)) % 3) - 1)]
Whole2(s) == [k \in DOMAIN s |-> OneD * s[k]]

In(self, arg, others, scalars, answers) ==
    [self |-> self, arg |-> arg, others |-> others, scalars |-> scalars, answers |-> answers]

Static(m) == m[2] \in {"new", "rotation", "scale", "translation", "fromAxisAngle",
                       "lookAt", "perspective", "orthographic"}
Size(class) == IF class = "none" THEN 0 ELSE Components[class]

\* The inputs of a method that takes any numbers.
Generic(m, seed) ==
    LET small == m[1] = "quat" \/ m[2] \in {"rotation"} \/ m[3] = "q"
        some(n, salt) == IF small THEN Units(n, salt, seed)
                         ELSE IF m[2] \in {"/", "%"} THEN NonZero(n, salt, seed)
                         ELSE Vals(n, salt, seed)
    IN  In(IF Static(m) THEN <<>> ELSE some(Components[m[1]], 1),
           some(Size(ArgClass(m)), 2),
           IF m[3] = "rows" THEN [k \in 1 .. Side[m[1]] - 1 |-> some(Side[m[1]], 2 + k)] ELSE <<>>,
           IF m[3] \in {"s", "parts", "narrower"} \/ m[2] \in {"rotation", "fromAxisAngle"}
           THEN some(16, 3) ELSE <<>>,
           IF m[2] = "fromAxisAngle" THEN Whole2(<<2, -1>>) ELSE <<>>)

\* Vectors of length 2, and of length 5 for length itself.
OfLength2(n) == {[k \in 1 .. n |-> IF k = j THEN s * 2 * OneD ELSE 0] : j \in 1 .. n, s \in {-1, 1}}
                \cup (IF n = 4 THEN {Whole2(<<1, -1, 1, 1>>)} ELSE {})
OfLength5(n) == {[k \in 1 .. n |-> CASE k = n -> 4 * OneD [] k = 1 -> -3 * OneD [] OTHER -> 0]}

UnitQuats(T) ==
    {[k \in 1 .. 4 |-> IF k = j THEN s * OneD ELSE 0] : j \in 1 .. 4, s \in {-1, 1}}
    \cup (IF T = "f64" THEN {[k \in 1 .. 4 |-> IF k = j THEN -(OneD \div 2) ELSE OneD \div 2] : j \in 1 .. 5}
          ELSE {})

Inputs(m, T) ==
    CASE m[2] \in {"normalize", "normal"} ->
            {In(v, <<>>, <<>>, <<>>, <<>>) : v \in OfLength2(Components[m[1]])}
      [] m[2] = "length" ->
            {In(v, <<>>, <<>>, <<>>, <<>>) :
                v \in OfLength2(Components[m[1]]) \cup OfLength5(Components[m[1]])}
      [] m[1] = "quat" /\ m[2] = "*" /\ m[3] = "v" ->
            {In(q, Vals(3, 2, seed), <<>>, <<>>, <<>>) : q \in UnitQuats(T), seed \in {1}}
      [] m[2] = "lookAt" ->
            {In(<<>>, Whole2(s[1]), <<Whole2(s[2]), Whole2(s[3])>>, <<>>, <<>>) :
                s \in {<< <<1, 2, 0>>, <<1, 2, -2>>, <<0, 1, 0>> >>,
                       << <<0, 1, 1>>, <<2, 1, 1>>, <<0, 0, 1>> >>,
                       << <<-1, 0, 2>>, <<-1, -2, 2>>, <<1, 0, 0>> >>}}
      [] m[2] = "perspective" ->
            {In(<<>>, <<>>, <<>>, Whole2(s), <<a>>) :
                s \in {<<1, 2, 1, 2>>, <<1, 1, 1, 3>>}, a \in {OneD, OneD \div 2}}
      [] m[2] = "orthographic" ->
            {In(<<>>, <<>>, <<>>, Whole2(s), <<>>) :
                s \in {<<-1, 1, -1, 1, 1, 3>>, <<0, 2, 1, 3, 1, 3>>}}
      [] OTHER -> {Generic(m, seed) : seed \in {1, 2}}

Aliases(m) == IF ArgClass(m) = m[1] /\ ~Static(m) /\ m[2] # "lookAt" THEN BOOLEAN ELSE {FALSE}
MethodCalls ==
    UNION {{[kind |-> "vector", method |-> m, T |-> T, same |-> same,
             in |-> IF same THEN [in EXCEPT !.arg = in.self] ELSE in] :
               same \in Aliases(m), in \in Inputs(m, T)} :
              m \in Methods, T \in {"f32", "f64"}}


(***************************************************************************)
(* Expressions.                                                            *)
(***************************************************************************)
Operations == [over |-> 1, rem |-> 1, plus |-> 1, minus |-> 1, times |-> 1,
               bitand |-> 2, bitor |-> 2, bitxor |-> 2, left |-> 3, right |-> 3,
               both |-> 4, either |-> 4,
               lt |-> 5, lte |-> 5, gt |-> 5, gte |-> 5, eq |-> 5, neq |-> 5]
LeftValues(tp) == CASE IsFloat(tp) -> {-(5 * OneD) \div 2, 2 * OneD}
                    [] tp = "boolean" -> {0, 1}
                    [] IsUnsigned(tp) -> {3, 2^Info[tp].size - 1}
                    [] OTHER -> {-5, 3}
RightValues(op, tp) ==
    CASE op \in {"left", "right"} -> IF IsFloat(tp) THEN {OneD} ELSE {1}
      [] IsFloat(tp) -> {0, 2 * OneD}
      [] tp = "boolean" -> {0, 1}
      [] IsUnsigned(tp) -> {0, 1, 3}
      [] OTHER -> {-2, 0, 3}
Val(how, tp, v) == [how |-> how, tp |-> tp, v |-> v]
Vals1(hows, tp, vs) == {Val(how, tp, v) : how \in hows, v \in vs}
Nothing == Val("imm", "boolean", 0)
Expr(shape, op, left, right, to) ==
    [kind |-> "scalar", shape |-> shape, op |-> op, left |-> left, right |-> right, to |-> to]

Binaries(shape, op, tp, tr, lhows, rhows) ==
    {Expr(shape, op, l, r, tp) :
        l \in Vals1(lhows, tp, LeftValues(tp)), r \in Vals1(rhows, tr, RightValues(op, tr))}
Hows == {"reg", "imm", "ptr"}
Ops == DOMAIN Operations
Numeric == Types \ {"boolean"}
Values ==
    UNION {Binaries("value", op, tp, tp, Hows, Hows) : op \in Ops, tp \in Numeric}
Mixed ==
    UNION {Binaries("value", op, tp, tr, {"reg"}, {"reg", "imm"}) :
              op \in {"plus", "lt"}, tp \in Types, tr \in Types}
Updates ==
    UNION {Binaries("update", op, tp, tp, {"reg", "ptr", "prop"}, {"reg"}) :
              op \in {"plus", "over", "left", "both"}, tp \in Numeric}
Assignments ==
    UNION {Binaries("assign", "none", tp, tr, {"reg", "ptr", "prop"}, {"imm", "ptr", "reg"}) :
              tp \in Types, tr \in {"i8", "u8", "i64", "f32", "f64"}}
LateReads ==
    UNION {Binaries("late", "minus", tp, tp, {"reg", "ptr"}, {"imm"}) : tp \in {"i32", "f64"}}
Unaries ==
    UNION {{Expr("unary", op, l, Nothing, tp) :
               l \in Vals1({"reg", "ptr", "prop"} \cup (IF op \in Assigning THEN {} ELSE {"imm"}),
                           tp, LeftValues(tp) \cup {0})} :
             op \in {"negate", "not", "invert"} \cup Assigning, tp \in Numeric}
Conditions ==
    UNION {{Expr("if", "none", l, Nothing, tp) :
               l \in Vals1(Hows, tp, LeftValues(tp) \cup {0, OneD \div 2})} : tp \in Types}
Branches ==
    UNION {Binaries("ifBinary", op, tp, tp, {"reg"}, {"reg", "imm"}) :
              op \in {"plus", "minus", "eq", "lt", "both"}, tp \in Numeric}
Casts ==
    UNION {{Expr("cast", "none", l, Nothing, to) : l \in Vals1(Hows, tp, LeftValues(tp))} :
             tp \in Types, to \in Types}

\* The quotients of the least number of each signed type.
Overflows ==
    {Expr("value", op, Val(lhow, tp, -(2^(Info[tp].size - 1))), Val(rhow, tp, r), tp) :
        op \in {"over", "rem"}, tp \in {"i8", "i32", "i64"}, lhow \in Hows, rhow \in Hows, r \in {-1, 1}}

\* The last cells there are: no program of the run puts an object there.
MCStackPadding == 2^Wide - 8 .. 2^Wide - 1

MCPrograms == <<MethodCalls, Values, Overflows, Mixed, Updates, Assignments, LateReads, Unaries,
                Conditions, Branches, Casts>>
=============================================================================
