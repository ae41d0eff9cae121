------------------------ MODULE MCRegisterAllocation ------------------------
(***************************************************************************)
(* Functions for RegisterAllocation to compile.                            *)
(***************************************************************************)
EXTENDS RegisterAllocation

MCGpRegs == 1 .. 5
MCFpRegs == 6 .. 7
MCRegCounts == 1 .. 3

Instruction(op, def, uses, res, to) ==
  [op |-> op, def |-> def, uses |-> uses, res |-> res, to |-> to, slot |-> 0,
   at |-> [v \in Vregs |-> <<ClassOf(v), v>>]]

Op(def, uses) == Instruction("op", def, uses, 0, <<>>)
Use(uses) == Op(0, uses)
Inc(v) == Instruction("inc", v, {}, 0, <<>>)
Label(id) == Instruction("label", 0, {}, 0, <<id>>)
JumpTo(id) == Instruction("jump", 0, {}, 0, <<id>>)
Branch(v, t, f) == Instruction("branch", 0, {v}, 0, <<t, f>>)
ReserveReg(v) == Instruction("reserve", v, {}, 0, <<>>)
ResolveTo(v, x) == Instruction("resolve", 0, {v, x}, v, <<>>)

Reading(S) == {{v} : v \in S} \cup {{v, w} : v, w \in S}

(* Straight code: values computed from earlier ones, then two uses.        *)
Straight ==
  {<<Op(1, {}), Op(2, u2), i3, Op(d4, u4), Use(u5), Use(u6)>> :
     u2 \in SUBSET {1}, i3 \in {Op(3, {}), Op(3, {1}), Op(1, {1, 2}), Op(1, {2}), Inc(2)},
     d4 \in {1, 3, 4}, u4 \in Reading({1, 2}), u5 \in Reading({1, 3, 4}), u6 \in Reading({1, 2, 4})}

(* A loop as compileLoop emits it, with the condition first or last, and   *)
(* values computed before it, used or recomputed in it and used after it.  *)
WhileLoop ==
  {<<Op(1, {}), Op(2, {}), Label(1), Branch(u, 2, 3), Label(2), b1, b2, JumpTo(1), Label(3), Use(w)>> :
     u \in {1, 2}, w \in {{1}, {2}},
     b1 \in {Op(3, {1}), Op(3, {}), Op(1, {1}), Op(2, {1}), Inc(2)},
     b2 \in {Use({2}), Use({3}), Op(1, {3}), Op(2, {2, 3}), Op(1, {}), Op(3, {3})}}

DoLoop ==
  {<<Op(1, {}), Op(2, {}), Label(1), b1, b2, Branch(u, 1, 2), Label(2), Use(w)>> :
     u \in {1, 2, 3}, w \in {{1}, {2}, {3}, {2, 3}},
     b1 \in {Op(3, {1}), Op(3, {}), Op(1, {1}), Op(2, {1}), Inc(2)},
     b2 \in {Use({2}), Use({3}), Op(1, {3}), Op(2, {2, 3}), Op(1, {}), Op(3, {3})}}

(* A conditional expression, in the order compileConditionalExpr emits it: *)
(* its result is reserved and resolved on either side, but on the true     *)
(* side behind the jump to the end.                                        *)
Conditional ==
  {<<Op(1, {}), Op(2, x), ReserveReg(3), Branch(1, 1, 2), Label(1), t, JumpTo(3),
     ResolveTo(3, r), Label(2), Op(5, {2}), ResolveTo(3, s), Label(3), Use(u)>> :
     x \in SUBSET {1}, t \in {Op(4, {}), Op(4, {1}), Op(4, {2})},
     r \in {1, 2, 4}, s \in {1, 5}, u \in {{3}, {2, 3}, {1, 3}}}

(* Values of both kinds in turn.                                           *)
Mixed ==
  {<<Op(1, {}), Op(6, x), Op(2, y), Op(7, z), Use(u), Use(w)>> :
     x \in SUBSET {1}, y \in SUBSET {1, 6}, z \in {{1}, {6}, {2}}, u \in {{1, 6}, {1, 2}, {6}},
     w \in {{2, 7}, {6, 7}, {1, 2}}}

Before(c, a) == UNION {Assigned(c[b]) : b \in 1 .. a - 1}
DefinedFirst(c) == \A a \in 1 .. Len(c) : Reads(c[a]) \subseteq Before(c, a)

Defined(S) == {c \in S : DefinedFirst(c)}

MCStraight == Defined(Straight)
MCWhile == Defined(WhileLoop)
MCConditional == Defined(Conditional)
MCMixed == Defined(Mixed)
MCPrograms == MCStraight \cup MCWhile \cup Defined(DoLoop) \cup MCConditional \cup MCMixed
=============================================================================
