---------------------------- MODULE Instructions ----------------------------
(***************************************************************************)
(* Instruction selection: what VMBackend::generate emits for one operation *)
(* of the IR.  An IR operation is [op, o1, o2, o3], op being <<class,      *)
(* name>> (ir_iadd is <<"int", "add">>, ir_ult is <<"uint", "lt">>), and   *)
(* an operand is [kind, id, tp, ptr, bits]: a virtual register or an       *)
(* immediate of type tp, or, with ptr, a register holding the address of a *)
(* tp.  Registers are taken to be allocated one to one (RegisterAllocation *)
(* and CallFrame are about the rest) and addresses to fit a register.      *)
(***************************************************************************)
EXTENDS VirtualMachine

None == [kind |-> "none", id |-> 0, tp |-> "none", ptr |-> FALSE, bits |-> 0]
RegOf(id, tp) == [None EXCEPT !.kind = "reg", !.id = id, !.tp = tp]
PtrOf(id, tp) == [RegOf(id, tp) EXCEPT !.ptr = TRUE]
ImmOf(tp, bits) == [None EXCEPT !.kind = "imm", !.tp = tp, !.bits = bits]
Ir(op, o1, o2, o3) == [op |-> op, o1 |-> o1, o2 |-> o2, o3 |-> o3]

IsImm(o) == o.kind = "imm"
IsPrimitive(tp) == tp \in Types
\* Value::isFloatingPoint: a pointer to a float is not one.
IsFloatingPoint(o) == /\ o.kind # "none" /\ IsPrimitive(o.tp)
                      /\ IsFloat(o.tp) /\ ~o.ptr

\* The register of an operand; f registers are those of floats.
Place(o) == IF o.kind # "reg" THEN Zero
            ELSE <<IF IsFloatingPoint(o) THEN "f" ELSE "s", o.id>>

\* An immediate as the emitted instruction carries it: an f32 goes through
\* float and back to the f64 the field holds.
Carried(o) == IF o.tp = "f32" THEN ToF64(F32(ToF32(F64(o.bits)))) ELSE o.bits

(***************************************************************************)
(* The lambda arith: an immediate on the right selects ri, one on the left *)
(* selects the third choice, which is the mirrored instruction where the   *)
(* operation is not symmetric.  Comparisons are mirrored wrongly: x < r    *)
(* becomes r >= x, and gte falls back on the register form, whose third    *)
(* operand is never set.                                                   *)
(***************************************************************************)
\* Mutant of OnTheLeft: the operands of a subtraction are exchanged.
OnTheLeftExchanged(fn) == CASE fn \in {"div", "sl", "sr"} -> <<fn, "ir">>
                            [] fn = "lt"  -> <<"gte", "ri">>
                            [] fn = "gt"  -> <<"lte", "ri">>
                            [] fn = "lte" -> <<"gt", "ri">>
                            [] fn = "gte" -> <<"lt", "rr">>
                            [] OTHER      -> <<fn, "ri">>
OnTheLeft(fn) == CASE fn \in {"sub", "div", "sl", "sr"} -> <<fn, "ir">>
                   [] fn = "lt"  -> <<"gte", "ri">>
                   [] fn = "gt"  -> <<"lte", "ri">>
                   [] fn = "lte" -> <<"gt", "ri">>
                   [] fn = "gte" -> <<"lt", "rr">>
                   [] OTHER      -> <<fn, "ri">>

Arith(cls, fn, ir) ==
    LET left == OnTheLeft(fn)
    IN  IF IsImm(ir.o3)
        THEN <<Instr(cls, fn, "ri", Place(ir.o1), Place(ir.o2), Zero, Carried(ir.o3))>>
        ELSE IF IsImm(ir.o2)
        THEN <<Instr(cls, left[1], left[2], Place(ir.o1), Place(ir.o3), Zero,
                     Carried(ir.o2))>>
        ELSE <<Instr(cls, fn, "rr", Place(ir.o1), Place(ir.o2), Place(ir.o3), 0)>>

\* add, sub, mul and div; the remainders emit nothing; inc and dec work on
\* their first operand.
One(cls) == IF cls \in {"flt", "dbl"} THEN OneD ELSE 1
SelectArithmetic(ir) ==
    LET cls == ir.op[1]
        r1 == Place(ir.o1)
    IN  CASE ir.op[2] = "mod" -> <<>>
          [] ir.op[2] = "inc" -> <<Instr(cls, "add", "ri", r1, r1, Zero, One(cls))>>
          [] ir.op[2] = "dec" -> <<Instr(cls, "sub", "ri", r1, r1, Zero, One(cls))>>
          [] OTHER -> Arith(cls, ir.op[2], ir)

SelectBits(ir) == Arith("bit", ir.op[2], ir)

\* Unsigned comparisons use the signed instructions.
CompareClass == [int |-> "icmp", uint |-> "icmp", flt |-> "fcmp", dbl |-> "dcmp"]
SelectComparison(ir) == Arith(CompareClass[ir.op[1]], ir.op[2], ir)

\* ineg, fneg and dneg; ir_not and ir_inv emit nothing.
SelectNegation(ir) ==
    IF ir.op[2] \in {"not", "inv"} THEN <<>>
    ELSE <<Instr(ir.op[1], "neg", "r", Place(ir.o1), Place(ir.o2), Zero, 0)>>

(***************************************************************************)
(* assign and resolve: an addition of zero, or, between the two kinds of   *)
(* register, a converted immediate or a copy of the bits.                  *)
(***************************************************************************)
WholeOf(o) == IF IsUnsigned(o.tp) THEN o.bits ELSE I64(o.bits)
AddClass(o) == IF IsFloatingPoint(o) THEN (IF o.tp = "f64" THEN "dbl" ELSE "flt")
               ELSE IF ~IsPrimitive(o.tp) \/ IsUnsigned(o.tp) THEN "uint" ELSE "int"
AddImm(o, imm) == Instr(AddClass(o), "add", "ri", Place(o), Zero, Zero, imm)
AddZero(o, from) == Instr(AddClass(o), "add", "rr", Place(o), from, Zero, 0)
Move(from, to) == Instr("move", "bits", "rr", from, to, Zero, 0)

SelectAssign(ir) ==
    LET to == ir.o1
        from == ir.o2
        crosses == IsFloatingPoint(to) # IsFloatingPoint(from)
    IN  CASE crosses /\ IsImm(from) /\ IsFloatingPoint(to) ->
                <<AddImm(to, ToF64(FromInt(WholeOf(from))))>>
          [] crosses /\ IsImm(from) /\ IsFloatingPoint(from) ->
                <<AddImm(to, Reg(ToInt(F64(from.bits))))>>
          [] crosses /\ ~IsImm(from) -> <<Move(Place(from), Place(to))>>
          [] ~crosses /\ IsImm(from) -> <<AddImm(to, Carried(from))>>
          [] OTHER -> <<AddZero(to, Place(from))>>

(***************************************************************************)
(* cvt.  An immediate is converted here and narrowed to the size of the    *)
(* type, but the narrowed bits are then zero extended; a register is       *)
(* copied and converted in place, and integers are not narrowed.           *)
(***************************************************************************)
Cvt(fn, o) == <<Instr("cvt", fn, "r", Place(o), Zero, Zero, 0)>>
Letter(tp) == IF IsFloat(tp) THEN (IF tp = "f64" THEN "d" ELSE "f")
              ELSE IF IsUnsigned(tp) THEN "u" ELSE "i"
CvtName == [f |-> [d |-> "fd", i |-> "fi", u |-> "fu"],
            d |-> [f |-> "df", i |-> "di", u |-> "du"],
            i |-> [d |-> "id", f |-> "if", u |-> "iu"],
            u |-> [d |-> "ud", f |-> "uf", i |-> "ui"]]
ConvertedImm(from, to) ==
    LET number == IF IsFloat(from.tp) THEN F64(from.bits) ELSE FromInt(WholeOf(from))
    IN  CASE to = "f32" -> ToF64(F32(ToF32(number)))
          [] to = "f64" -> ToF64(number)
          [] OTHER -> Low(Info[to].size,
                          IF IsFloat(from.tp) THEN ToInt(number) ELSE WholeOf(from))

SelectConvert(ir) ==
    LET from == ir.o2
        to == ir.o1
        a == Letter(from.tp)
        b == Letter(to.tp)
        cvt == IF a = b THEN <<>> ELSE Cvt(CvtName[a][b], to)
    IN  CASE IsImm(from) -> <<AddImm(to, ConvertedImm(from, to.tp))>>
          [] IsFloat(from.tp) # IsFloat(to.tp) -> <<Move(Place(from), Place(to))>> \o cvt
          [] OTHER ->
                <<Instr(AddClass([to EXCEPT !.tp = from.tp]), "add", "rr", Place(to),
                        Place(from), Zero, 0)>> \o cvt

(***************************************************************************)
(* Loads and stores.  What the bits of an immediate say decides whether    *)
(* the zero register can be stored instead.                                *)
(***************************************************************************)
Access(o) == IF ~IsPrimitive(o.tp) \/ o.ptr THEN "64"
             ELSE CASE Info[o.tp].size = Narrow -> "8"
                    [] Info[o.tp].size = Single -> "32"
                    [] Info[o.tp].size = Wide   -> "64"
Offset(o) == IF IsImm(o) THEN o.bits ELSE 0

SelectLoad(ir) ==
    <<Instr("ld", "ld", Access(ir.o1), Place(ir.o1), Place(ir.o2), Zero, Offset(ir.o3))>>

SelectStore(ir) ==
    LET value == ir.o1
        scratch == IF IsFloatingPoint(value) THEN <<"vf", 3>> ELSE <<"v", 3>>
        needed == IsImm(value) /\ value.bits # 0
        from == IF needed THEN scratch ELSE Place(value)
        cls == IF IsFloatingPoint(value) THEN AddClass(value) ELSE "uint"
    IN  (IF needed
         THEN <<Instr(cls, "add", "ri", scratch, Zero, Zero, Carried(value))>>
         ELSE <<>>)
        \o <<Instr("st", "st", Access(value), from, Place(ir.o2), Zero, Offset(ir.o3))>>

(***************************************************************************)
(* Vectors.  The first operand's type fixes the size, except for dot, mag  *)
(* and magsq, where the second's does; a type that is no vector (quat)     *)
(* selects nothing.                                                        *)
(***************************************************************************)
VecInfo == [vec2f |-> [n |-> 2, tp |-> "f32"], vec2d |-> [n |-> 2, tp |-> "f64"],
            vec3f |-> [n |-> 3, tp |-> "f32"], vec3d |-> [n |-> 3, tp |-> "f64"],
            vec4f |-> [n |-> 4, tp |-> "f32"], vec4d |-> [n |-> 4, tp |-> "f64"]]
VecInstr(tp, fn, form, ir) ==
    IF tp \notin DOMAIN VecInfo THEN <<>>
    ELSE <<[Instr("vec", <<VecInfo[tp].n, fn>>, form, Place(ir.o1), Place(ir.o2),
                  Place(ir.o3), ir.o2.bits) EXCEPT !.tp = VecInfo[tp].tp]>>
VecForm(o) == IF IsImm(o) THEN "si" ELSE IF IsPrimitive(o.tp) THEN "s" ELSE "v"

SelectVset(ir) == VecInstr(ir.o1.tp, "set", VecForm(ir.o2), ir)
SelectVadd(ir) == VecInstr(ir.o1.tp, "add", VecForm(ir.o2), ir)
SelectVsub(ir) == VecInstr(ir.o1.tp, "sub", VecForm(ir.o2), ir)
SelectVmul(ir) == VecInstr(ir.o1.tp, "mul", VecForm(ir.o2), ir)
SelectVdiv(ir) == VecInstr(ir.o1.tp, "div", VecForm(ir.o2), ir)
SelectVmod(ir) == VecInstr(ir.o1.tp, "mod", VecForm(ir.o2), ir)
SelectVneg(ir) == VecInstr(ir.o1.tp, "neg", "v", ir)
SelectVmeasure(ir) == VecInstr(ir.o2.tp, ir.op[2], "v", ir)
SelectVnorm(ir) == VecInstr(ir.o1.tp, "norm", "v", ir)
SelectVcross(ir) ==
    IF ir.o1.tp \in {"vec2f", "vec2d"} THEN <<>> ELSE VecInstr(ir.o1.tp, "cross", "v", ir)

SelectVector(ir) ==
    CASE ir.op[2] = "set"   -> SelectVset(ir)
      [] ir.op[2] = "add"   -> SelectVadd(ir)
      [] ir.op[2] = "sub"   -> SelectVsub(ir)
      [] ir.op[2] = "mul"   -> SelectVmul(ir)
      [] ir.op[2] = "div"   -> SelectVdiv(ir)
      [] ir.op[2] = "mod"   -> SelectVmod(ir)
      [] ir.op[2] = "neg"   -> SelectVneg(ir)
      [] ir.op[2] = "norm"  -> SelectVnorm(ir)
      [] ir.op[2] = "cross" -> SelectVcross(ir)
      [] OTHER -> SelectVmeasure(ir)

(***************************************************************************)
(* Branches.  A float condition is first compared with zero.  The truth    *)
(* label follows its branch in every construct of the compiler, so only    *)
(* the other label is branched to; o3.id (o1.id of a jump) is the place of *)
(* the label in the IR, and address gives its place in the code, which the *)
(* code knows at once or patches when the label is reached.                *)
(***************************************************************************)
SelectBranch(ir, address) ==
    IF IsFloatingPoint(ir.o1)
    THEN <<Instr(IF ir.o1.tp = "f64" THEN "dcmp" ELSE "fcmp", "ncmp", "rr", <<"v", 1>>,
                 Place(ir.o1), Zero, 0),
           Instr("branch", "bneqz", "r", <<"v", 1>>, Zero, Zero, address)>>
    ELSE <<Instr("branch", "bneqz", "r", Place(ir.o1), Zero, Zero, address)>>
SelectJump(address) == <<Instr("branch", "jmp", "r", Zero, Zero, Zero, address)>>

Target(ir) == CASE ir.op[2] = "branch" -> ir.o3.id
                [] ir.op[2] = "jump"   -> ir.o1.id
                [] OTHER               -> 1

Comparisons == {"lt", "lte", "gt", "gte", "cmp", "ncmp"}
Select(ir, address) ==
    LET fn == ir.op[2]
    IN  CASE ir.op[1] = "vec" -> SelectVector(ir)
          [] ir.op[1] = "bit" -> SelectBits(ir)
          [] ir.op[1] \in DOMAIN CompareClass ->
                CASE fn \in Comparisons -> SelectComparison(ir)
                  [] fn = "neg" -> SelectNegation(ir)
                  [] OTHER -> SelectArithmetic(ir)
          [] fn \in {"not", "inv"} -> SelectNegation(ir)
          [] fn = "assign" -> SelectAssign(ir)
          [] fn = "cvt"    -> SelectConvert(ir)
          [] fn = "load"   -> SelectLoad(ir)
          [] fn = "store"  -> SelectStore(ir)
          [] fn = "branch" -> SelectBranch(ir, address)
          [] fn = "jump"   -> SelectJump(address)
          [] fn \in {"noop", "label"} -> <<>>

\* The code of a list of operations: each one's instructions in turn.
Generate(irs) ==
    LET size(k) == Len(Select(irs[k], 0))
        before[k \in 1 .. Len(irs) + 1] ==
            IF k = 1 THEN 0 ELSE before[k - 1] + size(k - 1)
        emit[k \in 0 .. Len(irs)] ==
            IF k = 0 THEN <<>>
            ELSE emit[k - 1] \o Select(irs[k], before[Target(irs[k])] + 1)
    IN  emit[Len(irs)]
=============================================================================
