------------------------------ MODULE Numbers ------------------------------
(***************************************************************************)
(* The scalar types of a script and the bit patterns that carry them.      *)
(* Registers and memory cells hold patterns of Wide bits and nothing in a  *)
(* pattern says which type wrote it: the macros GRf, GRd, GRi of VM.cpp    *)
(* read a register as whatever an instruction takes it for, and the same   *)
(* happens here.  Widths are scaled down (Wide for 64 bits, Single for 32, *)
(* Narrow for 8), and a float is a fixed-point number of its width, with   *)
(* OneD (OneS) patterns between 0 and 1: small enough to enumerate, yet an *)
(* integer read as a float is a different number, zero excepted.           *)
(***************************************************************************)
EXTENDS Integers, Sequences, FiniteSets, Bitwise

CONSTANTS Wide, Single, Narrow,   \* bits of 64, 32 and 8 bit numbers
          OneD, OneS              \* the patterns of 1.0 as f64 and as f32

ASSUME WidthsAssumption ==
    /\ {Wide, Single, Narrow} \subseteq Nat \ {0}
    /\ Narrow < Single /\ Single < Wide
    /\ {OneD, OneS} \subseteq Nat \ {0}
    /\ OneD % OneS = 0

\* What type_meta says of a primitive type, its size in bits.
Info == [i8  |-> [size |-> Narrow, unsigned |-> FALSE, float |-> FALSE],
         u8  |-> [size |-> Narrow, unsigned |-> TRUE,  float |-> FALSE],
         boolean |-> [size |-> Narrow, unsigned |-> TRUE, float |-> FALSE],
         i32 |-> [size |-> Single, unsigned |-> FALSE, float |-> FALSE],
         u32 |-> [size |-> Single, unsigned |-> TRUE,  float |-> FALSE],
         i64 |-> [size |-> Wide,   unsigned |-> FALSE, float |-> FALSE],
         u64 |-> [size |-> Wide,   unsigned |-> TRUE,  float |-> FALSE],
         f32 |-> [size |-> Single, unsigned |-> FALSE, float |-> TRUE],
         f64 |-> [size |-> Wide,   unsigned |-> FALSE, float |-> TRUE]]
Types == DOMAIN Info
IsFloat(tp) == Info[tp].float
IsUnsigned(tp) == Info[tp].unsigned

Low(bits, v) == v % 2^bits
Signed(bits, v) ==
    LET p == Low(bits, v) IN IF p >= 2^(bits - 1) THEN p - 2^bits ELSE p
\* The signed and the unsigned reading of a register, and back to a pattern.
I64(p) == Signed(Wide, p)
Reg(v) == Low(Wide, v)

Abs(v) == IF v < 0 THEN -v ELSE v
Sign(v) == IF v < 0 THEN -1 ELSE 1
\* Division and remainder as C computes them: towards zero.
Quot(a, b) == Sign(a) * Sign(b) * (Abs(a) \div Abs(b))
Rem(a, b) == a - b * Quot(a, b)
\* The one signed quotient that has no pattern.
Least == -(2^(Wide - 1))
QuotOverflows(a, b) == a = Least /\ b = -1
Sqrt(n) == CHOOSE r \in 0 .. n : r * r <= n /\ (r + 1) * (r + 1) > n
Clamp(lo, hi, v) == IF v < lo THEN lo ELSE IF v > hi THEN hi ELSE v
Truth(b) == IF b THEN 1 ELSE 0

(***************************************************************************)
(* Floats.  A real number is counted in units of 1 / OneD.                 *)
(***************************************************************************)
Coarse == OneD \div OneS
F64(p) == I64(p)
F32(p) == Coarse * Signed(Single, p)
ToF64(q) == Reg(Clamp(-(2^(Wide - 1)), 2^(Wide - 1) - 1, q))
ToF32(q) == Low(Single, Clamp(-(2^(Single - 1)), 2^(Single - 1) - 1,
                              Quot(q, Coarse)))
\* An f32 result replaces the low half of its register, the rest stays.
WithF32(p, q) == 2^Single * (p \div 2^Single) + ToF32(q)
ToInt(q) == Quot(q, OneD)
FromInt(v) == v * OneD

FAdd(a, b) == a + b
FSub(a, b) == a - b
FMul(a, b) == Quot(a * b, OneD)
FDiv(a, b) == IF b = 0 THEN Sign(a) * 2^Wide ELSE Quot(a * OneD, b)
FMod(a, b) == IF b = 0 THEN 0 ELSE Rem(a, b)
FSqrt(a) == Sqrt(a * OneD)

BitAnd(a, b) == a & b
BitOr(a, b) == a | b
BitXor(a, b) == a ^^ b

\* The number a pattern stands for when it is read as type tp, in units of
\* 1 / OneD for floats.
Meaning(tp, p) ==
    IF IsFloat(tp) THEN (IF Info[tp].size = Wide THEN F64(p) ELSE F32(p))
    ELSE IF IsUnsigned(tp) THEN Low(Info[tp].size, p)
    ELSE Signed(Info[tp].size, p)
\* The pattern a value of type tp has in a register that was loaded with it.
Pattern(tp, v) ==
    IF IsFloat(tp) THEN (IF Info[tp].size = Wide THEN ToF64(v) ELSE ToF32(v))
    ELSE Reg(v)
\* A number of type from as a number of type to, as C++ converts it.
Convert(from, to, v) ==
    LET whole == IF IsFloat(from) THEN ToInt(v) ELSE v
    IN  IF IsFloat(to)
        THEN Meaning(to, Pattern(to, IF IsFloat(from) THEN v ELSE FromInt(v)))
        ELSE Meaning(to, Low(Info[to].size, whole))
=============================================================================
