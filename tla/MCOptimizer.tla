---------------------------- MODULE MCOptimizer ----------------------------
(***************************************************************************)
(* Functions for Optimizer: three registers with values of their own and   *)
(* two pointers, which may point to the same cell, then instructions of    *)
(* one kind or another, then uses of what was computed.                    *)
(***************************************************************************)
EXTENDS Optimizer

MCRegs == 1 .. 5

(* What registers 1 to 5 and arguments 1 to 3 begin with: values that are  *)
(* far apart, one pointer, and one more that may point to the same cell.   *)
MCOrigins == {[n \in 11 .. 15 |-> <<30, 900, 27000, 1, q>>[n - 10]]
                @@ [n \in 1 .. 3 |-> <<1, 3 - q, 500>>[n]] : q \in Cells}

Instruction(op, operands) == [op |-> op, operands |-> operands, to |-> <<>>]
Label(l) == [op |-> "label", operands |-> <<>>, to |-> <<l>>]
Jump(l) == [op |-> "jump", operands |-> <<>>, to |-> <<l>>]
Branch(v, t, f) == [op |-> "branch", operands |-> <<v>>, to |-> <<t, f>>]
Def(r) == Instruction("stack_ptr", <<r, Imm(10 + r)>>)
Param(v) == Instruction("param", <<v>>)

Defs(n) == [r \in 1 .. n |-> Def(r)]
UseAll == <<Param(1), Param(2), Param(3)>>

Adds(S) == {Instruction("add", o) : o \in S}
Copies(S) == {Assign(o[1], o[2]) : o \in S}
Incs(S) == {Instruction("inc", <<r>>) : r \in S}

(* Arithmetic in one basic block.                                          *)
Arithmetic ==
  Copies({<<1, 2>>, <<2, 1>>, <<2, 3>>, <<3, 1>>})
    \cup Adds({<<1, 1, 2>>, <<3, 1, 2>>, <<2, 1, Imm(0)>>, <<3, Imm(1), Imm(1)>>})
    \cup Incs({1, 2})

Straight == {Defs(3) \o s \o UseAll : s \in [1 .. 3 -> Arithmetic]}

(* Loads, stores and what writes memory in other ways.                     *)
Loads == {Instruction("load", o) : o \in {<<1, 4>>, <<2, 4>>, <<2, 5>>}}
Stores == {Instruction("store", o) : o \in {<<1, 4>>, <<Imm(1), 4>>, <<3, 5>>}}
Accesses == Loads \cup Stores
Reads4 == {Instruction("vmag", <<r, 4>>) : r \in {1, 2}}
Effects ==
  {Instruction("call", <<>>), Instruction("vset", <<4>>), Assign(1, 2)} \cup Incs({1, 4})

Memories ==
  {Defs(5) \o <<a, b, c, d>> \o UseAll : a, d \in Accesses, b \in Loads \cup Effects, c \in Stores \cup Effects}
    \cup {Defs(5) \o <<a, b, c>> \o UseAll : a, c \in Reads4, b \in Stores \cup Effects}

(* Accesses at an offset between others.                                   *)
Shifted ==
  {Instruction("load", o \o <<Imm(1)>>) : o \in {<<1, 4>>, <<2, 4>>, <<1, 5>>}}
    \cup {Instruction("store", o \o <<Imm(1)>>) : o \in {<<1, 4>>, <<3, 5>>}}

Offsets ==
  {Defs(5) \o <<a, b, c>> \o UseAll : a \in Accesses, b \in Shifted, c \in Accesses \cup Shifted}

(* Accesses through two arguments, and stores of a third.                  *)
ArgumentLoads == {Instruction("load", o) : o \in {<<1, Arg(1)>>, <<2, Arg(1)>>, <<2, Arg(2)>>}}
ArgumentStores ==
  {Instruction("store", o) : o \in {<<1, Arg(1)>>, <<3, Arg(2)>>, <<Arg(3), Arg(1)>>, <<Arg(3), 4>>}}
ArgumentAccesses == ArgumentLoads \cup ArgumentStores

Arguments ==
  {Defs(5) \o <<a, b, c>> \o UseAll :
     a \in ArgumentAccesses, c \in ArgumentAccesses \cup {Instruction("load", <<1, 4>>)},
     b \in ArgumentAccesses \cup {Instruction("vset", <<Arg(2)>>), Assign(1, Arg(3))} \cup Effects}
    \cup {Defs(5) \o <<a, Instruction("load", <<1, 5>>), b, c>> \o UseAll :
           a \in {Instruction("store", <<Arg(3), p>>) : p \in {4, Arg(1)}},
           b \in {Instruction("load", <<1, p>>) : p \in {4, Arg(1)}},
           c \in {Instruction("load", <<1, 5>>), Instruction("store", <<1, 5>>)}}

(* A branch around an assignment, and a loop.                              *)
Bodies == {Assign(1, 2), Instruction("inc", <<1>>), Instruction("load", <<1, 4>>),
           Instruction("store", <<1, 4>>), Instruction("store", <<2, 4>>), Param(1)}

Branches == {Defs(4) \o <<a, Branch(2, 1, 2), Label(1), b, Jump(3), Label(2), c, Label(3)>> \o u :
               a, b, c \in Bodies, u \in {<<Param(1)>>, <<Param(2)>>}}

Loops == {Defs(4) \o <<a, Label(1), Branch(2, 2, 3), Label(2), b, c, Jump(1), Label(3)>> \o u :
            a, b, c \in Bodies, u \in {<<Param(1)>>, <<Param(2)>>}}

MCPrograms == Straight \cup Memories \cup Offsets \cup Arguments \cup Branches \cup Loops
=============================================================================
