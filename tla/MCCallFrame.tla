----------------------------- MODULE MCCallFrame -----------------------------
(***************************************************************************)
(* Modules for CallFrame to compile and run.  The host (1) calls main (2), *)
(* main calls f (3), f calls g (4), and g, a script or a host function,    *)
(* may call h (5).  The first argument of each is the context pointer.     *)
(***************************************************************************)
EXTENDS CallFrame

MCArgCount == [c \in Classes |-> IF c = "gp" THEN 3 ELSE 1]

o(k, c, i) == [k |-> k, c |-> c, i |-> i]
arg(i) == o("arg", "gp", i)
farg(i) == o("arg", "fp", i)
s(i) == o("reg", "gp", i)
fs(i) == o("reg", "fp", i)
slot(i) == o("stack", "gp", i)
imm(f) == o("imm", "gp", f)

I(op, operands, to) == [op |-> op, o |-> operands, to |-> to]
Op(operands) == I("op", operands, <<>>)
Use(operands) == I("use", operands, <<>>)
Ret == I("ret", <<>>, <<>>)
Label(l) == I("label", <<>>, <<l>>)
JumpTo(l) == I("jump", <<>>, <<l>>)
Branch(x, t, f) == I("branch", <<x>>, <<t, f>>)
Slot(id) == I("stack_allocate", <<>>, <<id>>)
NoSlot(id) == I("stack_free", <<>>, <<id>>)
CallOf(callee, f, params) == [n \in DOMAIN params |-> I("param", <<params[n]>>, <<>>)] \o <<I("call", <<callee>>, <<f>>)>>

ScriptFn(args, code) == [host |-> FALSE, args |-> args, code |-> code, calls |-> <<>>]
HostFn(args, calls) == [host |-> TRUE, args |-> args, code |-> <<>>, calls |-> calls]
Calls(f, args) == <<[fn |-> f, args |-> args]>>

gp2 == <<"gp", "gp">>
gp3 == <<"gp", "gp", "gp">>
gp4 == <<"gp", "gp", "gp", "gp">>
mixed == <<"gp", "fp", "gp", "fp">>

HostProgram == HostFn(<<>>, Calls(2, <<Made(100), Function(4)>>))

(* main keeps a value of each class and a spilled one around its call.     *)
MainFn(f) ==
  LET passed == SubSeq(<<s(1), arg(2), slot(1), s(2)>>, 1, Len(f.args))
      mixedArgs == <<s(1), fs(1), slot(1), fs(1)>>
  IN  ScriptFn(gp2, <<Op(<<s(1)>>), Op(<<fs(1)>>), Slot(1), Op(<<slot(1), s(1)>>), Op(<<s(2)>>)>>
        \o CallOf(imm(3), 3, IF f.args = mixed THEN mixedArgs ELSE passed)
        \o <<Use(<<s(1), fs(1)>>), Use(<<slot(1), s(2)>>), NoSlot(1), Use(<<arg(1), arg(2)>>), Ret>>)

-----------------------------------------------------------------------------
(* f                                                                       *)

(* Arguments in every order, on the stack and off it, before and after.    *)
Permuted(sig, g) ==
  {ScriptFn(sig, pre \o CallOf(imm(4), 4, params) \o <<Use(<<u>>), Use(<<arg(2), s(1)>>), Ret>>) :
     pre \in {<<Op(<<s(1), arg(2)>>)>>, <<Op(<<s(1)>>), Op(<<arg(Len(sig)), s(1)>>)>>},
     params \in {[n \in DOMAIN g.args |-> p[n]] : p \in [1 .. Len(g.args) -> {arg(n) : n \in DOMAIN sig} \cup {s(1)}]},
     u \in {arg(1), arg(Len(sig))}}

(* The last argument is not used after the call.                           *)
LastUse(g) ==
  {ScriptFn(gp3, <<Op(<<s(1)>>)>> \o CallOf(c, 4, [n \in DOMAIN g.args |-> p[n]]) \o <<Use(<<u, s(1)>>), Ret>>) :
     c \in {imm(4), arg(2)}, p \in {<<s(1), s(1), s(1), s(1)>>, <<s(1), arg(3), imm(4), arg(1)>>, <<s(1), imm(4), arg(3), s(1)>>},
     u \in {arg(1), s(1)}}

Floats(g) ==
  {ScriptFn(mixed, <<Op(<<s(1)>>), Op(<<fs(1), farg(2)>>)>> \o CallOf(imm(4), 4, <<s(1), p, q, r>>)
      \o <<Use(<<farg(2), farg(4)>>), Use(<<arg(3), fs(1)>>), Ret>>) :
     p \in {farg(2), farg(4), fs(1)}, q \in {arg(3), s(1)}, r \in {farg(2), farg(4), fs(1)}}

(* An early return, before a call and after it.                            *)
Early(g) ==
  LET params == [n \in DOMAIN g.args |-> arg(1)]
  IN  {ScriptFn(gp2, pre \o <<Branch(c, 1, 2), Label(1), Ret, Label(2), Use(<<arg(1)>>)>> \o post \o <<Ret>>) :
         pre \in {<<>>, <<Op(<<s(1)>>)>>, CallOf(imm(4), 4, params)}, c \in {arg(1), arg(2)},
         post \in {<<>>, CallOf(imm(4), 4, params)}}

(* Calls in loops of both forms.                                           *)
Loops(g) ==
  LET params == [n \in DOMAIN g.args |-> s(1)]
  IN  {ScriptFn(gp3, <<Op(<<s(1)>>), Label(1)>> \o pre \o CallOf(imm(4), 4, params) \o post
          \o <<Branch(c, 1, 2), Label(2), Use(<<s(1)>>), Ret>>) :
         pre \in {<<>>, <<Use(<<arg(2)>>)>>}, post \in {<<>>, <<Use(<<arg(2)>>)>>}, c \in {s(1), arg(1)}}
      \cup
      {ScriptFn(gp3, <<Op(<<s(1)>>), Label(1), Branch(c, 2, 3), Label(2)>> \o pre \o CallOf(imm(4), 4, params)
          \o <<JumpTo(1), Label(3), Use(<<s(1), u>>), Ret>>) :
         pre \in {<<>>, <<Use(<<arg(2)>>)>>}, c \in {s(1), arg(1)}, u \in {arg(3), s(1)}}

(* A branch whose first label is not the next instruction.                 *)
Far(g) ==
  {ScriptFn(gp2, <<Op(<<s(1)>>), Branch(arg(2), 2, 1), Label(1)>> \o CallOf(imm(4), 4, [n \in DOMAIN g.args |-> s(1)])
     \o <<Label(2), Use(<<arg(1), s(1)>>), Ret>>)}

-----------------------------------------------------------------------------
(* g and h                                                                 *)

Leaf(sig) == ScriptFn(sig, <<Op(<<s(1), arg(1)>>), Use(<<arg(2), s(1)>>), Use(<<arg(Len(sig))>>), Ret>>)
LeafFp == ScriptFn(mixed, <<Op(<<fs(1), farg(4)>>), Op(<<farg(2)>>), Use(<<arg(3), fs(1)>>), Ret>>)
Calling(sig, params) == ScriptFn(sig, <<Op(<<s(1)>>)>> \o CallOf(imm(5), 5, params) \o <<Use(<<arg(2), s(1)>>), Ret>>)

h3 == ScriptFn(gp3, <<Op(<<s(2)>>), Use(<<arg(2), arg(3)>>), Use(<<s(2)>>), Ret>>)
h2 == ScriptFn(gp2, <<Op(<<s(1)>>), Op(<<s(2)>>), Use(<<arg(2), arg(1)>>), Ret>>)

Module(f, g, h) == <<HostProgram, MainFn(f), f, g, h>>

(* Two arguments passed on in the other order.                             *)
MCSwapped == {Module(f, Leaf(gp3), h2) : f \in Permuted(gp3, Leaf(gp3))}

MCPrograms ==
  MCSwapped
    \cup {Module(f, Leaf(gp4), h2) : f \in LastUse(Leaf(gp4)) \cup Early(Leaf(gp4)) \cup Loops(Leaf(gp4))}
    \cup {Module(f, Leaf(gp2), h2) : f \in Permuted(gp4, Leaf(gp2)) \cup Far(Leaf(gp2)) \cup Loops(Leaf(gp2))}
    \cup {Module(f, LeafFp, h2) : f \in Floats(LeafFp)}
    \cup UNION {{Module(f, g, h3) : f \in Permuted(gp3, g) \cup Early(g) \cup LastUse(g)} :
                  g \in {Calling(gp2, <<arg(1), s(1), arg(2)>>), HostFn(gp2, <<>>),
                         HostFn(gp2, Calls(5, <<Made(101), Made(102), Made(103)>>))}}
    \cup {Module(f, HostFn(gp2, Calls(5, <<Made(101), Made(102)>>)), h2) : f \in Permuted(gp4, Leaf(gp2))}
=============================================================================
