------------------------------ MODULE CallFrame ------------------------------
(***************************************************************************)
(* How functions call each other: vm::Backend generates the code of every  *)
(* function (its prologue and epilogue, what it saves around a call, the   *)
(* order in which it moves parameters), and vm::VM runs it, in and out of  *)
(* host functions that call back into the script.                          *)
(*                                                                         *)
(* Beside the registers and the stack the model keeps, for every function  *)
(* in progress, the values the IR says its arguments, registers and slots  *)
(* have; the properties compare the two.  Computations are abstract: each  *)
(* makes a new value.  Every value fills one unit of the stack.            *)
(***************************************************************************)
EXTENDS Integers, Sequences, FiniteSets, SequencesExt

CONSTANTS
  Programs,   (* the functions of a module, by function_id                 *)
  ArgCount,   (* registers that take arguments, of either class            *)
  Temps,      (* registers RegisterAllocatonStep hands out, of each class  *)
  MaxStack,   (* units of stack the model keeps                            *)
  MaxTurns    (* backward jumps and branches taken                         *)

VARIABLES
  program,        (* what is compiled and run                              *)
  phase,          (* "generate", "pass", "vm", "host", "done" or "lost"    *)
  m_instructions, (* the code of all functions, from address 0             *)
  m_funcData,     (* where each function begins                            *)
  gen,            (* what Backend::generate holds for the current function *)
  ip, registers, memory, m_stored,  (* vm::State                           *)
  native,         (* host functions in progress: [f, next]                 *)
  frames,         (* script functions in progress, as the IR has them      *)
  clock,          (* the number of values made so far                      *)
  turns

vars == <<program, phase, m_instructions, m_funcData, gen, ip, registers, memory, m_stored,
          native, frames, clock, turns>>
machine == <<ip, registers, memory, m_stored, native, frames, clock, turns>>

Classes == {"gp", "fp"}
ra == <<"ra">>
sp == <<"sp">>
Arg(c, n) == <<"a", c, n>>
Temp(c, n) == <<"s", c, n>>
Scratch(c, n) == <<"v", c, n>>
Registers ==
  {ra, sp} \cup UNION {{Arg(c, n) : n \in 0 .. ArgCount[c] - 1} : c \in Classes} \cup {Temp(c, n) : c \in Classes, n \in 1 .. Temps}
    \cup {Scratch(c, n) : c \in Classes, n \in 0 .. 3}

vm_reg_is_volatile(r) == r[1] = "v"

(* Values: a computed one, a function, an address, or nothing yet.         *)
Made(n) == <<"made", n>>
Function(f) == <<"function", f>>
At(a) == <<"address", a>>
Nothing == <<"nothing", 0>>

-----------------------------------------------------------------------------
(* Where arguments are                                                     *)

InRegister(sig, a) == Cardinality({b \in 1 .. a - 1 : sig[b] = sig[a]}) < ArgCount[sig[a]]

getArgRegisters(sig) ==
  [a \in DOMAIN sig |->
     IF InRegister(sig, a)
     THEN [reg |-> Arg(sig[a], Cardinality({b \in 1 .. a - 1 : sig[b] = sig[a]})), offset |-> 0]
     ELSE [reg |-> sp, offset |-> Cardinality({b \in 1 .. a - 1 : ~InRegister(sig, b)})]]

Locations(f) == getArgRegisters(program[f].args)

(* The register a parameter or an operand is in, if it is in one.          *)
Home(locs, o) ==
  CASE o.k = "arg" -> locs[o.i].reg
    [] o.k = "reg" -> Temp(o.c, o.i)
    [] OTHER -> sp

-----------------------------------------------------------------------------
(* calcArgLifetimesAndBackupRegs                                           *)

LabelAt(code, l) == CHOOSE a \in DOMAIN code : code[a].op = "label" /\ code[a].to = <<l>>

ArgsOf(locs, i) == {locs[i.o[n].i].reg : n \in {m \in DOMAIN i.o : i.o[m].k = "arg"}} \ {sp}

Extend(ends, S, c) == [r \in DOMAIN ends |-> IF r \in S THEN c ELSE ends[r]]

Touch(ends, S, c) == [r \in DOMAIN ends \cup S |-> IF r \in S THEN c ELSE ends[r]]

(* What a backward jump to j extends.                                      *)
Around(ends, j, c) == {r \in DOMAIN ends : j <= c /\ ends[r] >= j /\ ends[r] < c}

(* What a branch extends: the test has the label on both sides.            *)
AroundBranch(ends, j) == {r \in DOMAIN ends : ends[r] >= j /\ ends[r] < j}

ArgLifetimes(f) ==
  LET code == program[f].code
      After(ends, c) ==
        CASE code[c].op = "jump" -> Extend(ends, Around(ends, LabelAt(code, code[c].to[1]), c), c)
          [] code[c].op = "branch" ->
               Extend(ends, UNION {AroundBranch(ends, LabelAt(code, l)) : l \in Range(code[c].to)}, c)
          [] OTHER -> ends
  IN  FoldLeft(LAMBDA ends, c : After(Touch(ends, ArgsOf(Locations(f), code[c]), c), c), [r \in {} |-> 0],
               [c \in 1 .. Len(code) |-> c])

(* The signature a call goes by is that of its operand.                    *)
Callee(i) == Locations(i.to[1])

AssignedReg(locs, i) ==
  IF i.o[1].k = "stack" THEN Scratch("gp", 0) ELSE Home(locs, i.o[1])

NonVolatile(f) ==
  LET code == program[f].code
      locs == Locations(f)
      calls == {c \in DOMAIN code : code[c].op = "call"}
  IN  {r \in {AssignedReg(locs, code[c]) : c \in {d \in DOMAIN code : code[d].op = "op"}} :
         r # sp /\ ~vm_reg_is_volatile(r)}
        \cup (IF calls = {} THEN {} ELSE {ra})
        \cup {l.reg : l \in {k \in UNION {Range(Callee(code[c])) : c \in calls} :
                               k.reg # sp /\ \A a \in DOMAIN locs : locs[a].reg # k.reg}}

-----------------------------------------------------------------------------
(* Backend::generate                                                       *)

(* Instructions of the machine.  "op" stands for the instructions that     *)
(* compute, "use" for those that only read; at is the place in the IR.     *)
Instr(op, regs, n) == [op |-> op, r |-> regs, n |-> n, at |-> 0]
ld(r, n) == Instr("ld", <<r>>, n)
st(r, n) == Instr("st", <<r>>, n)
move(r, s) == Instr("move", <<r, s>>, 0)

(* backend::StackManager hands out the lowest free unit (see StackManager, *)
(* which is first fit): the stack is the set of units in use.              *)
Lowest(stack) == CHOOSE a \in 0 .. Cardinality(stack) : a \notin stack /\ \A b \in 0 .. a - 1 : b \in stack
StackSize(stack) == IF stack = {} THEN 0 ELSE 1 + CHOOSE a \in stack : \A b \in stack : b <= a

LowestFree(stack, n) ==
  FoldLeft(LAMBDA got, i : Append(got, Lowest(stack \cup Range(got))), <<>>, [i \in 1 .. n |-> i])

(* The order of a hash set; nothing depends on it.                         *)
SavedOrder ==
  <<ra>> \o FlattenSeq([k \in 1 .. 2 |-> LET c == <<"gp", "fp">>[k]
                                        IN  [n \in 1 .. ArgCount[c] |-> Arg(c, n - 1)] \o [n \in 1 .. Temps |-> Temp(c, n)]])

Script(f) == ~program[f].host
NextScript(f) == {g \in DOMAIN program : g > f /\ Script(g) /\ \A h \in f + 1 .. g - 1 : ~Script(h)}

(* What generate starts a function with: the slots of arguments that are   *)
(* on the stack, and the registers it saves.                               *)
Begin(f) ==
  LET args == Cardinality({a \in DOMAIN program[f].args : ~InRegister(program[f].args, a)})
      saved == SelectSeq(SavedOrder, LAMBDA r : r \in NonVolatile(f))
  IN  [fn |-> f, c |-> 1, stack |-> 0 .. args + Len(saved) - 1,
       prologue |-> [n \in DOMAIN saved |-> [reg |-> saved[n], addr |-> args + n - 1]],
       slots |-> [i \in {} |-> 0], labels |-> [l \in {} |-> 0], deferred |-> {},
       params |-> <<>>, passed |-> {}, backup |-> <<>>,
       locs |-> Locations(f), callee |-> <<>>, ends |-> ArgLifetimes(f)]

PrologueCode(g) == [n \in DOMAIN g.prologue |-> st(g.prologue[n].reg, g.prologue[n].addr)]

IR == program[gen.fn].code
Locs == gen.locs

(* Where an operand is when the instruction runs: in a scratch register if *)
(* it was on the stack.                                                    *)
OnStack(locs, o) == o.k = "stack" \/ (o.k = "arg" /\ locs[o.i].reg = sp)
OffsetOf(g, locs, o) == IF o.k = "arg" THEN locs[o.i].offset ELSE g.slots[o.i]
RegisterOf(locs, o, n, assigned) ==
  CASE assigned /\ o.k = "stack" -> Scratch("gp", 0)
    [] OnStack(locs, o) -> Scratch(o.c, n)
    [] OTHER -> Home(locs, o)

Assigned(i, n) == i.op = "op" /\ n = 1

(* The loads of operands that are on the stack; a slot that is assigned is *)
(* not loaded.                                                             *)
Loads(i) ==
  LET Load(n) ==
        IF OnStack(Locs, i.o[n]) /\ ~(Assigned(i, n) /\ i.o[n].k = "stack")
        THEN <<ld(RegisterOf(Locs, i.o[n], n - 1, FALSE), OffsetOf(gen, Locs, i.o[n]))>>
        ELSE <<>>
  IN  FoldLeft(LAMBDA s, n : s \o Load(n), <<>>, [n \in DOMAIN i.o |-> n])

OperandRegs(i) == [n \in DOMAIN i.o |-> RegisterOf(Locs, i.o[n], n - 1, Assigned(i, n))]

(* The store of an assigned operand that is on the stack.                  *)
Stores(i) ==
  IF i.op = "op" /\ OnStack(Locs, i.o[1])
  THEN <<st(RegisterOf(Locs, i.o[1], 0, TRUE), OffsetOf(gen, Locs, i.o[1]))>> ELSE <<>>

Main(op, regs, n) == [op |-> op, r |-> regs, n |-> n, at |-> gen.c]

(* One IR instruction: code, and what generate remembers.                  *)
Emit(code, g) ==
  /\ m_instructions' = m_instructions \o code
  /\ gen' = [g EXCEPT !.c = @ + 1]
  /\ phase' = "generate"
  /\ UNCHANGED <<program, m_funcData, machine>>

(* A jump to a label that was seen, or one to be completed at the end.     *)
JumpCode(op, regs, l, at) ==
  IF l \in DOMAIN gen.labels
  THEN [code |-> <<Main(op, regs, gen.labels[l])>>, deferred |-> {}]
  ELSE [code |-> <<Main(op, regs, 0)>>, deferred |-> {[idx |-> at, label |-> l]}]

GenerateOp ==
  LET i == IR[gen.c]
  IN  /\ i.op \in {"op", "use"}
      /\ Emit(Loads(i) \o <<Main(i.op, OperandRegs(i), 0)>> \o Stores(i), gen)

GenerateStack ==
  LET i == IR[gen.c]
      id == i.to[1]
  IN  \/ /\ i.op = "stack_allocate"
         /\ Emit(<<>>, [gen EXCEPT !.stack = @ \cup {Lowest(@)},
                                   !.slots = [s \in DOMAIN @ \cup {id} |->
                                                IF s = id THEN Lowest(gen.stack) ELSE @[s]]])
      \/ /\ i.op = "stack_free"
         /\ Emit(<<>>, [gen EXCEPT !.stack = @ \ {gen.slots[id]},
                                   !.slots = [s \in DOMAIN @ \ {id} |-> @[s]]])

GenerateJump ==
  LET i == IR[gen.c]
      here == Len(m_instructions)
      loads == Loads(i)
  IN  \/ /\ i.op = "label"
         /\ Emit(<<>>, [gen EXCEPT !.labels = [l \in DOMAIN @ \cup {i.to[1]} |->
                                                 IF l = i.to[1] THEN here ELSE @[l]]])
      \/ /\ i.op = "jump"
         /\ LET j == JumpCode("jmp", <<>>, i.to[1], here)
            IN  Emit(j.code, [gen EXCEPT !.deferred = @ \cup j.deferred])
      \/ /\ i.op = "branch"
         /\ LET f == JumpCode("bneqz", OperandRegs(i), i.to[2], here + Len(loads))
                t == IF LabelAt(IR, i.to[1]) = gen.c + 1 THEN [code |-> <<>>, deferred |-> {}]
                     ELSE JumpCode("jmp", <<>>, i.to[1], here + Len(loads) + 1)
            IN  Emit(loads \o f.code \o t.code, [gen EXCEPT !.deferred = @ \cup f.deferred \cup t.deferred])

GenerateReturn ==
  /\ IR[gen.c].op = "ret"
  /\ Emit(<<Main("jmpr", <<ra>>, 0)>>, gen)

GenerateParam ==
  /\ IR[gen.c].op = "param"
  /\ Emit(<<>>, [gen EXCEPT !.params = Append(@, IR[gen.c].o[1])])

-----------------------------------------------------------------------------
(* Calls                                                                   *)

(* Where the callee's arguments are.                                       *)
Target == gen.callee

(* Mutant of BackedUp: an argument whose last use is this call is taken to *)
(* be unused.                                                              *)
BackedUpIfLater ==
  {r \in DOMAIN gen.ends : gen.ends[r] > gen.c /\ \E l \in Range(Callee(IR[gen.c])) : l.reg = r}

(* Arguments of this function that are used from here on and whose         *)
(* registers the call needs.                                               *)
BackedUp ==
  {r \in DOMAIN gen.ends : gen.ends[r] >= gen.c /\ \E l \in Range(Callee(IR[gen.c])) : l.reg = r}

(* The loads of the callee's operand, and the backup; then the parameters. *)
GenerateCall ==
  LET i == IR[gen.c]
      regs == SelectSeq([a \in DOMAIN Locs |-> Locs[a].reg], LAMBDA r : r \in BackedUp)
      addrs == LowestFree(gen.stack, Len(regs))
  IN  /\ i.op = "call"
      /\ m_instructions' = m_instructions \o Loads(i) \o [n \in DOMAIN regs |-> st(regs[n], addrs[n])]
      /\ gen' = [gen EXCEPT !.stack = @ \cup Range(addrs), !.passed = {},
                            !.callee = Callee(i),
                            !.backup = [n \in DOMAIN regs |-> [reg |-> regs[n], addr |-> addrs[n]]]]
      /\ phase' = "pass"
      /\ UNCHANGED <<program, m_funcData, machine>>

InBackup(r) == \E n \in DOMAIN gen.backup : gen.backup[n].reg = r
BackupOf(r) == gen.backup[CHOOSE n \in DOMAIN gen.backup : gen.backup[n].reg = r].addr

(* Mutant of WillOverwrite: parameters are passed in their order.          *)
NeverOverwrites(p, passed) == FALSE

(* Mutant of WillOverwrite: passing p overwrites p.                        *)
OverwritesItself(p, passed) ==
  \E q \in DOMAIN gen.params \ passed : Target[p].reg # sp /\ Home(Locs, gen.params[q]) = Target[p].reg

(* Passing p would overwrite a parameter that is yet to be passed.         *)
WillOverwrite(p, passed) ==
  \E q \in DOMAIN gen.params \ (passed \cup {p}) :
    Target[p].reg # sp /\ Home(Locs, gen.params[q]) = Target[p].reg

(* The move of p to where the callee expects it: its register, or the      *)
(* stack, behind this function's frame.                                    *)
Pass(p) ==
  LET o == gen.params[p]
      dest == IF Target[p].reg = sp THEN Scratch(o.c, 3) ELSE Target[p].reg
      value ==
        CASE o.k = "imm" -> Instr("li", <<dest>>, o.i)
          [] o.k = "stack" -> ld(dest, gen.slots[o.i])
          [] o.k = "arg" /\ OnStack(Locs, o) -> ld(dest, Locs[o.i].offset)
          [] o.k = "arg" /\ ~OnStack(Locs, o) /\ InBackup(Home(Locs, o)) -> ld(dest, BackupOf(Home(Locs, o)))
          [] OTHER -> move(dest, Home(Locs, o))
  IN  IF Target[p].reg = sp THEN <<value, st(dest, Target[p].offset + StackSize(gen.stack))>> ELSE <<value>>

(* One turn of the loop that runs until all parameters are passed: each    *)
(* that overwrites none of the rest.                                       *)
PassParameters ==
  LET Turn == FoldLeft(LAMBDA t, p : IF p \in t.passed \/ WillOverwrite(p, t.passed) THEN t
                                     ELSE [passed |-> t.passed \cup {p}, code |-> t.code \o Pass(p)],
                       [passed |-> gen.passed, code |-> <<>>], [p \in DOMAIN gen.params |-> p])
  IN  /\ phase = "pass" /\ gen.passed # DOMAIN gen.params
      /\ m_instructions' = m_instructions \o Turn.code
      /\ gen' = [gen EXCEPT !.passed = Turn.passed]
      /\ UNCHANGED <<program, phase, m_funcData, machine>>

(* The call, with the stack pointer moved behind the frame, and the        *)
(* registers that were backed up.                                          *)
FinishCall ==
  LET i == IR[gen.c]
      size == StackSize(gen.stack)
      reg == RegisterOf(Locs, i.o[1], 0, FALSE)
      target ==
        IF i.o[1].k = "imm" THEN <<Instr("sp", <<>>, size), Main("jal", <<>>, i.to[1])>>
        ELSE IF InBackup(reg)
        THEN <<ld(Scratch("gp", 0), BackupOf(reg)), Instr("sp", <<>>, size), Main("jalr", <<Scratch("gp", 0)>>, 0)>>
        ELSE <<Instr("sp", <<>>, size), Main("jalr", <<reg>>, 0)>>
      restore == [n \in DOMAIN gen.backup |-> ld(gen.backup[n].reg, gen.backup[n].addr)]
  IN  /\ phase = "pass" /\ gen.passed = DOMAIN gen.params
      /\ Emit(target \o <<Instr("sp", <<>>, -size)>> \o restore,
              [gen EXCEPT !.params = <<>>, !.passed = {}, !.callee = <<>>, !.backup = <<>>,
                          !.stack = @ \ {gen.backup[n].addr : n \in DOMAIN gen.backup}])

-----------------------------------------------------------------------------
(* The end of a function                                                   *)

(* Jumps to labels further down get their addresses.                       *)
Completed(code) ==
  [a \in DOMAIN code |->
     IF \E d \in gen.deferred : d.idx = a - 1
     THEN [code[a] EXCEPT !.n = gen.labels[(CHOOSE d \in gen.deferred : d.idx = a - 1).label]]
     ELSE code[a]]

(* Returns become jumps to the epilogue: the test is for jumps through ra, *)
(* and returns are not jmp but jmpr.                                       *)
ReturnsPatched(code, to) ==
  [a \in DOMAIN code |->
     IF code[a].op = "jmp" /\ code[a].r = <<ra>> THEN [code[a] EXCEPT !.r = <<>>, !.n = to] ELSE code[a]]

(* Mutant of Epilogue: the first of the saved registers is not restored.   *)
EpilogueButFirst(g) ==
  [n \in 1 .. Len(g.prologue) - 1 |-> ld(g.prologue[n + 1].reg, g.prologue[n + 1].addr)] \o <<Instr("jmpr", <<ra>>, 0)>>

Epilogue(g) == [n \in DOMAIN g.prologue |-> ld(g.prologue[n].reg, g.prologue[n].addr)] \o <<Instr("jmpr", <<ra>>, 0)>>

StartFunction(f, code) ==
  LET g == Begin(f)
  IN  /\ gen' = g
      /\ m_funcData' = [h \in DOMAIN m_funcData \cup {f} |-> IF h = f THEN Len(code) ELSE m_funcData[h]]
      /\ m_instructions' = code \o PrologueCode(g)

FinishFunction ==
  LET body == Front(Completed(m_instructions))
      code == ReturnsPatched(body, Len(body)) \o Epilogue(gen)
  IN  /\ gen.c > Len(IR)
      /\ \/ \E f \in NextScript(gen.fn) : StartFunction(f, code) /\ UNCHANGED phase
         \/ /\ NextScript(gen.fn) = {}
            /\ m_instructions' = code /\ phase' = "host"
            /\ UNCHANGED <<gen, m_funcData>>
      /\ UNCHANGED <<program, machine>>

Generate ==
  \/ /\ phase = "generate" /\ gen.c <= Len(IR)
     /\ GenerateOp \/ GenerateStack \/ GenerateJump \/ GenerateReturn \/ GenerateParam \/ GenerateCall
  \/ phase = "generate" /\ FinishFunction
  \/ PassParameters
  \/ FinishCall

-----------------------------------------------------------------------------
(* vm::VM                                                                  *)

Now == m_instructions[ip + 1]
Frame == frames[Len(frames)]
Sp == registers[sp][2]

ValueOf(F, o) ==
  CASE o.k = "arg" -> F.args[o.i]
    [] o.k = "reg" -> F.temps[<<o.c, o.i>>]
    [] o.k = "stack" -> F.slots[o.i]
    [] o.k = "imm" -> Function(o.i)

Assign(F, o, v) ==
  CASE o.k = "arg" -> [F EXCEPT !.args[o.i] = v]
    [] o.k = "reg" -> [F EXCEPT !.temps[<<o.c, o.i>>] = v]
    [] o.k = "stack" -> [F EXCEPT !.slots = [s \in DOMAIN @ \cup {o.i} |-> IF s = o.i THEN v ELSE @[s]]]

(* The IR instruction that is run, and the parameters of a call.           *)
RunIR == program[Frame.fn].code[Now.at]
ParamsOf(code, c) ==
  LET first == CHOOSE b \in 0 .. c - 1 :
                 /\ \A d \in b + 1 .. c - 1 : code[d].op = "param"
                 /\ b = 0 \/ code[b].op # "param"
  IN  [n \in 1 .. c - 1 - first |-> code[first + n].o[1]]

NewFrame(f, args, ret, regs) ==
  [fn |-> f, args |-> args, temps |-> [t \in Classes \X (1 .. Temps) |-> Nothing], slots |-> [s \in {} |-> Nothing],
   ret |-> ret, regs |-> regs]

Step(regs, mem, to) ==
  /\ registers' = regs /\ memory' = mem /\ ip' = to
  /\ UNCHANGED <<program, m_instructions, m_funcData, gen, m_stored>>

Memory ==
  /\ UNCHANGED <<phase, native, frames, clock, turns>>
  /\ \/ Now.op = "ld" /\ Step([registers EXCEPT ![Now.r[1]] = memory[Sp + Now.n]], memory, ip + 1)
     \/ Now.op = "st" /\ Step(registers, [memory EXCEPT ![Sp + Now.n] = registers[Now.r[1]]], ip + 1)
     \/ Now.op = "li" /\ Step([registers EXCEPT ![Now.r[1]] = Function(Now.n)], memory, ip + 1)
     \/ Now.op = "move" /\ Step([registers EXCEPT ![Now.r[1]] = registers[Now.r[2]]], memory, ip + 1)
     \/ Now.op = "sp" /\ Step([registers EXCEPT ![sp] = At(@[2] + Now.n)], memory, ip + 1)

Compute ==
  \/ /\ Now.op = "op"
     /\ clock' = clock + 1
     /\ Step([registers EXCEPT ![Now.r[1]] = Made(clock')], memory, ip + 1)
     /\ frames' = [frames EXCEPT ![Len(frames)] = Assign(@, RunIR.o[1], Made(clock'))]
     /\ UNCHANGED <<phase, native, turns>>
  \/ /\ Now.op = "use"
     /\ Step(registers, memory, ip + 1)
     /\ UNCHANGED <<phase, native, frames, clock, turns>>

(* Conditions are not modelled: a branch goes either way.                  *)
Jump ==
  \E to \in (IF Now.op = "bneqz" THEN {Now.n, ip + 1} ELSE {Now.n}) :
    /\ Now.op \in {"jmp", "bneqz"}
    /\ turns' = IF to <= ip THEN turns + 1 ELSE turns
    /\ turns' <= MaxTurns
    /\ Step(registers, memory, to)
    /\ UNCHANGED <<phase, native, frames, clock>>

(* jal and jalr: into the code of a script function, or out to the host.   *)
Enter(f) ==
  LET params == ParamsOf(program[Frame.fn].code, Now.at)
      args == [p \in DOMAIN params |-> ValueOf(Frame, params[p])]
  IN  \/ /\ Script(f)
         /\ Step([registers EXCEPT ![ra] = At(ip + 1)], memory, m_funcData[f])
         /\ frames' = Append(frames, NewFrame(f, args, ip + 1, registers))
         /\ UNCHANGED <<phase, native, clock, turns>>
      \/ /\ ~Script(f)
         /\ native' = Append(native, [fn |-> f, next |-> 1, args |-> args, regs |-> registers])
         /\ phase' = "host"
         /\ Step(registers, memory, ip)
         /\ UNCHANGED <<frames, clock, turns>>

Call ==
  \/ Now.op = "jal" /\ Enter(Now.n)
  \/ Now.op = "jalr" /\ registers[Now.r[1]][1] = "function" /\ Enter(registers[Now.r[1]][2])

(* What a function may not change: registers for variables, the stack      *)
(* pointer, and arguments of others.                                       *)
Kept(f) ==
  LET own == {l.reg : l \in Range(Locations(f))} \ {sp}
  IN  {r \in Registers \ (own \cup {ra}) : ~vm_reg_is_volatile(r)}

Preserved(f, before) == \A r \in Kept(f) : registers[r] = before[r]

(* A return.  The run ends where the code goes astray.                     *)
Return ==
  /\ Now.op = "jmpr"
  /\ IF registers[ra] = At(Frame.ret) /\ Preserved(Frame.fn, Frame.regs)
     THEN /\ Step(registers, memory, Frame.ret)
          /\ frames' = Front(frames)
          /\ UNCHANGED <<phase, native, clock, turns>>
     ELSE /\ phase' = "lost"
          /\ UNCHANGED <<program, m_instructions, m_funcData, gen, machine>>

(* The instruction at address 0 ends executeInternal, which restores ip    *)
(* and ra.                                                                 *)
Terminate ==
  LET stored == m_stored[Len(m_stored)]
  IN  /\ Now.op = "term"
      /\ phase' = "host"
      /\ ip' = stored.ip
      /\ registers' = [registers EXCEPT ![ra] = stored.ra]
      /\ m_stored' = Front(m_stored)
      /\ UNCHANGED <<program, m_instructions, m_funcData, gen, memory, native, frames, clock, turns>>

-----------------------------------------------------------------------------
(* The host                                                                *)

Host == native[Len(native)]

(* Backend::call, from the host program or from a host function: state is  *)
(* prepared (and begun anew if nothing is running), the arguments are      *)
(* written where the function expects them, and execute begins.            *)
CallScript ==
  LET call == program[Host.fn].calls[Host.next]
      locs == Locations(call.fn)
      base == IF Len(native) = 1 THEN [registers EXCEPT ![sp] = At(0), ![ra] = At(0)] ELSE registers
      regs == [r \in Registers |->
                 IF \E a \in DOMAIN locs : locs[a].reg = r /\ r # sp
                 THEN call.args[CHOOSE a \in DOMAIN locs : locs[a].reg = r] ELSE base[r]]
  IN  /\ Host.next <= Len(program[Host.fn].calls)
      /\ m_stored' = Append(m_stored, [ip |-> IF Len(native) = 1 THEN 0 ELSE ip, ra |-> base[ra]])
      /\ registers' = [regs EXCEPT ![ra] = At(0)]
      /\ memory' = [m \in DOMAIN memory |->
                      IF \E a \in DOMAIN locs : locs[a].reg = sp /\ m = base[sp][2] + locs[a].offset
                      THEN call.args[CHOOSE a \in DOMAIN locs : locs[a].reg = sp /\ m = base[sp][2] + locs[a].offset]
                      ELSE memory[m]]
      /\ ip' = m_funcData[call.fn]
      /\ frames' = Append(frames, NewFrame(call.fn, call.args, 0, registers'))
      /\ native' = [native EXCEPT ![Len(native)].next = @ + 1]
      /\ phase' = "vm"
      /\ UNCHANGED <<program, m_instructions, m_funcData, gen, clock, turns>>

(* The host function returns into the code that called it.                 *)
HostReturns ==
  /\ Host.next > Len(program[Host.fn].calls)
  /\ IF Len(native) = 1 THEN phase' = "done" /\ UNCHANGED <<native, ip>>
     ELSE IF ~Preserved(Host.fn, Host.regs) THEN phase' = "lost" /\ UNCHANGED <<native, ip>>
     ELSE phase' = "vm" /\ native' = Front(native) /\ ip' = ip + 1
  /\ UNCHANGED <<program, m_instructions, m_funcData, gen, registers, memory, m_stored, frames, clock, turns>>

Execute ==
  \/ phase = "vm" /\ (Memory \/ Compute \/ Jump \/ Call \/ Return \/ Terminate)
  \/ phase = "host" /\ (CallScript \/ HostReturns)

Next == Generate \/ Execute

Init ==
  /\ program \in Programs
  /\ phase = "generate"
  /\ LET f == CHOOSE g \in DOMAIN program : Script(g) /\ \A h \in 1 .. g - 1 : ~Script(h)
         term == <<Instr("term", <<>>, 0)>>
     IN  /\ gen = Begin(f)
         /\ m_funcData = [g \in {f} |-> 1]
         /\ m_instructions = term \o PrologueCode(gen)
  /\ ip = 0 /\ registers = [r \in Registers |-> IF r \in {ra, sp} THEN At(0) ELSE Nothing]
  /\ memory = [a \in 0 .. MaxStack |-> Nothing]
  /\ m_stored = <<>> /\ native = <<[fn |-> 1, next |-> 1, args |-> <<>>, regs |-> registers]>>
  /\ frames = <<>> /\ clock = 0 /\ turns = 0

(* generate does not stop between two parameters.                          *)
Spec == Init /\ [][Next]_vars /\ WF_vars(PassParameters \/ FinishCall)

-----------------------------------------------------------------------------
(* Properties                                                              *)

(* The type invariant.                                                     *)
TypeOK ==
  /\ phase \in {"generate", "pass", "vm", "host", "done", "lost"}
  /\ DOMAIN registers = Registers
  /\ ip \in 0 .. Len(m_instructions) - 1
  /\ gen.passed \subseteq DOMAIN gen.params
  /\ phase = "vm" => Len(m_stored) = Len(native)

(* A do loop: arguments used before a call in it are not taken to be used  *)
(* after the call, in the next turn.                                       *)
LoopsBack(f) ==
  \E a \in DOMAIN program[f].code :
    program[f].code[a].op = "branch" /\ \E l \in Range(program[f].code[a].to) : LabelAt(program[f].code, l) < a

(* What an instruction reads is what the IR says it reads: variables,      *)
(* arguments and spilled values outlast the calls of their function.       *)
OperandsAgree ==
  phase = "vm" /\ Now.op \in {"op", "use", "bneqz", "jalr"} =>
    \A n \in {m \in DOMAIN Now.r : ~Assigned(RunIR, m)} :
      registers[Now.r[n]] = ValueOf(Frame, RunIR.o[n])

(* They do, but for arguments in a function with a loop that ends in a     *)
(* branch.                                                                 *)
OperandsAgreeApart == (phase = "vm" /\ frames # <<>> /\ LoopsBack(Frame.fn)) \/ OperandsAgree

(* Whoever is called finds its parameters where it looks for them, in the  *)
(* order of the call, in registers and on the stack.                       *)
Holds(locs, args) ==
  \A a \in DOMAIN locs :
    args[a] = IF locs[a].reg = sp THEN memory[Sp + locs[a].offset] ELSE registers[locs[a].reg]

ParametersArrive ==
  /\ phase = "vm" /\ ip # 0 /\ ip = m_funcData[Frame.fn] => Holds(Locations(Frame.fn), Frame.args)
  /\ phase = "host" /\ Len(native) > 1 /\ Host.next = 1 => Holds(Locations(Host.fn), Host.args)

(* A call comes back to where it was made, with the registers it found,    *)
(* unless it was left by an early return, which restores nothing, or the   *)
(* host called back a function with more arguments than its own.           *)
CallsReturnApart ==
  phase = "lost" =>
    \/ Now.op = "jmpr" /\ Now.at # 0 /\ NonVolatile(Frame.fn) # {}
    \/ Now.op \in {"jal", "jalr"} /\ \E c \in Range(program[Host.fn].calls) :
         \E l \in Range(Locations(c.fn)) : l.reg \notin {k.reg : k \in Range(Locations(Host.fn))}

(* The parameters of every call are passed some time.                      *)
PassingEnds == (phase = "pass") ~> (phase # "pass")

(* Arguments that trade places.                                            *)
Cyclic ==
  phase = "pass" /\
  \E P \in SUBSET (DOMAIN gen.params \ gen.passed) :
    P # {} /\ \A p \in P : \E q \in P \ {p} :
      gen.params[q].k = "arg" /\ Home(Locs, gen.params[q]) = Target[p].reg

(* They are, unless arguments trade places: each waits for the other.      *)
PassingEndsApart == (phase = "pass") ~> (phase # "pass" \/ Cyclic)
=============================================================================
