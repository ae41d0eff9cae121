------------------------------ MODULE ScopeExit ------------------------------
(***************************************************************************)
(* The scopes of a function while it is compiled (ScopeManager and the     *)
(* statements of the Compiler that enter and leave scopes), and the        *)
(* running of the IR they emit.                                            *)
(*                                                                         *)
(* An object that lives on the stack is allocated (alloc), constructed,    *)
(* destroyed (dtor) and its slot freed (free).  Slots are settled in text  *)
(* order by the code generator (StackManager), objects live in the order   *)
(* in which the code runs, so every way out of a scope has to be right in  *)
(* both orders.                                                            *)
(*                                                                         *)
(* A function is written one statement at a time: each action compiles a   *)
(* whole statement, or opens one whose body follows, or closes it.  Data   *)
(* are left out: an expression is a temporary object, a variable, or a     *)
(* read of a variable, and branches go either way.                         *)
(***************************************************************************)
EXTENDS Integers, Sequences, FiniteSets, SequencesExt

CONSTANTS
  Statements,     (* the kinds of statements a function may have           *)
  MaxStatements,  (* bound on the statements of a function                 *)
  MaxObjects,     (* bound on the objects and values it declares           *)
  MaxTurns        (* bound on the backward jumps taken while running       *)

VARIABLES
  m_scopes,       (* the scopes of the function: stack objects, didReturn  *)
  m_lsStack,      (* the loops around the statement being compiled         *)
  m_instructions, (* the IR of the function                                *)
  m_nextLabelId,
  m_nextAllocId,
  open,           (* the statements being compiled, innermost last         *)
  statements,     (* how many statements there are so far                  *)
  history,        (* history: early exits that left objects, conditionals  *)
  phase,          (* "compile", then "run"                                 *)
  pc, turns,
  valued          (* the objects alive, and the values set                 *)

compileVars == <<m_scopes, m_lsStack, m_instructions, m_nextLabelId, m_nextAllocId, open,
                 statements, history>>
runVars == <<pc, turns, valued>>
vars == <<compileVars, phase, runVars>>

NoId == 0

-----------------------------------------------------------------------------
(* Emitting code.  A draft is what compiling an expression changes.        *)

Draft == [scopes |-> m_scopes, code |-> m_instructions, label |-> m_nextLabelId,
          id |-> m_nextAllocId]

Becomes(g) ==
  /\ g.id <= MaxObjects + 1
  /\ m_scopes' = g.scopes
  /\ m_instructions' = g.code
  /\ m_nextLabelId' = g.label
  /\ m_nextAllocId' = g.id

Instruction(op, id, to) == [op |-> op, id |-> id, to |-> to]

add(g, op, id) == [g EXCEPT !.code = Append(@, Instruction(op, id, <<>>))]
addJump(g, op, to) == [g EXCEPT !.code = Append(@, Instruction(op, NoId, to))]

label(g) == [addJump(g, "label", <<g.label>>) EXCEPT !.label = @ + 1]

(* The last label made is a target of the instructions at the addresses.   *)
target(i, lbl) == [i EXCEPT !.to = Append(@, lbl)]
targets(g, at, lbl) ==
  [g EXCEPT !.code = [a \in DOMAIN @ |-> IF a \in at THEN target(@[a], lbl) ELSE @[a]]]

enter(g) == [g EXCEPT !.scopes = Append(@, [stackObjs |-> <<>>, didReturn |-> FALSE])]

addToStack(g, id) == [g EXCEPT !.scopes[Len(g.scopes)].stackObjs = Append(@, id)]

(* A new object in the innermost scope, and its construction.              *)
stack(g) == [addToStack(add(g, "alloc", g.id), g.id) EXCEPT !.id = @ + 1]
constructed(g) == add(stack(g), "construct", g.id)

-----------------------------------------------------------------------------
(* Leaving scopes                                                          *)

(* Mutant of DestroyCode: the slot is freed before its object is destroyed. *)
FreeCode(objs, save) ==
  FoldRight(LAMBDA id, code : IF id = save THEN code
                              ELSE code \o <<Instruction("free", id, <<>>), Instruction("dtor", id, <<>>)>>,
            objs, <<>>)

DestroyCode(objs, save) ==
  FoldRight(LAMBDA id, code : IF id = save THEN code
                              ELSE code \o <<Instruction("dtor", id, <<>>), Instruction("free", id, <<>>)>>,
            objs, <<>>)

(* Mutant of emitScopeExitInstructions: only the scope itself.             *)
emitOnlyThatScope(scopes, n, save) ==
  IF scopes[n].didReturn THEN <<>> ELSE DestroyCode(scopes[n].stackObjs, save)

(* The code that leaves the n-th scope and all scopes inside it.           *)
emitScopeExitInstructions(scopes, n, save) ==
  IF scopes[n].didReturn THEN <<>>
  ELSE FoldRight(LAMBDA s, code : code \o DestroyCode(s.stackObjs, save),
                 SubSeq(scopes, n, Len(scopes)), <<>>)

didSave(scopes, save) ==
  ~Last(scopes).didReturn /\ save \in ToSet(Last(scopes).stackObjs)

(* Mutant of exit: the saved object is destroyed as well.                  *)
exitSavingNothing(g, save) ==
  LET left == [g EXCEPT !.code = @ \o emitScopeExitInstructions(g.scopes, Len(g.scopes), NoId),
                        !.scopes = Front(@)]
  IN  IF didSave(g.scopes, save) THEN addToStack(left, save) ELSE left

(* ScopeManager::exit: the saved object goes to the scope outside.         *)
exit(g, save) ==
  LET left == [g EXCEPT !.code = @ \o emitScopeExitInstructions(g.scopes, Len(g.scopes), save),
                        !.scopes = Front(@)]
  IN  IF didSave(g.scopes, save) THEN addToStack(left, save) ELSE left

(* Every scope of the function is left in turn, and leaving one leaves the *)
(* scopes inside it, each time.                                            *)
emitReturnInstructions(g) ==
  LET n == Len(g.scopes)
      code == FoldRight(LAMBDA i, c : c \o emitScopeExitInstructions(g.scopes, i, NoId),
                        [i \in 1 .. n |-> i], <<>>)
  IN  [g EXCEPT !.code = @ \o code, !.scopes[n].didReturn = TRUE]

-----------------------------------------------------------------------------
(* Expressions                                                             *)

(* An expression with a temporary object.                                  *)
temporary(g) == exit(constructed(enter(g)), NoId)

Maybe(f(_), cond, g) == IF cond THEN f(g) ELSE g

(* The declaration of a variable whose value is a new object: the object   *)
(* is saved from the scope of the expression, temporaries are not.         *)
variable(g, temp) ==
  LET e == Maybe(constructed, temp, enter(g))
  IN  exit(constructed(e), e.id)

(* cond ? a : b, where a and b are new objects.  The jump over the false   *)
(* side is emitted before the result is made of a, and before a is         *)
(* destroyed.                                                              *)
conditionalObject(g) ==
  LET branchAt == Len(g.code) + 2
      whenTrue == constructed(enter(label(addJump(add(enter(g), "reserve", NoId), "branch", <<g.label>>))))
      jumpAt == Len(whenTrue.code) + 1
      out == whenTrue.id
      joined == exit(add(stack(addJump(whenTrue, "jump", <<>>)), "construct", out), out)
      whenFalse == constructed(enter(label(targets(joined, {branchAt}, joined.label))))
      done == exit(add(whenFalse, "construct", out), NoId)
  IN  exit(label(targets(done, {jumpAt}, done.label)), out)

(* The same with values that need no object: the result is resolved on     *)
(* either side.                                                            *)
conditionalValue(g) ==
  LET out == g.id
      branchAt == Len(g.code) + 2
      whenTrue == enter(label(addJump(add([enter(g) EXCEPT !.id = @ + 1], "reserve", out),
                                      "branch", <<g.label>>)))
      jumpAt == Len(whenTrue.code) + 1
      joined == exit(add(addJump(whenTrue, "jump", <<>>), "resolve", out), NoId)
      whenFalse == enter(label(targets(joined, {branchAt}, joined.label)))
      done == exit(add(whenFalse, "resolve", out), NoId)
  IN  add(exit(label(targets(done, {jumpAt}, done.label)), NoId), "use", out)

-----------------------------------------------------------------------------
(* Statements                                                              *)

Live(scopes, n) == UNION {ToSet(scopes[i].stackObjs) : i \in n .. Len(scopes)}

Frame(kind, at) == [kind |-> kind, at |-> at, full |-> FALSE]
Top == Last(open)

(* A block takes any number of statements, every other body takes one.     *)
Takes(kind) ==
  /\ phase = "compile"
  /\ kind \in Statements
  /\ open # <<>>
  /\ Top.kind \in {"function", "block"} \/ ~Top.full
  /\ statements < MaxStatements
  /\ statements' = statements + 1

Filled == [open EXCEPT ![Len(open)].full = TRUE]
Opens(frame) == open' = Append(Filled, frame)
Simple == open' = Filled /\ UNCHANGED m_lsStack
Closes(kind) ==
  /\ phase = "compile"
  /\ open # <<>> /\ Top.kind = kind /\ (Top.full \/ kind \in {"function", "block"})
  /\ UNCHANGED <<statements, history>>

Compiling == UNCHANGED <<phase, runVars>>

Init ==
  /\ m_scopes = [i \in 1 .. 2 |-> [stackObjs |-> <<>>, didReturn |-> FALSE]]
  /\ m_lsStack = <<>>
  /\ m_instructions = <<>>
  /\ m_nextLabelId = 1
  /\ m_nextAllocId = 1
  /\ open = <<Frame("function", 0)>>
  /\ statements = 0
  /\ history = {}
  /\ phase = "compile"
  /\ pc = 1 /\ turns = 0 /\ valued = {}

Expression ==
  /\ Takes("expression")
  /\ Becomes(temporary(Draft))
  /\ Simple /\ UNCHANGED history /\ Compiling

Declare ==
  /\ Takes("declare")
  /\ \E temp \in BOOLEAN : Becomes(variable(Draft, temp))
  /\ Simple /\ UNCHANGED history /\ Compiling

(* A variable of a class without an initializer: its constructor is called *)
(* on a register that nothing assigned, and no scope will destroy it.      *)
DeclareEmpty ==
  /\ Takes("declare_empty")
  /\ Becomes([add(Draft, "construct", m_nextAllocId) EXCEPT !.id = @ + 1])
  /\ history' = history \cup {"empty"}
  /\ Simple /\ Compiling

Use ==
  /\ Takes("use")
  /\ \E id \in Live(m_scopes, 1) : Becomes(add(Draft, "use", id))
  /\ Simple /\ UNCHANGED history /\ Compiling

Conditional ==
  /\ Takes("conditional")
  /\ Becomes(conditionalObject(Draft)) \/ Becomes(conditionalValue(Draft))
  /\ history' = history \cup {"conditional"}
  /\ Simple /\ Compiling

(* compileIfStatement up to the body: a condition known at compile time    *)
(* does not branch.                                                        *)
If ==
  /\ Takes("if")
  /\ \E temp \in BOOLEAN :
       LET g == exit(Maybe(constructed, temp, enter(Draft)), NoId)
       IN  /\ Becomes(enter(label(addJump(g, "branch", <<g.label>>))))
           /\ Opens(Frame("then", Len(g.code) + 1))
  /\ UNCHANGED <<m_lsStack, history>> /\ Compiling

IfKnown ==
  /\ Takes("if")
  /\ Becomes(enter(Draft))
  /\ Opens(Frame("chosen", 0))
  /\ UNCHANGED <<m_lsStack, history>> /\ Compiling

EndThen ==
  /\ Closes("then")
  /\ LET g == exit(Draft, NoId) IN Becomes(label(targets(g, {Top.at}, g.label)))
  /\ open' = Front(open)
  /\ UNCHANGED m_lsStack /\ Compiling

Else ==
  /\ Closes("then")
  /\ LET g == addJump(exit(Draft, NoId), "jump", <<>>)
     IN  /\ Becomes(enter(label(targets(g, {Top.at}, g.label))))
         /\ open' = Append(Front(open), Frame("else", Len(g.code)))
  /\ UNCHANGED m_lsStack /\ Compiling

EndElse ==
  /\ Closes("else")
  /\ LET g == exit(Draft, NoId) IN Becomes(label(targets(g, {Top.at}, g.label)))
  /\ open' = Front(open)
  /\ UNCHANGED m_lsStack /\ Compiling

EndChosen ==
  /\ Closes("chosen")
  /\ Becomes(exit(Draft, NoId))
  /\ open' = Front(open)
  /\ UNCHANGED m_lsStack /\ Compiling

Block ==
  /\ Takes("block")
  /\ Becomes(enter(Draft))
  /\ Opens(Frame("block", 0))
  /\ UNCHANGED <<m_lsStack, history>> /\ Compiling

EndBlock ==
  /\ Closes("block")
  /\ Becomes(exit(Draft, NoId))
  /\ open' = Front(open)
  /\ UNCHANGED m_lsStack /\ Compiling

(* compileLoop up to the body, with a variable in the initializer or not,  *)
(* and the condition before or after the body.                             *)
Loop ==
  /\ Takes("loop")
  /\ \E init, deferred \in BOOLEAN :
       LET s == label(Maybe(LAMBDA g : variable(g, FALSE), init, enter(Draft)))
           cond == exit(enter(s), NoId)
           body == IF deferred THEN s ELSE label(addJump(cond, "branch", <<cond.label>>))
       IN  /\ Becomes(enter(body))
           /\ m_lsStack' = Append(m_lsStack,
                [loop_begin |-> s.label - 1, outer_scope |-> Len(s.scopes),
                 pending_end_label |-> IF deferred THEN {} ELSE {Len(cond.code) + 1}])
           /\ Opens(Frame(IF deferred THEN "do" ELSE "while", 0))
  /\ UNCHANGED history /\ Compiling

(* The rest: the modifier and the jump back, or the condition; the end     *)
(* label, where the scope of the loop is left.                             *)
Ended(g, pending) == exit(label(targets(g, pending, g.label)), NoId)

EndWhile ==
  /\ Closes("while")
  /\ \E modifier \in BOOLEAN :
       LET body == exit(Draft, NoId)
           next == Maybe(LAMBDA g : exit(temporary(enter(g)), NoId), modifier, body)
       IN  Becomes(Ended(addJump(next, "jump", <<Last(m_lsStack).loop_begin>>),
                         Last(m_lsStack).pending_end_label))
  /\ m_lsStack' = Front(m_lsStack)
  /\ open' = Front(open)
  /\ Compiling

EndDo ==
  /\ Closes("do")
  /\ LET cond == exit(enter(exit(Draft, NoId)), NoId)
     IN  Becomes(Ended(addJump(cond, "branch", <<Last(m_lsStack).loop_begin>>),
                       Last(m_lsStack).pending_end_label \cup {Len(cond.code) + 1}))
  /\ m_lsStack' = Front(m_lsStack)
  /\ open' = Front(open)
  /\ Compiling

(* What leaving a loop early did, for the properties below.                *)
LeftLoop ==
  LET n == Last(m_lsStack).outer_scope
  IN  history' = history
        \cup {"early" : id \in Live(m_scopes, n)}
        \cup {"initializer" : id \in ToSet(m_scopes[n].stackObjs)}

Left(g) == [g EXCEPT !.code = @ \o emitScopeExitInstructions(g.scopes, Last(m_lsStack).outer_scope, NoId)]

Continue ==
  /\ Takes("continue")
  /\ m_lsStack # <<>>
  /\ Becomes(addJump(Left(Draft), "jump", <<Last(m_lsStack).loop_begin>>))
  /\ LeftLoop /\ Simple /\ Compiling

Break ==
  /\ Takes("break")
  /\ m_lsStack # <<>>
  /\ LET g == addJump(Left(Draft), "jump", <<>>)
     IN  /\ Becomes(g)
         /\ m_lsStack' = [m_lsStack EXCEPT ![Len(m_lsStack)].pending_end_label = @ \cup {Len(g.code)}]
  /\ open' = Filled
  /\ LeftLoop /\ Compiling

Return ==
  /\ Takes("return")
  /\ Becomes(add(emitReturnInstructions(Draft), "ret", NoId))
  /\ history' = history \cup {e \in {"early", "return"} : Live(m_scopes, 1) # {}}
  /\ Simple /\ Compiling

(* The block of the function ends, then FunctionDef::onExit, then the      *)
(* scope of the function is left.                                          *)
EndFunction ==
  /\ Closes("function")
  /\ LET block == exit(Draft, NoId)
         closed == IF block.code # <<>> /\ Last(block.code).op = "ret" THEN block
                   ELSE add(emitReturnInstructions(block), "ret", NoId)
     IN  Becomes(exit(closed, NoId))
  /\ open' = <<>>
  /\ phase' = "run"
  /\ UNCHANGED <<m_lsStack, runVars>>

-----------------------------------------------------------------------------
(* Running the function                                                    *)

Running(ops) == phase = "run" /\ m_instructions[pc].op \in ops

LabelAddr(lbl) ==
  CHOOSE a \in DOMAIN m_instructions : m_instructions[a].op = "label" /\ m_instructions[a].to = <<lbl>>

Step ==
  /\ Running({"alloc", "free", "label", "use", "reserve"})
  /\ pc' = pc + 1
  /\ UNCHANGED <<turns, valued>>

Construct ==
  /\ Running({"construct", "resolve"})
  /\ valued' = valued \cup {m_instructions[pc].id}
  /\ pc' = pc + 1
  /\ UNCHANGED turns

Destroy ==
  /\ Running({"dtor"})
  /\ valued' = valued \ {m_instructions[pc].id}
  /\ pc' = pc + 1
  /\ UNCHANGED turns

Jump ==
  /\ Running({"jump", "branch"})
  /\ \E n \in DOMAIN m_instructions[pc].to : pc' = LabelAddr(m_instructions[pc].to[n])
  /\ turns' = IF pc' < pc THEN turns + 1 ELSE turns
  /\ turns' <= MaxTurns
  /\ UNCHANGED valued

Run == (Step \/ Construct \/ Destroy \/ Jump) /\ UNCHANGED <<compileVars, phase>>

Compile ==
  \/ Expression \/ Declare \/ DeclareEmpty \/ Use \/ Conditional \/ If \/ IfKnown \/ EndThen \/ Else \/ EndElse
  \/ EndChosen \/ Block \/ EndBlock \/ Loop \/ EndWhile \/ EndDo \/ Continue \/ Break \/ Return
  \/ EndFunction

Next == Compile \/ Run

Spec == Init /\ [][Next]_vars

-----------------------------------------------------------------------------
Ids == 1 .. MaxObjects

TypeOK ==
  /\ m_scopes \in Seq([stackObjs : Seq(Ids), didReturn : BOOLEAN])
  /\ m_lsStack \in Seq([loop_begin : Nat, outer_scope : Nat, pending_end_label : SUBSET Nat])
  /\ m_instructions \in
       Seq([op : {"alloc", "construct", "dtor", "free", "use", "reserve", "resolve", "label",
                  "branch", "jump", "ret"},
            id : Ids \cup {NoId}, to : Seq(Nat)])
  /\ m_nextLabelId \in Nat /\ m_nextAllocId \in 1 .. MaxObjects + 1
  /\ open \in Seq([kind : STRING, at : Nat, full : BOOLEAN])
  /\ statements \in 0 .. MaxStatements
  /\ history \subseteq {"early", "initializer", "return", "conditional", "empty"}
  /\ phase \in {"compile", "run"}
  /\ pc \in Nat /\ turns \in 0 .. MaxTurns
  /\ valued \subseteq Ids

Objects == {i.id : i \in {j \in ToSet(m_instructions) : j.op = "construct"}}

(* The slots held before the instruction at a, in text order.              *)
HeldBefore(a) ==
  FoldLeft(LAMBDA held, i : IF i.op = "alloc" THEN held \cup {i.id}
                            ELSE IF i.op = "free" THEN held \ {i.id} ELSE held,
           {}, SubSeq(m_instructions, 1, a - 1))

(* When code is generated, a slot that is freed is held: StackManager::free*)
(* asserts it.                                                             *)
FreesHeld ==
  phase = "run" /\ pc = 1 =>
    \A a \in DOMAIN m_instructions :
      m_instructions[a].op = "free" => m_instructions[a].id \in HeldBefore(a)

(* An object that is alive has a slot that was not freed: nothing else can *)
(* be put there.                                                           *)
LiveHeld == phase = "run" => valued \cap Objects \subseteq HeldBefore(pc)

(* What is destroyed is alive, what is used has a value.                   *)
UsesValued == Running({"dtor", "use"}) => m_instructions[pc].id \in valued

(* When the function returns, every object was destroyed.                  *)
NothingLeaked == Running({"ret"}) => valued \cap Objects = {}

(* The same where no early exit left objects behind, and every object was  *)
(* declared with its value, outside conditional expressions.               *)
FreesHeldApart == "early" \in history \/ FreesHeld
LiveHeldApart == history \cap {"early", "conditional", "empty"} # {} \/ LiveHeld

(* The same but for returns from scopes with objects, early exits of loops *)
(* that declare an object in their initializer, and conditional            *)
(* expressions.                                                            *)
UsesValuedApart == history \cap {"return", "initializer", "conditional"} # {} \/ UsesValued

(* The same, whatever the early exits, but for conditional expressions and *)
(* variables without an initializer.                                       *)
NothingLeakedApart == history \cap {"conditional", "empty"} # {} \/ NothingLeaked
=============================================================================
