----------------------------- MODULE Optimizer -----------------------------
(***************************************************************************)
(* The optimizations of one function (defaultOptimizations), in the order  *)
(* in which the groups execute them: copy propagation and elimination of   *)
(* common subexpressions on each basic block, reduction of memory accesses *)
(* on the function, all repeated while one of them asks for it, then       *)
(* constant folding and dead code elimination.                             *)
(*                                                                         *)
(* An operand is a register (positive), an immediate (negative) or an      *)
(* argument of the function (below the immediates); the first operand of   *)
(* an instruction in Assigning is the one it assigns.  A load or a store   *)
(* has a third operand, an immediate, when it is at an offset from its     *)
(* pointer.  Arguments are never assigned here.                            *)
(* vmag stands for the instructions that read the memory their operand     *)
(* points to (vdot, vmag, vmagsq), vset for those that write it, add for   *)
(* the operations of two values.                                           *)
(***************************************************************************)
EXTENDS Lifetimes, FiniteSets

CONSTANTS
  Programs,   (* the functions a run may optimize                          *)
  Regs,       (* their registers                                           *)
  Origins,    (* the values stack_ptr may yield for each of its immediates,*)
              (* and the arguments may have                                *)
  MaxTurns,   (* bound on the branches taken while running                 *)
  MaxSteps    (* bound on the executions of optimizations                  *)

VARIABLES
  code,       (* ch->code                                                  *)
  liveness,   (* ch->liveness, as of the last rebuildAll                   *)
  step,       (* the optimization that is executed next, then "done"       *)
  block,      (* the basic block it is executed on                         *)
  m_doRepeat, (* of the inner group                                        *)
  met,        (* history: what the last step did that may not be right     *)
  steps       (* history: the executions so far                            *)

vars == <<code, liveness, step, block, m_doRepeat, met, steps>>

Assigning == {"assign", "add", "inc", "load", "vmag", "stack_ptr"}

Dest(i) == IF i.op \in Assigning THEN i.operands[1] ELSE 0

isReg(v) == v > 0
Imm(n) == -1 - n
ImmOf(v) == -1 - v

(* FunctionDef::addArg: an argument has its number and the register id 0.  *)
(* LeastImm bounds the immediates of a run.                                *)
LeastImm == -1000
Arg(n) == LeastImm - n
ArgOf(v) == LeastImm - v
isArg(v) == v < LeastImm
isImm(v) == v < 0 /\ ~isArg(v)

getRegId(v) == IF isReg(v) THEN v ELSE 0

ReadsAt(i) == {o \in DOMAIN i.operands : o # 1 \/ i.op \notin Assigning \ {"inc"}}
ReadRegs(i) == {i.operands[o] : o \in ReadsAt(i)} \cap Regs

Assign(d, v) == [op |-> "assign", operands |-> <<d, v>>, to |-> <<>>]

(* The function as Lifetimes reads it.                                     *)
Named(c) ==
  [a \in DOMAIN c |-> [op |-> c[a].op, def |-> Dest(c[a]), res |-> 0, to |-> c[a].to,
                       uses |-> IF c[a].op = "inc" THEN {} ELSE ReadRegs(c[a])]]

Addrs(first, last) == [n \in 1 .. last - first + 1 |-> first + n - 1]

AssignedBetween(c, r, a, b) == \E x \in a + 1 .. b - 1 : Dest(c[x]) = r

-----------------------------------------------------------------------------
(* ControlFlowGraph::rebuild: a block begins with a label or behind a jump *)

Leaders(c) ==
  {1} \cup {a \in 2 .. Len(c) : c[a].op = "label" \/ c[a - 1].op \in {"jump", "branch"}}

Blocks(c) ==
  LET begins == SelectSeq(Addrs(1, Len(c)), LAMBDA a : a \in Leaders(c))
  IN  [n \in DOMAIN begins |->
        [begin |-> begins[n], end |-> IF n = Len(begins) THEN Len(c) ELSE begins[n + 1] - 1]]

-----------------------------------------------------------------------------
(* CopyPropagationStep::execute                                            *)

NoCopy == 0

IsCopy(i) == i.op = "assign" \/ (i.op = "add" /\ i.operands[3] = Imm(0))

(* acc.right is history: the registers that were copied from a value or a *)
(* register that was not assigned since.                                   *)
PropagateAssign(acc, a) ==
  LET i == acc.code[a]
      r == i.operands[1]
      src == i.operands[2]
      found == isReg(src) /\ acc.assignMap[src] # NoCopy
      v == IF found THEN acc.assignMap[src] ELSE src
      fine == ~found \/ src \in acc.right
  IN  [code |-> [acc.code EXCEPT ![a].operands[2] = v],
       assignMap |-> [acc.assignMap EXCEPT ![r] = v],
       changes |-> acc.changes \/ found,
       right |-> {q \in acc.right \ {r} : acc.assignMap[q] # r \/ v = r}
                   \cup {q \in {r} : fine},
       stale |-> acc.stale \/ ~fine]

(* Mutant of Forget: the register keeps its entry.                         *)
ForgetNothing(assignMap, d) == assignMap

Forget(assignMap, d) == [assignMap EXCEPT ![d] = NoCopy]

PropagateUses(acc, a) ==
  LET i == acc.code[a]
      d == Dest(i)
      found == {o \in DOMAIN i.operands :
                  isReg(i.operands[o]) /\ i.operands[o] # d /\ acc.assignMap[i.operands[o]] # NoCopy}
  IN  [code |-> [acc.code EXCEPT ![a].operands =
                   [o \in DOMAIN @ |-> IF o \in found THEN acc.assignMap[@[o]] ELSE @[o]]],
       assignMap |-> IF d = 0 THEN acc.assignMap ELSE Forget(acc.assignMap, d),
       changes |-> acc.changes \/ found # {},
       right |-> {q \in acc.right : d = 0 \/ acc.assignMap[q] # d},
       stale |-> acc.stale \/ \E o \in found : i.operands[o] \notin acc.right]

Propagated(c, b) ==
  FoldLeft(LAMBDA acc, a : IF IsCopy(acc.code[a]) THEN PropagateAssign(acc, a) ELSE PropagateUses(acc, a),
           [code |-> c, assignMap |-> [r \in Regs |-> NoCopy], changes |-> FALSE, right |-> {},
            stale |-> FALSE],
           Addrs(b.begin, b.end))

-----------------------------------------------------------------------------
(* CommonSubexpressionEliminationStep::execute                             *)

SameArgs(e, i) ==
  e.op = i.op /\ e.operands[1] # i.operands[1] /\ Tail(e.operands) = Tail(i.operands)

(* Mutant of Unchanged: only the result of the first one is looked at.     *)
ResultUnchanged(c, a, b) == ~AssignedBetween(c, c[a].operands[1], a, b)

Unchanged(c, a, b) ==
  \A o \in DOMAIN c[a].operands :
    isReg(c[a].operands[o]) => ~AssignedBetween(c, c[a].operands[o], a, b)

(* An expression that reads what it assigns, or memory that was written    *)
(* in between, has another value the second time.                          *)
OtherValue(c, a, b) ==
  {m \in {"own operand"} : Dest(c[a]) \in ReadRegs(c[a])}
    \cup {m \in {"memory read"} : c[a].op = "vmag" /\
            \E x \in a + 1 .. b - 1 : c[x].op \in {"store", "vset", "call"}}

(* The instruction at b against the assignment at a before it.             *)
EliminateAgainst(acc, a, b) ==
  IF a < b /\ SameArgs(acc.code[a], acc.code[b]) /\ Unchanged(acc.code, a, b)
  THEN [acc EXCEPT !.code[b] = Assign(Dest(acc.code[b]), Dest(acc.code[a])),
                   !.changes = TRUE,
                   !.met = @ \cup OtherValue(acc.code, a, b)]
  ELSE acc

Eliminated(c, b) ==
  LET assignments == SelectSeq(Addrs(b.begin, b.end),
                               LAMBDA x : c[x].op \notin {"load", "assign"} /\ Dest(c[x]) # 0)
  IN  FoldLeft(LAMBDA acc, x : FoldLeft(LAMBDA g, a : EliminateAgainst(g, a, x), acc, assignments),
               [code |-> c, changes |-> FALSE, met |-> {}], assignments)

-----------------------------------------------------------------------------
(* ReduceMemoryAccessStep::execute.  A load is known by the id of the      *)
(* register its pointer is in, which is 0 for every argument: where it is, *)
(* from which pointer, the register loaded, whether the address was stored *)
(* to since; a store so: where it is, to which pointer, the value stored.  *)

NoLoad == [at |-> 0, from |-> 0, to |-> 0, over |-> FALSE]
NoStore == [at |-> 0, dest |-> 0, src |-> 0]

NoLoads == [r \in Regs \cup {0} |-> NoLoad]
NoStores == [r \in Regs \cup {0} |-> NoStore]

Offset(i) == IF Len(i.operands) = 3 THEN ImmOf(i.operands[3]) ELSE 0

(* What may have happened since at, when pointer q was accessed, that the  *)
(* maps do not know of, so that register r may not hold what p points to.  *)
Unknown(acc, q, p, r, at, a) ==
  LET c == acc.code
  IN  {m \in {"join"} : \E x \in at .. a : c[x].op = "label"}
        \cup {m \in {"argument"} : q # p}
        \cup {m \in {"not noted"} : \E x \in acc.unnoted : at < x /\ Dest(c[x]) = r}
        \cup {m \in {"pointer moved"} : isReg(p) /\ AssignedBetween(c, p, at, a)}
        \cup {m \in {"alias"} : \E x \in at + 1 .. a - 1 :
                \/ c[x].op = "store" /\ c[x].operands[2] # p
                \/ c[x].op = "vset" /\ c[x].operands[1] # p}

(* Mutant of Delete: the instruction stays.                                *)
DeleteNothing(acc, a, ask, m) == [acc EXCEPT !.changes = @ \/ ask, !.met = @ \cup m]

Delete(acc, a, ask, m) ==
  [acc EXCEPT !.removed = @ \cup {a}, !.changes = @ \/ ask, !.met = @ \cup m]

Replace(acc, a, v, ask, m) ==
  [acc EXCEPT !.code[a] = Assign(Dest(@), v),
              !.lastAssign[Dest(acc.code[a])] = a,
              !.changes = @ \/ ask, !.met = @ \cup m]

Remember(acc, a, from, to) ==
  [acc EXCEPT !.loadMap[getRegId(from)] = [at |-> a, from |-> from, to |-> to, over |-> FALSE],
              !.lastAssign[to] = a]

(* The load stays, but lastAssign does not say that it assigns.            *)
Pass(acc, a) == [acc EXCEPT !.unnoted = @ \cup {a}]

(* The value loaded was loaded before (scenarios 2 and 4).                 *)
LoadedBefore(acc, a, from, to) ==
  LET pl == acc.loadMap[getRegId(from)]
      m == Unknown(acc, pl.from, from, pl.to, pl.at, a)
  IN  IF pl = NoLoad \/ pl.over THEN Remember(acc, a, from, to)
      ELSE IF pl.to = to /\ acc.lastAssign[to] <= pl.at THEN Delete(acc, a, TRUE, m)
      ELSE IF pl.to # to /\ acc.lastAssign[pl.to] < pl.at THEN Replace(acc, a, pl.to, TRUE, m)
      ELSE Remember(acc, a, from, to)

(* A load whose value nothing below reads goes; a value stored before and  *)
(* not changed since is taken from where it was (scenarios 3 and 5), but   *)
(* not from an argument.  A load at an offset is passed over.              *)
ReduceLoad(acc, a) ==
  LET to == acc.code[a].operands[1]
      from == acc.code[a].operands[2]
      pl == acc.loadMap[getRegId(from)]
      ps == acc.storeMap[getRegId(from)]
      m == Unknown(acc, ps.dest, from, ps.src, ps.at, a)
      known == pl # NoLoad
      stored == ps # NoStore /\ (~known \/ ps.at > pl.at)
      used == \E x \in a + 1 .. Len(acc.code) : involves(Named(acc.code)[x], to, TRUE)
      loop == {l \in {"loop"} : \E x \in a + 1 .. Len(acc.code) :
                 \E n \in DOMAIN acc.code[x].to : LabelAddr(acc.code, acc.code[x].to[n]) < a}
  IN  IF Offset(acc.code[a]) # 0 THEN Pass(acc, a)
      ELSE IF ~used THEN Delete(acc, a, TRUE, loop)
      ELSE IF stored /\ isArg(ps.src) THEN Pass(acc, a)
      ELSE IF stored /\ (isReg(ps.src) => acc.lastAssign[ps.src] < ps.at)
      THEN IF ps.src = to THEN Delete(acc, a, known, m) ELSE Replace(acc, a, ps.src, known, m)
      ELSE LoadedBefore(acc, a, from, to)

(* A store of what the address holds goes (scenarios 2, 3 and 4), unless   *)
(* it is an argument; a store at an offset is passed over.                 *)
ReduceStore(acc, a) ==
  LET v == acc.code[a].operands[1]
      p == acc.code[a].operands[2]
      key == getRegId(p)
      pl == acc.loadMap[key]
      ps == acc.storeMap[key]
      known == pl # NoLoad
      stored == ps # NoStore /\ (~known \/ ps.at > pl.at)
      since == IF known THEN pl.at ELSE ps.at - 1
  IN  IF Offset(acc.code[a]) # 0 THEN acc
      ELSE IF stored /\ ps.src = v /\ ~isArg(v) /\ (isReg(v) => acc.lastAssign[v] <= since)
      THEN Delete(acc, a, TRUE, Unknown(acc, ps.dest, p, v, ps.at, a))
      ELSE IF ~stored /\ known /\ pl.to = v /\ acc.lastAssign[v] <= pl.at
      THEN Delete(acc, a, TRUE, Unknown(acc, pl.from, p, v, pl.at, a))
      ELSE [acc EXCEPT !.storeMap[key] = [at |-> a, dest |-> p, src |-> v], !.loadMap[key].over = known]

(* Mutant of NoteEffects: calls write nothing.                             *)
NoteNoCalls(acc, a) ==
  LET i == acc.code[a]
  IN  IF i.op = "vset"
      THEN [acc EXCEPT !.loadMap[getRegId(i.operands[1])] = NoLoad,
                       !.storeMap[getRegId(i.operands[1])] = NoStore]
      ELSE IF Dest(i) # 0 THEN [acc EXCEPT !.lastAssign[Dest(i)] = a] ELSE acc

NoteEffects(acc, a) ==
  LET i == acc.code[a]
  IN  IF i.op = "call"
      THEN [acc EXCEPT !.loadMap = NoLoads, !.storeMap = NoStores]
      ELSE IF i.op = "vset"
      THEN [acc EXCEPT !.loadMap[getRegId(i.operands[1])] = NoLoad,
                       !.storeMap[getRegId(i.operands[1])] = NoStore]
      ELSE IF Dest(i) # 0 THEN [acc EXCEPT !.lastAssign[Dest(i)] = a] ELSE acc

Without(c, addrs) ==
  LET kept == SelectSeq(Addrs(1, Len(c)), LAMBDA a : a \notin addrs) IN [n \in DOMAIN kept |-> c[kept[n]]]

Reduced(c) ==
  LET all == FoldLeft(LAMBDA acc, a : IF acc.code[a].op = "load" THEN ReduceLoad(acc, a)
                                      ELSE IF acc.code[a].op = "store" THEN ReduceStore(acc, a)
                                      ELSE NoteEffects(acc, a),
                      [code |-> c, loadMap |-> NoLoads, storeMap |-> NoStores,
                       lastAssign |-> [r \in Regs |-> 0], removed |-> {}, unnoted |-> {},
                       changes |-> FALSE, met |-> {}],
                      Addrs(1, Len(c)))
  IN  [all EXCEPT !.code = Without(@, all.removed)]

-----------------------------------------------------------------------------
(* ConstantFoldingStep::execute and DeadCodeEliminationStep::execute       *)

Folded(c) ==
  [a \in DOMAIN c |->
    IF c[a].op = "add" /\ isImm(c[a].operands[2]) /\ isImm(c[a].operands[3])
    THEN Assign(Dest(c[a]), Imm(ImmOf(c[a].operands[2]) + ImmOf(c[a].operands[3])))
    ELSE c[a]]

(* Mutant of Dead: lifetimes of one use are dead too.                      *)
DeadWithOneUse(lifetimes) == {l.begin : l \in {q \in ToSet(lifetimes) : q.end <= q.begin + 1}}

(* The assignments of the lifetimes without a use.                         *)
Dead(lifetimes) == {l.begin : l \in {q \in ToSet(lifetimes) : q.end = q.begin}}

(* The lifetime of a value ends in the text where its register is assigned *)
(* again, though a branch may lead around the assignment, or into a loop.  *)
BranchBehind(c, a) ==
  \E b \in a + 1 .. Len(c) :
    c[b].to # <<>> /\ c[b].op # "label" /\ ~AssignedBetween(c, Dest(c[a]), a, b)

-----------------------------------------------------------------------------
(* OptimizationGroup::execute                                              *)

Init ==
  /\ code \in Programs
  /\ liveness = Lifetimes(Named(code))
  /\ step = "copy"
  /\ block = 1
  /\ m_doRepeat = FALSE
  /\ met = {}
  /\ steps = 0

(* CodeHolder::rebuildAll; a step that calls it only sometimes leaves      *)
(* lifetimes of the code as it was.                                        *)
RebuildIf(changed) == liveness' = IF changed THEN Lifetimes(Named(code')) ELSE liveness

(* A step is executed on a block until it changes nothing.                 *)
OnBlock(next, r, m) ==
  /\ code' = r.code
  /\ RebuildIf(r.changes)
  /\ m_doRepeat' = (m_doRepeat \/ r.changes)
  /\ met' = m
  /\ IF r.changes THEN UNCHANGED <<step, block>>
     ELSE IF block < Len(Blocks(code)) THEN block' = block + 1 /\ UNCHANGED step
     ELSE step' = next /\ block' = 1

CopyPropagation ==
  /\ step = "copy"
  /\ LET r == Propagated(code, Blocks(code)[block])
     IN  OnBlock("cse", r, {m \in {"stale copy"} : r.stale})

CommonSubexpressionElimination ==
  /\ step = "cse"
  /\ LET r == Eliminated(code, Blocks(code)[block]) IN OnBlock("memory", r, r.met)

ReduceMemoryAccess ==
  /\ step = "memory"
  /\ LET r == Reduced(code)
     IN  /\ code' = r.code
         /\ RebuildIf(r.removed # {})
         /\ met' = r.met
         /\ step' = IF m_doRepeat \/ r.changes THEN "copy" ELSE "fold"
  /\ m_doRepeat' = FALSE
  /\ UNCHANGED block

ConstantFolding ==
  /\ step = "fold"
  /\ code' = Folded(code)
  /\ step' = "dead"
  /\ met' = {}
  /\ UNCHANGED <<liveness, block, m_doRepeat>>

DeadCodeElimination ==
  /\ step = "dead"
  /\ LET dead == Dead(liveness)
     IN  /\ code' = Without(code, dead)
         /\ RebuildIf(dead # {})
         /\ step' = IF dead # {} THEN "dead" ELSE "done"
         /\ met' = {m \in {"branch"} : \E a \in dead : BranchBehind(code, a)}
  /\ UNCHANGED <<block, m_doRepeat>>

Next ==
  /\ steps < MaxSteps
  /\ \/ CopyPropagation \/ CommonSubexpressionElimination \/ ReduceMemoryAccess
     \/ ConstantFolding \/ DeadCodeElimination
  /\ steps' = steps + 1

Spec == Init /\ [][Next]_vars

-----------------------------------------------------------------------------
(* What a function does: the values it passes on and branches on, and the  *)
(* memory, as it is at each call and in the end.  Registers begin with     *)
(* values so far apart that sums of them are equal only when they are sums *)
(* of the same values; vmag, vset and call are additions of their own.     *)

Cells == 1 .. 2
Memory == [a \in Cells |-> 810000 * IF a = 1 THEN 1 ELSE 30]

At(mem, a) == IF a \in Cells THEN mem[a] ELSE a + 17

Set(s, r, v) == [s EXCEPT !.regs[r] = v, !.pc = @ + 1]
Seen(s, v) == [s EXCEPT !.seen = Append(@, v), !.pc = @ + 1]
Write(s, a, v) == [s EXCEPT !.mem = [b \in Cells |-> IF b = a THEN v ELSE @[b]], !.pc = @ + 1]
Goto(c, s, label) == [s EXCEPT !.pc = LabelAddr(c, label)]

Exec(c, w, s) ==
  LET i == c[s.pc]
      val[o \in DOMAIN i.operands] ==
        IF isReg(i.operands[o]) THEN s.regs[i.operands[o]]
        ELSE IF isArg(i.operands[o]) THEN w.origin[ArgOf(i.operands[o])]
        ELSE ImmOf(i.operands[o])
  IN  CASE i.op = "assign" -> Set(s, Dest(i), val[2])
        [] i.op = "add" -> Set(s, Dest(i), val[2] + val[3])
        [] i.op = "inc" -> Set(s, Dest(i), val[1] + 1)
        [] i.op = "stack_ptr" -> Set(s, Dest(i), w.origin[val[2]])
        [] i.op = "load" -> Set(s, Dest(i), At(s.mem, val[2] + Offset(i)))
        [] i.op = "vmag" -> Set(s, Dest(i), At(s.mem, val[2]) + 13)
        [] i.op = "store" -> Write(s, val[2] + Offset(i), val[1])
        [] i.op = "vset" -> Write(s, val[1], At(s.mem, val[1]) + 7)
        [] i.op = "call" -> [Seen(s, s.mem) EXCEPT !.mem = [a \in Cells |-> @[a] + 11]]
        [] i.op = "param" -> Seen(s, <<val[1]>>)
        [] i.op = "label" -> [s EXCEPT !.pc = @ + 1]
        [] i.op = "jump" -> Goto(c, s, i.to[1])
        [] i.op = "branch" ->
             IF s.ways = <<>> THEN [s EXCEPT !.pc = Len(c) + 1]
             ELSE [Goto(c, Seen(s, <<val[1]>>), i.to[Head(s.ways)]) EXCEPT !.ways = Tail(@)]

(* Which way the branches go is chosen beforehand; between two of them no  *)
(* instruction is executed twice.                                          *)
Worlds(c) ==
  [origin : Origins,
   ways : IF \E a \in DOMAIN c : c[a].op = "branch" THEN [1 .. MaxTurns -> 1 .. 2] ELSE {<<>>}]

Start(w) ==
  [pc |-> 1, regs |-> [r \in Regs |-> 0], mem |-> Memory, seen |-> <<>>, ways |-> w.ways]

Observed(c, w) ==
  LET after[n \in Nat] ==
        IF n = 0 THEN Start(w)
        ELSE LET s == after[n - 1] IN IF s.pc > Len(c) THEN s ELSE Exec(c, w, s)
      last == after[(Len(w.ways) + 1) * Len(c)]
  IN  Append(last.seen, last.mem)

Same(c, d) == c = d \/ \A w \in Worlds(c) : Observed(c, w) = Observed(d, w)

-----------------------------------------------------------------------------
Arity == [assign |-> {2}, add |-> {3}, inc |-> {1}, stack_ptr |-> {2}, load |-> {2, 3}, vmag |-> {2},
          store |-> {2, 3}, vset |-> {1}, call |-> {0}, param |-> {1}, label |-> {0}, jump |-> {0},
          branch |-> {1}]

TypeOK ==
  /\ \A a \in DOMAIN code :
       /\ code[a].op \in DOMAIN Arity
       /\ Len(code[a].operands) \in Arity[code[a].op]
       /\ Dest(code[a]) \in Regs \cup {0}
  /\ \A n \in DOMAIN liveness : liveness[n].begin <= liveness[n].end /\ liveness[n].end <= Len(code)
  /\ step \in {"copy", "cse", "memory", "fold", "dead", "done"}
  /\ block \in DOMAIN Blocks(code)
  /\ m_doRepeat \in BOOLEAN
  /\ steps \in 0 .. MaxSteps
  /\ met \subseteq {"stale copy", "own operand", "memory read", "join", "argument", "not noted",
                     "pointer moved", "alias", "loop", "branch"}

(* Propagation of copies does not change what the function does (the       *)
(* comment at CopyPropagation.cpp:134 says that values a register no longer*)
(* holds are forgotten), unless it puts a register where it no longer holds*)
(* what was copied from it.                                                *)
CopyRightApart == [][step = "copy" => met' # {} \/ Same(code, code')]_vars

(* Elimination of common subexpressions does not change what the function  *)
(* does, unless the first of two equal expressions assigns its own operand,*)
(* or the memory they read is written in between.                          *)
CommonRightApart == [][step = "cse" => met' # {} \/ Same(code, code')]_vars

(* Nor does the removal of loads and stores, unless what is known of an    *)
(* address was learnt on another way through the code or of another        *)
(* argument, or its register was assigned, or another register may point   *)
(* there, or the register that held its value was loaded at an offset or   *)
(* with what an argument was stored to, or a loop leads back.              *)
MemoryRightApart == [][step = "memory" => met' # {} \/ Same(code, code')]_vars

(* Nor does the folding of constants, nor the removal of dead code unless  *)
(* a jump leads from the removed assignment before its register is assigned*)
(* again.                                                                  *)
DeadRightApart == [][(step = "fold" \/ step = "dead") => met' # {} \/ Same(code, code')]_vars

(* The optimization of every function comes to an end, but for functions in*)
(* which a register is assigned itself: that copy is propagated for ever.  *)
CopiesItself == \E a \in DOMAIN code : IsCopy(code[a]) /\ Dest(code[a]) = code[a].operands[2]

Terminates == steps = MaxSteps => step = "done" \/ CopiesItself
=============================================================================
