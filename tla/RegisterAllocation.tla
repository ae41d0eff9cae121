------------------------- MODULE RegisterAllocation -------------------------
(***************************************************************************)
(* RegisterAllocatonStep::execute on the IR of one function, and the       *)
(* running of its result.  The step computes the lifetimes of the virtual  *)
(* registers, then, once for the general purpose and once for the floating *)
(* point registers, scans them (LinearScan), rewrites the operands and     *)
(* inserts ir_stack_allocate and ir_stack_free for what was spilled.       *)
(*                                                                         *)
(* The rewritten code is then run next to the original: virt holds what    *)
(* each virtual register holds when the IR is executed as written, phys    *)
(* what the registers and stack slots hold when operands are accessed as   *)
(* Backend::generate emits them.  A value is a term: the instruction that  *)
(* computed it and the values it read.                                     *)
(*                                                                         *)
(* An instruction is a record: op, the virtual register def it assigns (0  *)
(* for none), those its other operands name (uses), the one a resolve      *)
(* resolves (res), the labels it names (to), the slot it allocates or      *)
(* frees, and at, the location of the operands of each virtual register.   *)
(***************************************************************************)
EXTENDS Lifetimes, FiniteSets

CONSTANTS
  Programs,     (* the functions a run may compile                         *)
  GpRegs,       (* their general purpose virtual registers                 *)
  FpRegs,       (* their floating point virtual registers                  *)
  RegCounts,    (* the numbers of registers of each kind, m_numGP, m_numFP *)
  MaxTurns,     (* bound on backward jumps taken while running             *)
  MaxLoc        (* bound on the numbers of registers and slots             *)

(* The scan of the lifetimes of one kind, see LinearScan.                  *)
VARIABLES live, k, l, new_id, stack_loc, free_regs, active, nextStackId

scanVars == <<live, k, l, new_id, stack_loc, free_regs, active, nextStackId>>

LinScan == INSTANCE LinearScan WITH LiveRanges <- {}

NoReg == LinScan!NoReg
NoLoc == LinScan!NoLoc

VARIABLES
  code,         (* m_ch->code                                              *)
  pass,         (* which lifetimes are being allocated, then "run"         *)
  m_gpLf, m_fpLf,
  stale,        (* history: floating point lifetimes were moved by the     *)
                (* instructions the general purpose pass inserted          *)
  tied,         (* history: a spilled lifetime ended where one began       *)
  pc, turns, virt, phys

runVars == <<pc, turns, virt, phys>>
vars == <<scanVars, code, pass, m_gpLf, m_fpLf, stale, tied, runVars>>

Vregs == GpRegs \cup FpRegs
Locs == {"gp", "fp", "slot"} \X (0 .. MaxLoc)
ClassOf(v) == IF v \in FpRegs THEN "fp" ELSE "gp"

-----------------------------------------------------------------------------
LifetimesOf(c, regs) == SelectSeq(Lifetimes(c), LAMBDA r : r.reg_id \in regs)

Spans(lf) == [i \in DOMAIN lf |-> [begin |-> lf[i].begin, end |-> lf[i].end]]

-----------------------------------------------------------------------------
(* What allocateRegisters does after its scan                              *)

Spilled == {i \in 1 .. Len(live) : stack_loc[i] # NoLoc}

(* Mutant of Rewritten: the last instruction of a lifetime is left out.    *)
RewrittenButLast(c, lf) ==
  [a \in 1 .. Len(c) |->
    [c[a] EXCEPT !.at =
      [v \in Vregs |->
        LET over == {i \in DOMAIN lf : lf[i].reg_id = v /\ lf[i].begin <= a /\ a < lf[i].end}
            i == MaxOf(over)
        IN  IF over = {} THEN c[a].at[v]
            ELSE IF LinScan!InRegister(i) THEN <<ClassOf(v), new_id[i]>>
            ELSE <<"slot", stack_loc[i]>>]]]

(* changes: every operand that names the register of a lifetime, at the    *)
(* addresses of the lifetime; a later lifetime overwrites an earlier one.  *)
Rewritten(c, lf) ==
  [a \in 1 .. Len(c) |->
    [c[a] EXCEPT !.at =
      [v \in Vregs |->
        LET over == {i \in DOMAIN lf : lf[i].reg_id = v /\ lf[i].begin <= a /\ a <= lf[i].end}
            i == MaxOf(over)
        IN  IF over = {} THEN c[a].at[v]
            ELSE IF LinScan!InRegister(i) THEN <<ClassOf(v), new_id[i]>>
            ELSE <<"slot", stack_loc[i]>>]]]

SlotInstr(kind, id) ==
  [op |-> kind, def |-> 0, uses |-> {}, res |-> 0, to |-> <<>>, slot |-> id,
   at |-> [v \in Vregs |-> <<ClassOf(v), v>>]]

(* The allocations go in, last lifetime first; each one moves the ends     *)
(* that lie after the beginning of its lifetime.                           *)
WithAllocations(c) ==
  FoldLeft(LAMBDA acc, i :
             [code |-> InsertAt(acc.code, live[i].begin, SlotInstr("stack_allocate", stack_loc[i])),
              ends |-> [j \in DOMAIN acc.ends |->
                          IF acc.ends[j] > live[i].begin THEN acc.ends[j] + 1 ELSE acc.ends[j]]],
           [code |-> c, ends |-> [i \in Spilled |-> live[i].end]],
           SetToSortSeq(Spilled, LAMBDA i, j : i > j))

(* Mutant of WithSlots: a slot is freed before the last use.               *)
WithSlotsFreedEarly(c) ==
  LET alloc == WithAllocations(c)
  IN  FoldLeft(LAMBDA acc, i : InsertAt(acc, alloc.ends[i], SlotInstr("stack_free", stack_loc[i])),
               alloc.code,
               SetToSortSeq(Spilled, LAMBDA i, j :
                 \/ alloc.ends[i] > alloc.ends[j]
                 \/ alloc.ends[i] = alloc.ends[j] /\ i > j))

(* Then the frees, the last end first.                                     *)
WithSlots(c) ==
  LET alloc == WithAllocations(c)
  IN  FoldLeft(LAMBDA acc, i : InsertAt(acc, alloc.ends[i] + 1, SlotInstr("stack_free", stack_loc[i])),
               alloc.code,
               SetToSortSeq(Spilled, LAMBDA i, j :
                 \/ alloc.ends[i] > alloc.ends[j]
                 \/ alloc.ends[i] = alloc.ends[j] /\ i > j))

Tied == \E i, j \in Spilled : live[i].end = live[j].begin

FirstStackId(c) == MaxOf({0} \cup {c[a].slot : a \in DOMAIN c}) + 1

-----------------------------------------------------------------------------
Undefined == <<0, {}>>
Garbage == <<-1, {}>>

Init ==
  /\ code \in Programs
  /\ pass = "gp"
  /\ m_gpLf = LifetimesOf(code, GpRegs)
  /\ m_fpLf = LifetimesOf(code, FpRegs)
  /\ stale = FALSE
  /\ tied = FALSE
  /\ \E count \in RegCounts : LinScan!StartScan(Spans(m_gpLf), count, FirstStackId(code))
  /\ pc = 1 /\ turns = 0
  /\ virt = [v \in Vregs |-> Undefined]
  /\ phys = [loc \in Locs |-> Undefined]

ScanStep ==
  /\ pass # "run"
  /\ LinScan!Scan
  /\ UNCHANGED <<code, pass, m_gpLf, m_fpLf, stale, tied, runVars>>

(* The general purpose pass is over: its code is written, and the floating *)
(* point lifetimes, computed before, are scanned.                          *)
FinishGp ==
  /\ pass = "gp"
  /\ l > Len(live)
  /\ code' = WithSlots(Rewritten(code, m_gpLf))
  /\ pass' = "fp"
  /\ stale' = (Spilled # {} /\ m_fpLf # <<>>)
  /\ tied' = Tied
  /\ live' = Spans(m_fpLf)
  /\ l' = 1
  /\ new_id' = [i \in DOMAIN m_fpLf |-> NoReg]
  /\ stack_loc' = [i \in DOMAIN m_fpLf |-> NoLoc]
  /\ free_regs' = [r \in 1 .. k |-> k + 1 - r]
  /\ active' = <<>>
  /\ nextStackId' = FirstStackId(code')
  /\ UNCHANGED <<k, m_gpLf, m_fpLf, runVars>>

FinishFp ==
  /\ pass = "fp"
  /\ l > Len(live)
  /\ code' = WithSlots(Rewritten(code, m_fpLf))
  /\ pass' = "run"
  /\ tied' = (tied \/ Tied)
  /\ UNCHANGED <<scanVars, m_gpLf, m_fpLf, stale, runVars>>

-----------------------------------------------------------------------------
(* Running                                                                 *)

Term(values, i) == <<pc, {<<v, values[v]>> : v \in Reads(i)}>>

(* stack_addrs when instruction a is generated: ir_stack_allocate takes    *)
(* the first free slot of the frame, ir_stack_free erases the id.  (Slots  *)
(* are of one size, counted in slots from sp.)                             *)
stack_addrs(c, a) ==
  LET Free(addrs) == MinOf((0 .. Len(c)) \ Range(addrs))
  IN  FoldLeft(LAMBDA addrs, i :
                 CASE i.op = "stack_allocate" -> (i.slot :> Free(addrs)) @@ addrs
                   [] i.op = "stack_free" -> Restrict(addrs, DOMAIN addrs \ {i.slot})
                   [] OTHER -> addrs,
               <<>>, SubSeq(c, 1, a - 1))

(* Where the operand of instruction a that names v is accessed.  For an id *)
(* that is not in the table, stack_addrs[id] inserts the address 0.        *)
Place(c, a, v) ==
  LET at == c[a].at[v]
      addrs == stack_addrs(c, a)
  IN  IF at[1] # "slot" THEN at
      ELSE <<"slot", IF at[2] \in DOMAIN addrs THEN addrs[at[2]] ELSE 0>>

PlaceNow(v) == Place(code, pc, v)

Held(i) == [v \in Reads(i) |-> phys[PlaceNow(v)]]

OnStack(i, v) == i.at[v][1] = "slot"

Running(ops) == pass = "run" /\ pc <= Len(code) /\ code[pc].op \in ops

Advance == pc' = pc + 1 /\ UNCHANGED <<turns, scanVars, code, pass, m_gpLf, m_fpLf, stale, tied>>

(* An assigned operand on the stack is computed in a scratch register and  *)
(* stored.                                                                 *)
Compute ==
  /\ Running({"op"})
  /\ LET i == code[pc]
     IN  IF i.def = 0 THEN UNCHANGED <<virt, phys>>
         ELSE /\ virt' = [virt EXCEPT ![i.def] = Term(virt, i)]
              /\ phys' = [phys EXCEPT ![PlaceNow(i.def)] = Term(Held(i), i)]
  /\ Advance

(* The operand of an increment is assigned, so it is not loaded from its   *)
(* slot: the scratch register is incremented and stored.                   *)
Increment ==
  /\ Running({"inc"})
  /\ LET i == code[pc]
     IN  /\ virt' = [virt EXCEPT ![i.def] = Term(virt, i)]
         /\ phys' = [phys EXCEPT ![PlaceNow(i.def)] =
                       IF OnStack(i, i.def) THEN Garbage ELSE Term(Held(i), i)]
  /\ Advance

(* reserve emits nothing but counts as an assignment: a slot is stored to. *)
Reserve ==
  /\ Running({"reserve"})
  /\ LET i == code[pc]
     IN  phys' = [phys EXCEPT ![PlaceNow(i.def)] = IF OnStack(i, i.def) THEN Garbage ELSE @]
  /\ UNCHANGED virt
  /\ Advance

(* resolve is a move that does not count as an assignment: what it         *)
(* resolves is loaded from its slot, moved to, and not stored.             *)
Resolve ==
  /\ Running({"resolve"})
  /\ LET i == code[pc]
     IN  /\ virt' = [virt EXCEPT ![i.res] = Term(virt, i)]
         /\ phys' = [phys EXCEPT ![PlaceNow(i.res)] =
                       IF OnStack(i, i.res) THEN @ ELSE Term(Held(i), i)]
  /\ Advance

(* Labels and slots are settled when the code is generated.                *)
Skip ==
  /\ Running({"label", "stack_allocate", "stack_free"})
  /\ UNCHANGED <<virt, phys>>
  /\ Advance

Jump ==
  /\ Running({"jump", "branch"})
  /\ \E n \in DOMAIN code[pc].to :
       /\ pc' = LabelAddr(code, code[pc].to[n])
       /\ turns' = IF pc' < pc THEN turns + 1 ELSE turns
  /\ turns' <= MaxTurns
  /\ UNCHANGED <<virt, phys, scanVars, code, pass, m_gpLf, m_fpLf, stale, tied>>

Next == ScanStep \/ FinishGp \/ FinishFp \/ Compute \/ Increment \/ Reserve \/ Resolve \/ Skip \/ Jump

Spec == Init /\ [][Next]_vars


-----------------------------------------------------------------------------
Instr == [op : {"op", "inc", "reserve", "resolve", "label", "branch", "jump",
                "stack_allocate", "stack_free"},
          def : Vregs \cup {0}, uses : SUBSET Vregs, res : Vregs \cup {0},
          to : Seq(Nat), slot : Nat, at : [Vregs -> Locs]]

Lifetime == [reg_id : Vregs, begin : Nat, end : Nat]

TypeOK ==
  /\ LinScan!TypeOK
  /\ code \in Seq(Instr)
  /\ pass \in {"gp", "fp", "run"}
  /\ m_gpLf \in Seq(Lifetime) /\ m_fpLf \in Seq(Lifetime)
  /\ stale \in BOOLEAN /\ tied \in BOOLEAN
  /\ pc \in 1 .. Len(code) + 1
  /\ turns \in 0 .. MaxTurns
  /\ DOMAIN virt = Vregs /\ DOMAIN phys = Locs

(* Slot id is held where instruction a is generated.                       *)
SlotOpen(c, a, id) ==
  \E b \in 1 .. a - 1 :
    /\ c[b].op = "stack_allocate" /\ c[b].slot = id
    /\ \A m \in b .. a - 1 : ~(c[m].op = "stack_free" /\ c[m].slot = id)

Operands(i) == i.uses \cup Assigned(i)

(* The slot of every operand of every instruction is allocated before the  *)
(* instruction and freed after it, in the order in which code is generated:*)
(* a value that was stored in the stack can be loaded when it is needed.   *)
SlotsOpen ==
  \A a \in 1 .. Len(code) : \A v \in Operands(code[a]) :
    OnStack(code[a], v) => SlotOpen(code, a, code[a].at[v][2])

(* So it is when no spilled lifetime ends where one begins.                *)
SlotsOpenApart == tied \/ SlotsOpen

(* The final code only uses registers the target has.                      *)
WithinRegisters ==
  pass = "run" =>
    \A a \in 1 .. Len(code) : \A v \in Operands(code[a]) :
      OnStack(code[a], v) \/ code[a].at[v][2] \in 1 .. k

(* So it is when the general purpose pass moved no code the floating point *)
(* pass has lifetimes for.                                                 *)
WithinRegistersUnmoved == stale \/ WithinRegisters

(* Lifetimes against the live ranges they stand for: a register is live    *)
(* where there is a way to a read of it with no write before.              *)
Successors(c, a) ==
  IF c[a].op \in {"jump", "branch"} THEN {Targets(c, a)[n] : n \in DOMAIN c[a].to}
  ELSE {a + 1} \cap 1 .. Len(c)

LiveBefore(c) ==
  LET liveAt[n \in 0 .. Len(c)] ==
        IF n = 0 THEN {}
        ELSE {<<v, a>> \in Vregs \X (1 .. Len(c)) :
                \/ v \in Reads(c[a])
                \/ v \notin Assigned(c[a]) /\ \E b \in Successors(c, a) : <<v, b>> \in liveAt[n - 1]}
  IN  liveAt[Len(c)]

Covered(v, first, last) ==
  \E r \in ToSet(m_gpLf) \cup ToSet(m_fpLf) : r.reg_id = v /\ r.begin < first /\ last <= r.end

(* A register that was assigned before gets a new value behind a branch    *)
(* that may skip it.                                                       *)
MayBeSkipped(c) ==
  \E a \in 1 .. Len(c) :
    /\ \E b \in 1 .. a - 1 : c[a].def # 0 /\ c[b].def = c[a].def
    /\ ~involves(c[a], c[a].def, TRUE)
    /\ \E b \in 1 .. a - 1 : c[b].op = "branch" /\ \E t \in Successors(c, b) : t > a

(* Wherever a register is live, one of its lifetimes is under way, in      *)
(* loops and conditional expressions too.  calcLifetimes reads the code    *)
(* from top to bottom and does not see assignments that may be skipped.    *)
LifetimesCoverLive ==
  pass = "gp" => MayBeSkipped(code) \/ \A p \in LiveBefore(code) : Covered(p[1], p[2], p[2])

(* What a store, a parameter or a branch reads is what the IR says it      *)
(* reads, whatever was spilled and whichever way the branches went.  (On   *)
(* its true side a conditional expression has no value: see ScopeExit.)    *)
ReadsAgree ==
  pass = "run" /\ pc <= Len(code) /\ Assigned(code[pc]) = {} =>
    \A v \in code[pc].uses : virt[v] \in {Undefined, phys[PlaceNow(v)]}

(* So it is but for the exceptions the other properties name, operands     *)
(* that are accessed at sp + 0 after their slot was freed, and spilled     *)
(* registers that are incremented (the slot is not loaded before) or       *)
(* resolved (it is not stored to after).                                   *)
FreedTooEarly == tied /\ ~SlotsOpen

UpdatesSlot ==
  \E a \in 1 .. Len(code) :
    code[a].op \in {"inc", "resolve"} /\ \E v \in Assigned(code[a]) : OnStack(code[a], v)

ReadsAgreeApart ==
  stale \/ FreedTooEarly \/ MayBeSkipped(code) \/ UpdatesSlot \/ ReadsAgree
=============================================================================
