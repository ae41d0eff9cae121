----------------------------- MODULE LinearScan -----------------------------
(***************************************************************************)
(* The scan at the heart of RegisterAllocatonStep::allocateRegisters:      *)
(* lifetimes of virtual registers are visited in the order of their        *)
(* begin addresses and get one of k registers, or a stack slot when all k  *)
(* are held.  One step is one turn of the loop over the lifetimes.         *)
(*                                                                         *)
(* free_regs is the std::vector used as a stack (its back is the end of    *)
(* the sequence), active the vector of lifetimes that hold a register,     *)
(* sorted by end.  std::sort leaves the order of equal ends open.          *)
(***************************************************************************)
EXTENDS Integers, Sequences, FiniteSets, SequencesExt

CONSTANTS
  LiveRanges,   (* the sequences of lifetimes a run may start from         *)
  RegCounts     (* the numbers of registers a run may be given             *)

NoReg == 0      (* new_id and stack_loc before they are set, u32(-1)       *)
NoLoc == 0

Range_ == [begin : Nat, end : Nat]

(* calcLifetimes makes at most one lifetime per assigning instruction, so  *)
(* sorting by begin leaves no ties.                                        *)
SortedByBegin(s) ==
  /\ \A i \in 1 .. Len(s) : s[i].begin <= s[i].end
  /\ \A i, j \in 1 .. Len(s) : i < j => s[i].begin < s[j].begin

ASSUME LiveRangesAssumption ==
  \A s \in LiveRanges : s \in Seq(Range_) /\ SortedByBegin(s)

(* With no registers active.back() would be called on an empty vector.     *)
ASSUME RegCountsAssumption == RegCounts \subseteq Nat \ {0}

VARIABLES
  live,         (* the lifetimes, sorted by begin                          *)
  k,            (* the number of registers                                 *)
  l,            (* the index of the lifetime visited next                  *)
  new_id,       (* the register of each lifetime                           *)
  stack_loc,    (* the stack slot of each lifetime, if it was spilled      *)
  free_regs,
  active,
  nextStackId

scanVars == <<live, k, l, new_id, stack_loc, free_regs, active, nextStackId>>

Visited == 1 .. l - 1

TypeOK ==
  /\ live \in Seq(Range_)
  /\ k \in Nat \ {0}
  /\ l \in 1 .. Len(live) + 1
  /\ new_id \in [1 .. Len(live) -> Nat]
  /\ stack_loc \in [1 .. Len(live) -> Nat]
  /\ free_regs \in Seq(1 .. k)
  /\ active \in Seq(Visited)
  /\ nextStackId \in Nat \ {0}

(* The state the scan of the lifetimes s starts from.                      *)
StartScan(s, count, stackId) ==
  /\ live = s
  /\ k = count
  /\ l = 1
  /\ new_id = [i \in 1 .. Len(s) |-> NoReg]
  /\ stack_loc = [i \in 1 .. Len(s) |-> NoLoc]
  /\ free_regs = [r \in 1 .. count |-> count + 1 - r]
  /\ active = <<>>
  /\ nextStackId = stackId

(* Mutant of Expire: a lifetime is over where the next begins.             *)
ExpireEarly(n) ==
  /\ n \in 0 .. Len(active)
  /\ \A i \in 1 .. n : live[active[i]].end <= live[l].begin
  /\ n < Len(active) => live[active[n + 1]].end > live[l].begin

(* The first n active lifetimes are over when lifetime l begins; the loop  *)
(* stops at the first that is not.                                         *)
Expire(n) ==
  /\ n \in 0 .. Len(active)
  /\ \A i \in 1 .. n : live[active[i]].end < live[l].begin
  /\ n < Len(active) => live[active[n + 1]].end >= live[l].begin

Remaining(n) == SubSeq(active, n + 1, Len(active))

(* Mutant of Freed: the registers of expired lifetimes are returned twice. *)
FreedTwice(n) ==
  LET regs == [i \in 1 .. n |-> new_id[active[i]]] IN free_regs \o regs \o regs

Freed(n) == free_regs \o [i \in 1 .. n |-> new_id[active[i]]]

(* push_back of lifetime l followed by the sort.                           *)
Activate(act) ==
  \E p \in 1 .. Len(act) + 1 :
    /\ \A i \in 1 .. p - 1 : live[act[i]].end <= live[l].end
    /\ \A i \in p .. Len(act) : live[l].end <= live[act[i]].end
    /\ active' = InsertAt(act, p, l)

AssignRegister ==
  /\ l <= Len(live)
  /\ \E n \in 0 .. Len(active) :
       /\ Expire(n)
       /\ Len(Remaining(n)) # k
       /\ new_id' = [new_id EXCEPT ![l] = Last(Freed(n))]
       /\ free_regs' = Front(Freed(n))
       /\ Activate(Remaining(n))
  /\ l' = l + 1
  /\ UNCHANGED <<live, k, stack_loc, nextStackId>>

(* Mutant of SpillActive: the first of the active lifetimes is spilled.    *)
SpillFirstActive ==
  /\ l <= Len(live)
  /\ \E n \in 0 .. Len(active) :
       /\ Expire(n)
       /\ Len(Remaining(n)) = k
       /\ LET spill == Head(Remaining(n))
          IN  /\ live[spill].end > live[l].end
              /\ new_id' = [new_id EXCEPT ![l] = new_id[spill]]
              /\ stack_loc' = [stack_loc EXCEPT ![spill] = nextStackId]
              /\ Activate(Tail(Remaining(n)))
       /\ free_regs' = Freed(n)
  /\ nextStackId' = nextStackId + 1
  /\ l' = l + 1
  /\ UNCHANGED <<live, k>>

(* The active lifetime that ends last gives its register to lifetime l.    *)
SpillActive ==
  /\ l <= Len(live)
  /\ \E n \in 0 .. Len(active) :
       /\ Expire(n)
       /\ Len(Remaining(n)) = k
       /\ LET spill == Last(Remaining(n))
          IN  /\ live[spill].end > live[l].end
              /\ new_id' = [new_id EXCEPT ![l] = new_id[spill]]
              /\ stack_loc' = [stack_loc EXCEPT ![spill] = nextStackId]
              /\ Activate(Front(Remaining(n)))
       /\ free_regs' = Freed(n)
  /\ nextStackId' = nextStackId + 1
  /\ l' = l + 1
  /\ UNCHANGED <<live, k>>

SpillCurrent ==
  /\ l <= Len(live)
  /\ \E n \in 0 .. Len(active) :
       /\ Expire(n)
       /\ Len(Remaining(n)) = k
       /\ live[Last(Remaining(n))].end <= live[l].end
       /\ active' = Remaining(n)
       /\ free_regs' = Freed(n)
  /\ stack_loc' = [stack_loc EXCEPT ![l] = nextStackId]
  /\ nextStackId' = nextStackId + 1
  /\ l' = l + 1
  /\ UNCHANGED <<live, k, new_id>>

Scan == AssignRegister \/ SpillActive \/ SpillCurrent

Init ==
  \E s \in LiveRanges, count \in RegCounts : StartScan(s, count, 1)

Spec == Init /\ [][Scan]_scanVars

-----------------------------------------------------------------------------
isConcurrent(i, j) ==
  \/ live[j].begin <= live[i].begin /\ live[i].begin <= live[j].end
  \/ live[i].begin <= live[j].begin /\ live[j].begin <= live[i].end

InRegister(i) == stack_loc[i] = NoLoc

(* Two lifetimes that are live at the same instruction and were both left  *)
(* in registers are in different ones, and in registers the target has:    *)
(* what is written to one is never lost through the other.                 *)
ConcurrentApart ==
  \A i, j \in Visited :
    InRegister(i) =>
      /\ new_id[i] \in 1 .. k
      /\ i # j /\ InRegister(j) /\ isConcurrent(i, j) => new_id[i] # new_id[j]

(* No register is lost or handed out twice: each is in free_regs or held   *)
(* by an active lifetime, and never in two places.                         *)
RegistersConserved ==
  /\ Len(free_regs) + Len(active) = k
  /\ ToSet(free_regs) \cup {new_id[active[i]] : i \in DOMAIN active} = 1 .. k

(* Of the lifetimes that compete for registers, the one that is spilled is *)
(* one that ends last.                                                     *)
SpillsTheLongest ==
  [][\A i \in DOMAIN stack_loc : stack_loc'[i] # stack_loc[i] =>
       \A j \in DOMAIN active' : live[active'[j]].end <= live[i].end]_scanVars
=============================================================================
