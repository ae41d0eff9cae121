---------------------------- MODULE StackManager ----------------------------
(***************************************************************************)
(* backend::StackManager, the allocator of stack frame offsets, together   *)
(* with the table stack_addrs through which Backend::generate calls it     *)
(* while it emits one function (ir_stack_allocate and ir_stack_free).      *)
(*                                                                         *)
(* m_slots is a std::list<slot> in address order.  alloc is first fit: it  *)
(* splits a larger free slot, takes an equal one, or appends.  free finds  *)
(* the first slot that starts at the address, and coalesces.               *)
(***************************************************************************)
EXTENDS Integers, Sequences, SequencesExt

CONSTANTS AllocIds, SizeOf, NoAddr

ASSUME SizesAssumption == SizeOf \in [AllocIds -> Nat]
ASSUME NoAddrAssumption == NoAddr \notin Nat

VARIABLES
  m_slots,      (* the list of slots                                       *)
  stack_addrs,  (* the address Backend::generate holds for each alloc_id   *)
  asserted      (* TRUE once free has run into its assert(false)           *)

vars == <<m_slots, stack_addrs, asserted>>

slot == [start : Nat, end : Nat, in_use : BOOLEAN]

Addr == Nat \cup {NoAddr}

TypeOK ==
  /\ m_slots \in Seq(slot)
  /\ stack_addrs \in [AllocIds -> Addr]
  /\ asserted \in BOOLEAN

(* Mutant of size: an empty frame has the size -1.                         *)
sizeNoneIsMinusOne == IF m_slots = <<>> THEN -1 ELSE m_slots[Len(m_slots)].end

(* The frame size a call of another function is emitted with.              *)
size == IF m_slots = <<>> THEN 0 ELSE m_slots[Len(m_slots)].end

-----------------------------------------------------------------------------
(* alloc                                                                   *)

(* Mutant of Fits: a slot in use fits too.                                 *)
FitsEvenInUse(i, sz) == m_slots[i].end - m_slots[i].start >= sz

Fits(i, sz) == ~m_slots[i].in_use /\ m_slots[i].end - m_slots[i].start >= sz

IsFirstFit(i, sz) == Fits(i, sz) /\ \A j \in 1 .. i - 1 : ~Fits(j, sz)

(* Mutant of Split: the free half starts one byte early.                   *)
SplitOneEarly(i, sz) ==
  LET s == m_slots[i]
      mid == s.start + sz
  IN  InsertAt([m_slots EXCEPT ![i] = [start |-> s.start, end |-> mid, in_use |-> TRUE]],
               i + 1, [start |-> mid - 1, end |-> s.end, in_use |-> FALSE])

Split(i, sz) ==
  LET s == m_slots[i]
      mid == s.start + sz
  IN  InsertAt([m_slots EXCEPT ![i] = [start |-> s.start, end |-> mid, in_use |-> TRUE]],
               i + 1, [start |-> mid, end |-> s.end, in_use |-> FALSE])

AllocInSlot(i, sz) ==
  m_slots' = IF m_slots[i].end - m_slots[i].start > sz
             THEN Split(i, sz)
             ELSE [m_slots EXCEPT ![i].in_use = TRUE]

AllocAtEnd(sz) ==
  m_slots' = Append(m_slots, [start |-> size, end |-> size + sz, in_use |-> TRUE])

(* ir_stack_allocate: each instruction has an id of its own, so the id is  *)
(* not in the table when it is generated.                                  *)
StackAllocate(id) ==
  /\ stack_addrs[id] = NoAddr
  /\ \/ \E i \in 1 .. Len(m_slots) :
          /\ IsFirstFit(i, SizeOf[id])
          /\ AllocInSlot(i, SizeOf[id])
          /\ stack_addrs' = [stack_addrs EXCEPT ![id] = m_slots[i].start]
     \/ /\ \A i \in 1 .. Len(m_slots) : ~Fits(i, SizeOf[id])
        /\ AllocAtEnd(SizeOf[id])
        /\ stack_addrs' = [stack_addrs EXCEPT ![id] = size]
  /\ UNCHANGED asserted

-----------------------------------------------------------------------------
(* free                                                                    *)

IsFirstAt(i, addr) ==
  /\ m_slots[i].start = addr
  /\ \A j \in 1 .. i - 1 : m_slots[j].start # addr

(* Mutant of FreeAt: a slot in use is taken for a free one.                *)
AnyAt(s, i) == i \in 1 .. Len(s)

FreeAt(s, i) == i \in 1 .. Len(s) /\ ~s[i].in_use

(* Mutant of DropLast: a free slot before the last one stays.              *)
DropLastOnly(i) == SubSeq(m_slots, 1, i - 1)

(* The freed slot is the last one: it goes, and a free slot before it.     *)
DropLast(i) ==
  SubSeq(m_slots, 1, IF FreeAt(m_slots, i - 1) THEN i - 2 ELSE i - 1)

(* Slot i takes slot i + 1 over.                                           *)
Merge(s, i) == RemoveAt([s EXCEPT ![i].end = s[i + 1].end], i + 1)

(* Mutant of JoinNext: no coalescing with the slot above.                  *)
JoinNothing(s, i) == s

JoinNext(s, i) == IF FreeAt(s, i + 1) THEN Merge(s, i) ELSE s

JoinPrev(s, i) == IF FreeAt(s, i - 1) THEN Merge(s, i - 1) ELSE s

FreeSlot(i) ==
  IF i = Len(m_slots)
  THEN DropLast(i)
  ELSE JoinPrev(JoinNext([m_slots EXCEPT ![i].in_use = FALSE], i), i)

(* ir_stack_free: the id is looked up, its address freed, the id erased.   *)
StackFree(id) ==
  /\ stack_addrs[id] # NoAddr
  /\ stack_addrs' = [stack_addrs EXCEPT ![id] = NoAddr]
  /\ \/ \E i \in 1 .. Len(m_slots) :
          /\ IsFirstAt(i, stack_addrs[id])
          /\ m_slots' = FreeSlot(i)
          /\ UNCHANGED asserted
     \/ /\ \A i \in 1 .. Len(m_slots) : m_slots[i].start # stack_addrs[id]
        /\ asserted' = TRUE
        /\ UNCHANGED m_slots

-----------------------------------------------------------------------------
Init ==
  /\ m_slots = <<>>
  /\ stack_addrs = [id \in AllocIds |-> NoAddr]
  /\ asserted = FALSE

Next == \E id \in AllocIds : StackAllocate(id) \/ StackFree(id)

Spec == Init /\ [][Next]_vars

-----------------------------------------------------------------------------
Held == {id \in AllocIds : stack_addrs[id] # NoAddr}

BlockEnd(id) == stack_addrs[id] + SizeOf[id]

(* Two blocks the generator holds never share a byte, and every one of     *)
(* them lies below size(), the offset from which a callee's frame starts.  *)
(* This is what alloc's splitting and free's coalescing must not break.    *)
BlocksDisjoint ==
  /\ \A a, b \in Held : a # b => BlockEnd(a) <= stack_addrs[b] \/ BlockEnd(b) <= stack_addrs[a]
                                 \/ SizeOf[a] = 0 \/ SizeOf[b] = 0
  /\ \A a \in Held : BlockEnd(a) <= size

(* The assert(false) at the end of free is not reached: every address the  *)
(* generator still holds starts a slot.                                    *)
FreeFindsSlot == ~asserted

(* The frame never keeps space nobody holds at its top: the last slot is   *)
(* always a held block, so a frame whose blocks have all been freed is     *)
(* empty again and calls are emitted with the smallest offset.             *)
FrameShrinks ==
  m_slots # <<>> => \E id \in Held : BlockEnd(id) = size

(* Free space between held blocks is always usable: a block goes to the    *)
(* top of the frame only when no run of unheld bytes below it is large     *)
(* enough, which is so only because free coalesces with both neighbours.   *)
GapAt(a, sz) ==
  \A id \in Held : a + sz <= stack_addrs[id] \/ BlockEnd(id) <= a

GrowsOnlyWhenFull ==
  [][\A id \in AllocIds :
       stack_addrs[id] = NoAddr /\ stack_addrs'[id] = size
         => \A a \in 0 .. size - SizeOf[id] : ~GapAt(a, SizeOf[id])]_vars

(* StackManager gives the generator the blocks FrameBlocks promises.       *)
Blocks == INSTANCE FrameBlocks WITH blocks <- stack_addrs
BlocksSpec == Blocks!Spec
=============================================================================
