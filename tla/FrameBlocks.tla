---------------------------- MODULE FrameBlocks ----------------------------
(***************************************************************************)
(* What the code generator needs from a stack frame: every allocation id   *)
(* it holds names a block of the frame, and no two blocks it holds at the  *)
(* same time share a byte.  Where a block goes is left open.               *)
(* StackManager is shown to implement this specification.                  *)
(***************************************************************************)
EXTENDS Integers

CONSTANTS
  AllocIds,     (* the alloc_id operands of the IR of one function         *)
  SizeOf,       (* the immediate size of the ir_stack_allocate of each id  *)
  NoAddr        (* "this id is not in stack_addrs"                         *)

VARIABLE blocks (* the address held for each id                            *)

Bytes(b, id) == b[id] .. (b[id] + SizeOf[id] - 1)

Held(b) == {id \in AllocIds : b[id] # NoAddr}

Init == blocks = [id \in AllocIds |-> NoAddr]

Reserve(id) ==
  /\ blocks[id] = NoAddr
  /\ blocks'[id] \in Nat
  /\ blocks' = [blocks EXCEPT ![id] = blocks'[id]]
  /\ \A other \in Held(blocks) : Bytes(blocks', id) \cap Bytes(blocks, other) = {}

Release(id) ==
  /\ blocks[id] # NoAddr
  /\ blocks' = [blocks EXCEPT ![id] = NoAddr]

Next == \E id \in AllocIds : Reserve(id) \/ Release(id)

Spec == Init /\ [][Next]_blocks
=============================================================================
