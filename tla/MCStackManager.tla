--------------------------- MODULE MCStackManager ---------------------------
(***************************************************************************)
(* StackManager for TLC: five allocation ids of the sizes 1, 1, 2, 2, 3    *)
(* (in units of a slot) make every split, exact fit, append and all four   *)
(* coalescing cases happen.                                                *)
(***************************************************************************)
EXTENDS StackManager

MCIds == 1 .. 5
MCSizes == <<1, 1, 2, 2, 3>>
=============================================================================
