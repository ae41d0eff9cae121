----------------------------- MODULE Lifetimes -----------------------------
(***************************************************************************)
(* The lifetimes of the virtual registers of a function.  The code has the *)
(* algorithm twice: calcLifetimes, for the register allocation, and        *)
(* LivenessData::rebuild, for the optimizations, which also counts uses;   *)
(* a lifetime is extended only by a use, so the count is 0 if and only if  *)
(* it ends where it begins.                                                *)
(*                                                                         *)
(* An instruction is a record with the fields op, def, the register it     *)
(* assigns (0 for none), uses, those its other operands name, res, the one *)
(* a resolve resolves, and to, the labels it names.                        *)
(***************************************************************************)
EXTENDS Integers, Sequences, SequencesExt

MaxOf(S) == CHOOSE x \in S : \A y \in S : y <= x
MinOf(S) == CHOOSE x \in S : \A y \in S : x <= y

-----------------------------------------------------------------------------
(* Instructions                                                            *)

(* Instruction::involves.  For an instruction with one operand, assigned,  *)
(* the operand counts as read.                                             *)
involves(i, v, excludeAssignment) ==
  \/ v \in i.uses
  \/ i.def = v /\ (i.op \in {"inc", "reserve"} \/ ~excludeAssignment)

Reads(i) == IF i.op = "inc" THEN {i.def} ELSE i.uses \ {i.res}

Assigned(i) == {i.def, i.res} \ {0}

LabelAddr(c, id) == CHOOSE a \in 1 .. Len(c) : c[a].op = "label" /\ c[a].to = <<id>>

Targets(c, a) == [n \in DOMAIN c[a].to |-> LabelAddr(c, c[a].to[n])]

-----------------------------------------------------------------------------
(* calcLifetimes, LivenessData::rebuild                                    *)

(* The lifetime of v that ends at e is extended to the last instruction    *)
(* that names v before the next one that assigns it without reading it.    *)
ExtendToUses(c, v, e) ==
  LET kills == {a \in e + 1 .. Len(c) : c[a].def = v /\ ~involves(c[a], v, TRUE)}
      stop == MinOf(kills \cup {Len(c) + 1})
  IN  MaxOf({e} \cup {a \in e + 1 .. stop - 1 : involves(c[a], v, FALSE)})

(* The labels of a jump or branch that are looked at: a forward one ends   *)
(* the search, so the second label of a branch whose first label is ahead  *)
(* is not considered.                                                      *)
BackTargets(c, a) ==
  IF c[a].op \notin {"jump", "branch"} THEN {}
  ELSE LET t == Targets(c, a)
       IN  {t[n] : n \in {n \in DOMAIN t : \A m \in 1 .. n : t[m] <= a}}

(* Mutant of ExtendToJumps: jumps are not looked at.                       *)
ExtendToNothing(c, b, e) == e

(* Each backwards jump into the lifetime, first one first, extends it to   *)
(* the jump.                                                               *)
ExtendToJumps(c, b, e) ==
  LET end[a \in e .. Len(c)] ==
        IF a = e THEN e
        ELSE LET before == end[a - 1]
             IN  IF \E j \in BackTargets(c, a) : b < j /\ j <= before THEN a ELSE before
  IN  end[Len(c)]

(* Mutant of EndOfLifetime: uses are not looked for behind the jump.       *)
EndAtUses(c, v, b) == ExtendToUses(c, v, b)

(* An extension may bring more uses, and they more jumps.                  *)
EndOfLifetime(c, v, b) ==
  LET end[e \in b .. Len(c)] ==
        LET used == ExtendToUses(c, v, e)
            jumped == ExtendToJumps(c, b, used)
        IN  IF jumped = used THEN used ELSE end[jumped]
  IN  end[b]

(* An assignment starts a lifetime unless it lies in an established one.   *)
Lifetimes(c) ==
  FoldLeft(LAMBDA lf, a :
             IF \/ c[a].def = 0
                \/ \E r \in DOMAIN lf : lf[r].reg_id = c[a].def /\ lf[r].begin <= a /\ a < lf[r].end
             THEN lf
             ELSE Append(lf, [reg_id |-> c[a].def, begin |-> a,
                              end |-> EndOfLifetime(c, c[a].def, a)]),
           <<>>, [n \in 1 .. Len(c) |-> n])
=============================================================================
