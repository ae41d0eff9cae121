---------------------------- MODULE MCLinearScan ----------------------------
(***************************************************************************)
(* All sets of up to four lifetimes over five instructions, for one to     *)
(* three registers.                                                        *)
(***************************************************************************)
EXTENDS LinearScan

Code == 0 .. 4
Spans == {r \in [begin : Code, end : Code] : r.begin <= r.end}

MCLiveRanges ==
  UNION {{s \in [1 .. n -> Spans] : SortedByBegin(s)} : n \in 0 .. 4}

MCRegCounts == 1 .. 3
=============================================================================
