-------------------------- MODULE LinearScan_proofs --------------------------
(***************************************************************************)
(* Proofs about the linear scan, for lifetimes and register counts of any  *)
(* size.                                                                   *)
(*                                                                         *)
(* ConcurrentApart compares lifetimes that were visited at any time; the   *)
(* scan looks at the active ones alone.  The inductive invariant says why  *)
(* that is enough: a visited lifetime that kept its register and is not    *)
(* active any more was over when the last one visited began, and lifetimes *)
(* are visited in the order in which they begin.                           *)
(***************************************************************************)
EXTENDS LinearScan, SequenceLemmas

(* The lifetimes act hold distinct registers, fr lists the others.         *)
Holding(act, fr) ==
  /\ \A p \in 1 .. Len(act) : InRegister(act[p]) /\ new_id[act[p]] \in 1 .. k
  /\ \A p, q \in 1 .. Len(act) : p # q => new_id[act[p]] # new_id[act[q]]
  /\ \A p \in 1 .. Len(act), q \in 1 .. Len(fr) : new_id[act[p]] # fr[q]
  /\ \A p, q \in 1 .. Len(fr) : p # q => fr[p] # fr[q]

Covering(act, fr) ==
  \A r \in 1 .. k :
    \/ \E p \in 1 .. Len(act) : new_id[act[p]] = r
    \/ \E q \in 1 .. Len(fr) : fr[q] = r

SortedByEnd(act) ==
  \A p, q \in 1 .. Len(act) : p < q => live[act[p]].end <= live[act[q]].end

(* Those that kept a register and are not in act end before the address b. *)
OthersOver(act, b) ==
  \A i \in Visited : InRegister(i) =>
    \/ \E p \in 1 .. Len(act) : act[p] = i
    \/ live[i].end < b

Typed(act, fr) ==
  /\ act \in Seq(Visited)
  /\ fr \in Seq(1 .. k)
  /\ Len(fr) + Len(act) = k

IInv ==
  /\ TypeOK
  /\ SortedByBegin(live)
  /\ Typed(active, free_regs)
  /\ Holding(active, free_regs)
  /\ Covering(active, free_regs)
  /\ SortedByEnd(active)
  /\ l > 1 => OthersOver(active, live[l - 1].begin)
  /\ \A i \in l .. Len(live) : InRegister(i)
  /\ ConcurrentApart

-----------------------------------------------------------------------------
(* What expiring does                                                      *)

(* The facts about types that the steps below use.                         *)
LEMMA ScanFacts ==
  ASSUME TypeOK
  PROVE  /\ Len(live) \in Nat /\ Len(active) \in Nat /\ Len(free_regs) \in Nat
         /\ k \in Nat /\ k > 0 /\ l \in Nat /\ l >= 1 /\ l <= Len(live) + 1
         /\ \A i \in 1 .. Len(live) : live[i].begin \in Nat /\ live[i].end \in Nat
         /\ \A p \in 1 .. Len(active) : active[p] \in 1 .. l - 1
         /\ Visited \subseteq 1 .. Len(live)
<1>1. Len(live) \in Nat /\ Len(active) \in Nat /\ Len(free_regs) \in Nat
  BY LenProperties DEF TypeOK
<1>2. k \in Nat /\ k > 0 /\ l \in Nat /\ l >= 1 /\ l <= Len(live) + 1
  BY <1>1 DEF TypeOK
<1>3. \A i \in 1 .. Len(live) : live[i] \in Range_
  BY ElementOfSeq DEF TypeOK
<1>4. \A p \in 1 .. Len(active) : active[p] \in 1 .. l - 1
  BY ElementOfSeq DEF TypeOK, Visited
<1>5. Visited \subseteq 1 .. Len(live)
  BY <1>1, <1>2 DEF Visited
<1> QED BY <1>1, <1>2, <1>3, <1>4, <1>5 DEF Range_

LEMMA FreedProps ==
  ASSUME TypeOK, Typed(active, free_regs), Holding(active, free_regs),
         NEW n \in 0 .. Len(active)
  PROVE  /\ Freed(n) \in Seq(1 .. k)
         /\ Len(Freed(n)) = Len(free_regs) + n
         /\ \A q \in 1 .. Len(free_regs) : Freed(n)[q] = free_regs[q]
         /\ \A q \in 1 .. n : Freed(n)[Len(free_regs) + q] = new_id[active[q]]
<1> DEFINE t == [i \in 1 .. n |-> new_id[active[i]]]
<1>0. /\ Len(free_regs) \in Nat /\ Len(active) \in Nat /\ n \in Nat
      /\ \A i \in 1 .. n : new_id[active[i]] \in 1 .. k
  BY ScanFacts DEF Holding
<1>1. t \in Seq(1 .. k) /\ Len(t) = n /\ \A q \in 1 .. n : t[q] = new_id[active[q]]
  BY <1>0
<1> HIDE DEF t
<1>2. free_regs \in Seq(1 .. k)
  BY DEF Typed
<1>3. /\ free_regs \o t \in Seq(1 .. k)
      /\ Len(free_regs \o t) = Len(free_regs) + n
      /\ \A q \in 1 .. Len(free_regs) + n :
           (free_regs \o t)[q] = IF q <= Len(free_regs) THEN free_regs[q] ELSE t[q - Len(free_regs)]
  BY <1>1, <1>2, ConcatProperties
<1>4. Freed(n) = free_regs \o t
  BY DEF Freed, t
<1>5. \A q \in 1 .. Len(free_regs) : (free_regs \o t)[q] = free_regs[q]
  BY <1>0, <1>3
<1>6. ASSUME NEW q \in 1 .. n
      PROVE  (free_regs \o t)[Len(free_regs) + q] = new_id[active[q]]
  <2>1. /\ Len(free_regs) + q \in 1 .. Len(free_regs) + n
        /\ ~(Len(free_regs) + q <= Len(free_regs))
        /\ Len(free_regs) + q - Len(free_regs) = q
    BY <1>0
  <2> QED BY <2>1, <1>3, <1>1
<1> QED BY <1>3, <1>4, <1>5, <1>6

LEMMA RemainingProps ==
  ASSUME TypeOK, NEW n \in 0 .. Len(active)
  PROVE  /\ Remaining(n) \in Seq(Visited)
         /\ Len(Remaining(n)) = Len(active) - n
         /\ \A p \in 1 .. Len(active) - n : Remaining(n)[p] = active[n + p]
<1>0. active \in Seq(Visited) /\ Len(active) \in Nat /\ n \in Nat
  BY ScanFacts DEF TypeOK
<1>1. n + 1 \in 1 .. Len(active) + 1 /\ Len(active) \in 0 .. Len(active) /\ n + 1 <= Len(active) + 1
  BY <1>0
<1>2. /\ SubSeq(active, n + 1, Len(active)) \in Seq(Visited)
      /\ Len(SubSeq(active, n + 1, Len(active))) = Len(active) - (n + 1) + 1
      /\ \A j \in 1 .. Len(active) - (n + 1) + 1 :
           SubSeq(active, n + 1, Len(active))[j] = active[(n + 1) + j - 1]
  BY <1>0, <1>1, SubSeqProps
<1>3. Len(active) - (n + 1) + 1 = Len(active) - n
  BY <1>0
<1>4. \A p \in 1 .. Len(active) - n : (n + 1) + p - 1 = n + p
  BY <1>0
<1> QED BY <1>2, <1>3, <1>4 DEF Remaining

(* After expiring, the remaining lifetimes and the freed registers relate  *)
(* as active and free_regs did, and what is neither active nor spilled     *)
(* ends before the visited lifetime begins.                                *)
LEMMA ExpireProps ==
  ASSUME IInv, l <= Len(live), NEW n \in 0 .. Len(active), Expire(n)
  PROVE  /\ Typed(Remaining(n), Freed(n))
         /\ Holding(Remaining(n), Freed(n))
         /\ Covering(Remaining(n), Freed(n))
         /\ SortedByEnd(Remaining(n))
         /\ OthersOver(Remaining(n), live[l].begin)
<1> DEFINE R == Remaining(n)
           F == Freed(n)
           m == Len(free_regs)
<1>0. /\ m \in Nat /\ Len(active) \in Nat /\ n \in Nat /\ n <= Len(active) /\ k \in Nat
      /\ l \in Nat /\ l >= 1 /\ Visited \subseteq 1 .. Len(live)
      /\ \A i \in 1 .. Len(live) : live[i].begin \in Nat /\ live[i].end \in Nat
  BY ScanFacts DEF IInv
<1>1. /\ R \in Seq(Visited)
      /\ Len(R) = Len(active) - n
      /\ \A p \in 1 .. Len(active) - n : R[p] = active[n + p]
  BY RemainingProps DEF IInv
<1>2. /\ F \in Seq(1 .. k)
      /\ Len(F) = m + n
      /\ \A q \in 1 .. m : F[q] = free_regs[q]
      /\ \A q \in 1 .. n : F[m + q] = new_id[active[q]]
  BY FreedProps DEF IInv
<1>3. Typed(active, free_regs) /\ Holding(active, free_regs) /\ Covering(active, free_regs)
  BY DEF IInv
<1> HIDE DEF R, F, m
<1>4. ASSUME NEW q \in 1 .. Len(F)
      PROVE  \/ q \in 1 .. m /\ F[q] = free_regs[q]
             \/ q - m \in 1 .. n /\ q > m /\ F[q] = new_id[active[q - m]]
  <2>1. CASE q <= m
    BY <2>1, <1>0, <1>2
  <2>2. CASE q > m
    <3>1. q - m \in 1 .. n /\ m + (q - m) = q
      BY <2>2, <1>0, <1>2
    <3> QED BY <3>1, <2>2, <1>2
  <2>3. q <= m \/ q > m
    BY <1>0
  <2> QED BY <2>1, <2>2, <2>3
<1>5. \A p \in 1 .. Len(R) : n + p \in 1 .. Len(active) /\ n + p > n /\ R[p] = active[n + p]
  BY <1>0, <1>1
<1>6. \A q \in 1 .. n : q \in 1 .. Len(active)
  BY <1>0
<1>7. Typed(R, F)
  BY <1>0, <1>1, <1>2, <1>3 DEF Typed, m
<1>8. Holding(R, F)
  <2>1. \A p \in 1 .. Len(R) : InRegister(R[p]) /\ new_id[R[p]] \in 1 .. k
    BY <1>3, <1>5 DEF Holding
  <2>2. ASSUME NEW p \in 1 .. Len(R), NEW q \in 1 .. Len(R), p # q
        PROVE  new_id[R[p]] # new_id[R[q]]
    <3>1. n + p # n + q
      BY <2>2, <1>0, <1>1
    <3>2. new_id[active[n + p]] # new_id[active[n + q]]
      BY <3>1, <1>3, <1>5 DEF Holding
    <3> QED BY <3>2, <1>5
  <2>3. ASSUME NEW p \in 1 .. Len(R), NEW q \in 1 .. Len(F)
        PROVE  new_id[R[p]] # F[q]
    <3>1. CASE q \in 1 .. m /\ F[q] = free_regs[q]
      <4>1. new_id[active[n + p]] # free_regs[q]
        BY <3>1, <1>3, <1>5 DEF Holding, m
      <4> QED BY <4>1, <3>1, <1>5
    <3>2. CASE q - m \in 1 .. n /\ q > m /\ F[q] = new_id[active[q - m]]
      <4>1. n + p # q - m
        BY <3>2, <1>0, <1>5
      <4>2. new_id[active[n + p]] # new_id[active[q - m]]
        BY <4>1, <3>2, <1>3, <1>5, <1>6 DEF Holding
      <4> QED BY <4>2, <3>2, <1>5
    <3> QED BY <3>1, <3>2, <1>4
  <2>4. ASSUME NEW p \in 1 .. Len(F), NEW q \in 1 .. Len(F), p # q
        PROVE  F[p] # F[q]
    <3>1. CASE p \in 1 .. m /\ F[p] = free_regs[p]
      <4>1. CASE q \in 1 .. m /\ F[q] = free_regs[q]
        BY <4>1, <3>1, <2>4, <1>3 DEF Holding, m
      <4>2. CASE q - m \in 1 .. n /\ q > m /\ F[q] = new_id[active[q - m]]
        BY <4>2, <3>1, <1>3, <1>6 DEF Holding, m
      <4> QED BY <4>1, <4>2, <1>4
    <3>2. CASE p - m \in 1 .. n /\ p > m /\ F[p] = new_id[active[p - m]]
      <4>1. CASE q \in 1 .. m /\ F[q] = free_regs[q]
        BY <4>1, <3>2, <1>3, <1>6 DEF Holding, m
      <4>2. CASE q - m \in 1 .. n /\ q > m /\ F[q] = new_id[active[q - m]]
        <5>1. p - m # q - m
          BY <2>4, <1>0, <1>2
        <5> QED BY <5>1, <4>2, <3>2, <1>3, <1>6 DEF Holding
      <4> QED BY <4>1, <4>2, <1>4
    <3> QED BY <3>1, <3>2, <1>4
  <2> QED BY <2>1, <2>2, <2>3, <2>4 DEF Holding
<1>9. Covering(R, F)
  <2> SUFFICES ASSUME NEW r \in 1 .. k
               PROVE  \/ \E p \in 1 .. Len(R) : new_id[R[p]] = r
                      \/ \E q \in 1 .. Len(F) : F[q] = r
    BY DEF Covering
  <2>1. CASE \E q \in 1 .. m : free_regs[q] = r
    <3>1. PICK q \in 1 .. m : free_regs[q] = r
      BY <2>1
    <3>2. q \in 1 .. Len(F)
      BY <1>0, <1>2
    <3> QED BY <3>1, <3>2, <1>2
  <2>2. CASE \E p \in 1 .. Len(active) : new_id[active[p]] = r
    <3>1. PICK p \in 1 .. Len(active) : new_id[active[p]] = r
      BY <2>2
    <3>2. CASE p <= n
      <4>1. p \in 1 .. n /\ m + p \in 1 .. Len(F)
        BY <3>2, <1>0, <1>2
      <4> QED BY <4>1, <3>1, <1>2
    <3>3. CASE p > n
      <4>1. p - n \in 1 .. Len(R) /\ n + (p - n) = p
        BY <3>3, <1>0, <1>1
      <4> QED BY <4>1, <3>1, <1>5
    <3>4. p <= n \/ p > n
      BY <1>0
    <3> QED BY <3>2, <3>3, <3>4
  <2> QED BY <2>1, <2>2, <1>3 DEF Covering, m
<1>10. SortedByEnd(R)
  <2> SUFFICES ASSUME NEW p \in 1 .. Len(R), NEW q \in 1 .. Len(R), p < q
               PROVE  live[R[p]].end <= live[R[q]].end
    BY DEF SortedByEnd
  <2>1. n + p < n + q
    BY <1>0, <1>1
  <2> QED BY <2>1, <1>5 DEF IInv, SortedByEnd
<1>11. OthersOver(R, live[l].begin)
  <2> SUFFICES ASSUME NEW i \in Visited, InRegister(i)
               PROVE  \/ \E p \in 1 .. Len(R) : R[p] = i
                      \/ live[i].end < live[l].begin
    BY DEF OthersOver
  <2>1. /\ l > 1 /\ l - 1 \in 1 .. Len(live) /\ l \in 1 .. Len(live) /\ l - 1 < l
        /\ i \in 1 .. Len(live)
    BY <1>0 DEF Visited
  <2>2. live[l - 1].begin < live[l].begin
    BY <2>1 DEF IInv, SortedByBegin
  <2>3. CASE live[i].end < live[l - 1].begin
    BY <2>1, <2>2, <2>3, <1>0
  <2>4. CASE \E p \in 1 .. Len(active) : active[p] = i
    <3>1. PICK p \in 1 .. Len(active) : active[p] = i
      BY <2>4
    <3>2. CASE p <= n
      <4>1. p \in 1 .. n
        BY <3>2, <1>0
      <4> QED BY <4>1, <3>1 DEF Expire
    <3>3. CASE p > n
      <4>1. p - n \in 1 .. Len(R) /\ n + (p - n) = p
        BY <3>3, <1>0, <1>1
      <4> QED BY <4>1, <3>1, <1>5
    <3>4. p <= n \/ p > n
      BY <1>0
    <3> QED BY <3>2, <3>3, <3>4
  <2> QED BY <2>1, <2>3, <2>4 DEF IInv, OthersOver
<1> QED BY <1>7, <1>8, <1>9, <1>10, <1>11 DEF R, F

-----------------------------------------------------------------------------
(* What activating does                                                    *)

LEMMA ActivateProps ==
  ASSUME TypeOK, l <= Len(live), NEW X \in Seq(Visited), SortedByEnd(X),
         Activate(X), live' = live
  PROVE  /\ active' \in Seq(1 .. l)
         /\ Len(active') = Len(X) + 1
         /\ SortedByEnd(active')
         /\ \E p \in 1 .. Len(X) + 1 :
              /\ active'[p] = l
              /\ \A q \in 1 .. Len(X) + 1 : q < p => q \in 1 .. Len(X) /\ active'[q] = X[q]
              /\ \A q \in 1 .. Len(X) + 1 : q > p => q - 1 \in 1 .. Len(X) /\ active'[q] = X[q - 1]
<1>0. /\ Len(X) \in Nat /\ l \in Nat /\ l >= 1 /\ l \in 1 .. Len(live)
      /\ \A i \in 1 .. Len(live) : live[i].begin \in Nat /\ live[i].end \in Nat
      /\ \A j \in 1 .. Len(X) : X[j] \in 1 .. Len(live)
      /\ Visited \subseteq 1 .. l
  BY ScanFacts, LenProperties, ElementOfSeq DEF Visited
<1>1. PICK p \in 1 .. Len(X) + 1 :
        /\ \A i \in 1 .. p - 1 : live[X[i]].end <= live[l].end
        /\ \A i \in p .. Len(X) : live[l].end <= live[X[i]].end
        /\ active' = InsertAt(X, p, l)
  BY DEF Activate
<1>2. X \in Seq(1 .. l) /\ l \in 1 .. l
  BY <1>0
<1>3. /\ active' \in Seq(1 .. l)
      /\ Len(active') = Len(X) + 1
      /\ \A j \in 1 .. Len(X) + 1 :
           active'[j] = IF j < p THEN X[j] ELSE IF j = p THEN l ELSE X[j - 1]
  <2>1. /\ InsertAt(X, p, l) \in Seq(1 .. l)
        /\ Len(InsertAt(X, p, l)) = Len(X) + 1
        /\ \A j \in 1 .. Len(X) + 1 :
             InsertAt(X, p, l)[j] = IF j < p THEN X[j] ELSE IF j = p THEN l ELSE X[j - 1]
    <3> DEFINE S == 1 .. l
    <3>1. X \in Seq(S) /\ l \in S
      BY <1>2
    <3> HIDE DEF S
    <3>2. InsertAt(X, p, l) \in Seq(S)
      BY <3>1, InsertAtProps
    <3>3. /\ Len(InsertAt(X, p, l)) = Len(X) + 1
          /\ \A j \in 1 .. Len(X) + 1 :
               InsertAt(X, p, l)[j] = IF j < p THEN X[j] ELSE IF j = p THEN l ELSE X[j - 1]
      BY <3>1, InsertAtProps
    <3> QED BY <3>2, <3>3 DEF S
  <2> QED BY <2>1, <1>1
<1>4. active'[p] = l
  BY <1>0, <1>3
<1>5. \A q \in 1 .. Len(X) + 1 : q < p => q \in 1 .. Len(X) /\ active'[q] = X[q]
  BY <1>0, <1>3
<1>6. \A q \in 1 .. Len(X) + 1 : q > p => q - 1 \in 1 .. Len(X) /\ active'[q] = X[q - 1]
  BY <1>0, <1>3
<1>7. SortedByEnd(active')
  <2> SUFFICES ASSUME NEW a \in 1 .. Len(active'), NEW b \in 1 .. Len(active'), a < b
               PROVE  live[active'[a]].end <= live[active'[b]].end
    BY DEF SortedByEnd
  <2>0. a \in 1 .. Len(X) + 1 /\ b \in 1 .. Len(X) + 1
    BY <1>3
  <2>1. CASE b < p
    <3>1. active'[a] = X[a] /\ active'[b] = X[b] /\ a \in 1 .. Len(X) /\ b \in 1 .. Len(X)
      BY <2>0, <2>1, <1>0, <1>5
    <3> QED BY <3>1 DEF SortedByEnd
  <2>2. CASE b = p
    <3>1. active'[a] = X[a] /\ active'[b] = l /\ a \in 1 .. p - 1
      BY <2>0, <2>2, <1>0, <1>4, <1>5
    <3>2. live[X[a]].end <= live[l].end
      BY <3>1, <1>1
    <3> QED BY <3>1, <3>2
  <2>3. CASE a < p /\ b > p
    <3>1. /\ active'[a] = X[a] /\ active'[b] = X[b - 1]
          /\ a \in 1 .. Len(X) /\ b - 1 \in 1 .. Len(X) /\ a <= b - 1
      BY <2>0, <2>3, <1>0, <1>5, <1>6
    <3>2. CASE a = b - 1
      <4>1. active'[a] = active'[b] /\ live[X[a]].end \in Nat
        BY <3>1, <3>2, <1>0
      <4> QED BY <4>1, <3>1
    <3>3. CASE a < b - 1
      BY <3>1, <3>3 DEF SortedByEnd
    <3>4. a = b - 1 \/ a < b - 1
      BY <3>1, <1>0, <2>0
    <3> QED BY <3>2, <3>3, <3>4
  <2>4. CASE a = p
    <3>1. active'[a] = l /\ active'[b] = X[b - 1] /\ b - 1 \in p .. Len(X)
      BY <2>0, <2>4, <1>0, <1>4, <1>6
    <3> QED BY <3>1, <1>1
  <2>5. CASE a > p
    <3>1. /\ active'[a] = X[a - 1] /\ active'[b] = X[b - 1]
          /\ a - 1 \in 1 .. Len(X) /\ b - 1 \in 1 .. Len(X) /\ a - 1 < b - 1
      BY <2>0, <2>5, <1>0, <1>6
    <3> QED BY <3>1 DEF SortedByEnd
  <2>6. b < p \/ b = p \/ (a < p /\ b > p) \/ a = p \/ a > p
    BY <2>0, <1>0
  <2> QED BY <2>1, <2>2, <2>3, <2>4, <2>5, <2>6
<1> QED BY <1>3, <1>4, <1>5, <1>6, <1>7

(* r is a register that is neither in fr nor held by the lifetimes X.      *)
SpareRegister(X, fr, r) ==
  /\ Len(fr) + Len(X) + 1 = k
  /\ \A p \in 1 .. Len(X) : new_id[X[p]] # r
  /\ \A q \in 1 .. Len(fr) : fr[q] # r
  /\ \A x \in 1 .. k : \/ x = r
                       \/ \E p \in 1 .. Len(X) : new_id[X[p]] = x
                       \/ \E q \in 1 .. Len(fr) : fr[q] = x

(* The step gives r to the visited lifetime.                               *)
Places(X, fr, r) ==
  /\ Activate(X)
  /\ free_regs' = fr
  /\ new_id' = [new_id EXCEPT ![l] = r]
  /\ l' = l + 1
  /\ UNCHANGED <<live, k>>

(* The step spills visited lifetimes only, none of X among them, and what  *)
(* is not spilled is in X or over.                                         *)
SpillsOutside(X) ==
  /\ stack_loc' \in [1 .. Len(live) -> Nat]
  /\ nextStackId' \in Nat \ {0}
  /\ \A i \in 1 .. Len(live) : stack_loc'[i] = NoLoc => InRegister(i)
  /\ \A p \in 1 .. Len(X) : stack_loc'[X[p]] = NoLoc
  /\ \A i \in l .. Len(live) : stack_loc'[i] = NoLoc
  /\ \A i \in Visited : stack_loc'[i] = NoLoc =>
       \/ \E p \in 1 .. Len(X) : X[p] = i
       \/ live[i].end < live[l].begin

(* Giving the visited lifetime a spare register keeps the invariant,       *)
(* whatever lifetimes went to the stack for it.                            *)
LEMMA PlaceKeepsIInv ==
  ASSUME IInv, l <= Len(live),
         NEW X, X \in Seq(Visited), NEW fr, fr \in Seq(1 .. k), NEW r \in 1 .. k,
         Holding(X, fr), SortedByEnd(X), SpareRegister(X, fr, r),
         Places(X, fr, r), SpillsOutside(X)
  PROVE  IInv'
<1>01. live' = live /\ k' = k /\ l' = l + 1 /\ free_regs' = fr /\ new_id' = [new_id EXCEPT ![l] = r]
  BY DEF Places
<1>02. /\ l \in Nat /\ l >= 1 /\ k \in Nat /\ k > 0 /\ Len(live) \in Nat
       /\ \A i \in 1 .. Len(live) : live[i].begin \in Nat /\ live[i].end \in Nat
  BY ScanFacts DEF IInv
<1>03. Len(X) \in Nat /\ Len(fr) \in Nat /\ \A j \in 1 .. Len(X) : X[j] \in Visited
  BY LenProperties, ElementOfSeq
<1>04. /\ l \in 1 .. Len(live)
       /\ \A i \in Visited : i \in 1 .. Len(live) /\ i < l /\ i \in 1 .. l /\ i # l
       /\ \A i \in 1 .. l : i = l \/ i \in Visited
  BY <1>02 DEF Visited
<1>05. Visited' = 1 .. l
  BY <1>01, <1>02 DEF Visited
<1>06. /\ new_id'[l] = r
       /\ \A i \in Visited : new_id'[i] = new_id[i]
       /\ new_id' \in [1 .. Len(live) -> Nat]
  <2>1. new_id \in [1 .. Len(live) -> Nat] /\ r \in Nat
    BY <1>02 DEF IInv, TypeOK
  <2> QED BY <2>1, <1>01, <1>04
<1>07. /\ \A p \in 1 .. Len(X) : InRegister(X[p]) /\ new_id[X[p]] \in 1 .. k
       /\ \A p, q \in 1 .. Len(X) : p # q => new_id[X[p]] # new_id[X[q]]
       /\ \A p \in 1 .. Len(X), q \in 1 .. Len(fr) : new_id[X[p]] # fr[q]
       /\ \A p, q \in 1 .. Len(fr) : p # q => fr[p] # fr[q]
  BY DEF Holding
<1>1. /\ active' \in Seq(1 .. l)
      /\ Len(active') = Len(X) + 1
      /\ SortedByEnd(active')
      /\ \E p \in 1 .. Len(X) + 1 :
           /\ active'[p] = l
           /\ \A q \in 1 .. Len(X) + 1 : q < p => q \in 1 .. Len(X) /\ active'[q] = X[q]
           /\ \A q \in 1 .. Len(X) + 1 : q > p => q - 1 \in 1 .. Len(X) /\ active'[q] = X[q - 1]
  <2>1. TypeOK /\ Activate(X)
    BY DEF IInv, Places
  <2> QED BY <2>1, <1>01, ActivateProps
<1>2. PICK p \in 1 .. Len(X) + 1 :
        /\ active'[p] = l
        /\ \A q \in 1 .. Len(X) + 1 : q < p => q \in 1 .. Len(X) /\ active'[q] = X[q]
        /\ \A q \in 1 .. Len(X) + 1 : q > p => q - 1 \in 1 .. Len(X) /\ active'[q] = X[q - 1]
  BY <1>1
<1> DEFINE at(q) == IF q < p THEN q ELSE q - 1
<1>31. p \in 1 .. Len(active') /\ p \in Int
  BY <1>1, <1>03
<1>32. ASSUME NEW q \in 1 .. Len(active'), q # p
       PROVE  at(q) \in 1 .. Len(X) /\ active'[q] = X[at(q)]
  <2>1. q \in 1 .. Len(X) + 1 /\ (q < p \/ q > p)
    BY <1>1, <1>31, <1>32
  <2>2. CASE q < p
    BY <2>1, <2>2, <1>2
  <2>3. CASE q > p
    BY <2>1, <2>3, <1>2, <1>31
  <2> QED BY <2>1, <2>2, <2>3
<1>33. ASSUME NEW a \in 1 .. Len(active'), NEW b \in 1 .. Len(active'), a # p, b # p, a # b
       PROVE  at(a) # at(b)
  BY <1>31, <1>33
<1>34. ASSUME NEW j \in 1 .. Len(X) PROVE \E q \in 1 .. Len(active') : active'[q] = X[j]
  <2>1. CASE j < p
    <3>1. j \in 1 .. Len(X) + 1 /\ j \in 1 .. Len(active')
      BY <1>03, <1>1
    <3> QED BY <3>1, <2>1, <1>2
  <2>2. CASE j >= p
    <3>1. /\ j + 1 \in 1 .. Len(active') /\ j + 1 \in 1 .. Len(X) + 1
          /\ j + 1 > p /\ (j + 1) - 1 = j
      BY <2>2, <1>03, <1>1, <1>31
    <3>2. active'[j + 1] = X[j]
      BY <3>1, <1>2
    <3> QED BY <3>1, <3>2
  <2> QED BY <2>1, <2>2, <1>31
<1> HIDE DEF at
<1>4. /\ \A q \in 1 .. Len(active') : q # p =>
           /\ at(q) \in 1 .. Len(X)
           /\ active'[q] = X[at(q)]
           /\ new_id'[active'[q]] = new_id[X[at(q)]]
      /\ new_id'[active'[p]] = r
  BY <1>03, <1>06, <1>2, <1>32
<1>5. /\ \A q \in 1 .. Len(X) : stack_loc'[X[q]] = NoLoc
      /\ \A i \in l .. Len(live) : stack_loc'[i] = NoLoc
      /\ \A i \in 1 .. Len(live) : stack_loc'[i] = NoLoc => InRegister(i)
      /\ \A i \in Visited : stack_loc'[i] = NoLoc =>
           \/ \E q \in 1 .. Len(X) : X[q] = i
           \/ live[i].end < live[l].begin
      /\ stack_loc' \in [1 .. Len(live) -> Nat] /\ nextStackId' \in Nat \ {0}
  BY DEF SpillsOutside
<1>51. stack_loc'[l] = NoLoc
  <2>1. l \in l .. Len(live)
    BY <1>02, <1>04
  <2> QED BY <2>1, <1>5
<1>6. TypeOK'
  <2>1. live' \in Seq(Range_) /\ k' \in Nat \ {0}
    BY <1>01 DEF IInv, TypeOK
  <2>2. l' \in 1 .. Len(live') + 1
    BY <1>01, <1>02, <1>04
  <2>3. active' \in Seq(Visited') /\ free_regs' \in Seq(1 .. k')
    BY <1>01, <1>05, <1>1
  <2>4. new_id' \in [1 .. Len(live') -> Nat] /\ stack_loc' \in [1 .. Len(live') -> Nat]
    BY <1>01, <1>06, <1>5
  <2> QED BY <2>1, <2>2, <2>3, <2>4, <1>5 DEF TypeOK
<1>7. Typed(active, free_regs)'
  <2>1. active' \in Seq(Visited') /\ free_regs' \in Seq(1 .. k')
    BY <1>01, <1>05, <1>1
  <2>2. Len(fr) + Len(X) + 1 = k
    BY DEF SpareRegister
  <2>3. Len(free_regs') + Len(active') = k'
    BY <2>2, <1>01, <1>03, <1>1
  <2> QED BY <2>1, <2>3 DEF Typed
<1>8. Holding(active, free_regs)'
  <2>1. ASSUME NEW q \in 1 .. Len(active')
        PROVE  stack_loc'[active'[q]] = NoLoc /\ new_id'[active'[q]] \in 1 .. k
    <3>1. CASE q = p
      BY <3>1, <1>2, <1>4, <1>51
    <3>2. CASE q # p
      <4>1. at(q) \in 1 .. Len(X) /\ active'[q] = X[at(q)]
            /\ new_id'[active'[q]] = new_id[X[at(q)]]
        BY <3>2, <1>4
      <4>2. stack_loc'[X[at(q)]] = NoLoc /\ new_id[X[at(q)]] \in 1 .. k
        BY <4>1, <1>5, <1>07
      <4> QED BY <4>1, <4>2
    <3> QED BY <3>1, <3>2
  <2>2. ASSUME NEW a \in 1 .. Len(active'), NEW b \in 1 .. Len(active'), a # b
        PROVE  new_id'[active'[a]] # new_id'[active'[b]]
    <3>0. \A q \in 1 .. Len(X) : new_id[X[q]] # r
      BY DEF SpareRegister
    <3>1. CASE a = p
      BY <3>0, <3>1, <2>2, <1>4
    <3>2. CASE b = p
      BY <3>0, <3>2, <2>2, <1>4
    <3>3. CASE a # p /\ b # p
      <4>1. at(a) \in 1 .. Len(X) /\ at(b) \in 1 .. Len(X) /\ at(a) # at(b)
        BY <3>3, <2>2, <1>4, <1>33
      <4>2. new_id[X[at(a)]] # new_id[X[at(b)]]
        BY <4>1, <1>07
      <4> QED BY <4>2, <3>3, <1>4
    <3> QED BY <3>1, <3>2, <3>3
  <2>3. ASSUME NEW a \in 1 .. Len(active'), NEW q \in 1 .. Len(fr)
        PROVE  new_id'[active'[a]] # fr[q]
    <3>0. fr[q] # r
      BY DEF SpareRegister
    <3>1. CASE a = p
      BY <3>0, <3>1, <1>4
    <3>2. CASE a # p
      BY <3>2, <1>4, <1>07
    <3> QED BY <3>1, <3>2
  <2> QED BY <2>1, <2>2, <2>3, <1>01, <1>07 DEF Holding, InRegister
<1>9. Covering(active, free_regs)'
  <2>1. ASSUME NEW x \in 1 .. k
        PROVE  \/ \E a \in 1 .. Len(active') : new_id'[active'[a]] = x
               \/ \E q \in 1 .. Len(fr) : fr[q] = x
    <3>0. \/ x = r
          \/ \E j \in 1 .. Len(X) : new_id[X[j]] = x
          \/ \E q \in 1 .. Len(fr) : fr[q] = x
      BY DEF SpareRegister
    <3>1. CASE x = r
      BY <3>1, <1>31, <1>4
    <3>2. CASE \E j \in 1 .. Len(X) : new_id[X[j]] = x
      <4>1. PICK j \in 1 .. Len(X) : new_id[X[j]] = x
        BY <3>2
      <4>2. PICK q \in 1 .. Len(active') : active'[q] = X[j]
        BY <1>34
      <4>3. new_id'[active'[q]] = x
        BY <4>1, <4>2, <1>03, <1>06
      <4> QED BY <4>3
    <3> QED BY <3>0, <3>1, <3>2
  <2> QED BY <2>1, <1>01 DEF Covering
<1>10. SortedByEnd(active)'
  BY <1>01, <1>1 DEF SortedByEnd
<1>11. OthersOver(active, live[l - 1].begin)'
  <2>1. l' - 1 = l
    BY <1>01, <1>02
  <2>2. ASSUME NEW i \in 1 .. l, stack_loc'[i] = NoLoc
        PROVE  \/ \E a \in 1 .. Len(active') : active'[a] = i
               \/ live[i].end < live[l].begin
    <3>1. CASE i = l
      BY <3>1, <1>2, <1>31
    <3>2. CASE i \in Visited
      <4>1. \/ \E q \in 1 .. Len(X) : X[q] = i
            \/ live[i].end < live[l].begin
        BY <3>2, <2>2, <1>5
      <4> QED BY <4>1, <1>34
    <3> QED BY <3>1, <3>2, <1>04
  <2> QED BY <2>1, <2>2, <1>01, <1>05 DEF OthersOver, InRegister
<1>12. \A i \in l' .. Len(live') : InRegister(i)'
  <2>1. \A i \in l' .. Len(live') : i \in l .. Len(live)
    BY <1>01, <1>02
  <2> QED BY <2>1, <1>5 DEF InRegister
<1>13. ConcurrentApart'
  <2>1. ASSUME NEW i \in Visited, stack_loc'[i] = NoLoc, isConcurrent(i, l) \/ isConcurrent(l, i)
        PROVE  new_id'[i] # r
    <3>1. i \in 1 .. Len(live) /\ l \in 1 .. Len(live) /\ i < l
      BY <1>04
    <3>2. live[i].begin < live[l].begin
      BY <3>1 DEF IInv, SortedByBegin
    <3>3. live[i].end >= live[l].begin
      BY <3>1, <3>2, <2>1, <1>02 DEF isConcurrent
    <3>4. ~(live[i].end < live[l].begin)
      BY <3>1, <3>3, <1>02
    <3>5. PICK j \in 1 .. Len(X) : X[j] = i
      BY <3>4, <2>1, <1>5
    <3>6. new_id[X[j]] # r
      BY DEF SpareRegister
    <3> QED BY <3>5, <3>6, <1>06
  <2>2. ASSUME NEW i \in 1 .. l, stack_loc'[i] = NoLoc
        PROVE  new_id'[i] \in 1 .. k
    <3>1. CASE i = l
      BY <3>1, <1>06
    <3>2. CASE i \in Visited
      <4>1. InRegister(i)
        BY <3>2, <2>2, <1>04, <1>5
      <4> QED BY <4>1, <3>2, <1>06 DEF IInv, ConcurrentApart
    <3> QED BY <3>1, <3>2, <1>04
  <2>3. ASSUME NEW i \in 1 .. l, NEW j \in 1 .. l, i # j,
               stack_loc'[i] = NoLoc, stack_loc'[j] = NoLoc, isConcurrent(i, j)
        PROVE  new_id'[i] # new_id'[j]
    <3>1. CASE i = l
      <4>1. j \in Visited
        BY <3>1, <2>3, <1>04
      <4> QED BY <4>1, <3>1, <2>1, <2>3, <1>06
    <3>2. CASE j = l
      <4>1. i \in Visited
        BY <3>2, <2>3, <1>04
      <4> QED BY <4>1, <3>2, <2>1, <2>3, <1>06
    <3>3. CASE i \in Visited /\ j \in Visited
      <4>1. InRegister(i) /\ InRegister(j)
        BY <3>3, <2>3, <1>04, <1>5
      <4>2. new_id[i] # new_id[j]
        BY <4>1, <3>3, <2>3 DEF IInv, ConcurrentApart
      <4> QED BY <4>2, <3>3, <1>06
    <3> QED BY <3>1, <3>2, <3>3, <1>04
  <2>4. ASSUME NEW i, NEW j PROVE isConcurrent(i, j)' <=> isConcurrent(i, j)
    BY <1>01 DEF isConcurrent
  <2> QED BY <2>2, <2>3, <2>4, <1>01, <1>05 DEF ConcurrentApart, InRegister
<1>14. SortedByBegin(live)'
  <2>1. SortedByBegin(live)
    BY DEF IInv
  <2> QED BY <2>1, <1>01 DEF SortedByBegin
<1> QED BY <1>6, <1>7, <1>8, <1>9, <1>10, <1>11, <1>12, <1>13, <1>14 DEF IInv

-----------------------------------------------------------------------------
(* The actions                                                             *)

LEMMA FrontProps ==
  ASSUME NEW S, NEW s \in Seq(S), Len(s) # 0
  PROVE  /\ Front(s) \in Seq(S)
         /\ Len(Front(s)) = Len(s) - 1
         /\ \A j \in 1 .. Len(s) - 1 : Front(s)[j] = s[j]
         /\ Last(s) = s[Len(s)] /\ Len(s) \in 1 .. Len(s)
<1>1. Len(s) \in Nat /\ 1 \in 1 .. Len(s) + 1 /\ Len(s) - 1 \in 0 .. Len(s) /\ 1 <= Len(s) - 1 + 1
  BY LenProperties
<1>2. /\ SubSeq(s, 1, Len(s) - 1) \in Seq(S)
      /\ Len(SubSeq(s, 1, Len(s) - 1)) = Len(s) - 1 - 1 + 1
      /\ \A j \in 1 .. Len(s) - 1 - 1 + 1 : SubSeq(s, 1, Len(s) - 1)[j] = s[1 + j - 1]
  BY <1>1, SubSeqProps
<1>3. Len(s) - 1 - 1 + 1 = Len(s) - 1 /\ \A j \in 1 .. Len(s) - 1 : 1 + j - 1 = j
  BY <1>1
<1> QED BY <1>1, <1>2, <1>3 DEF Front, Last

LEMMA AssignIInv == IInv /\ AssignRegister => IInv'
<1> SUFFICES ASSUME IInv, AssignRegister PROVE IInv'
  OBVIOUS
<1>1. PICK n \in 0 .. Len(active) :
        /\ Expire(n)
        /\ Len(Remaining(n)) # k
        /\ new_id' = [new_id EXCEPT ![l] = Last(Freed(n))]
        /\ free_regs' = Front(Freed(n))
        /\ Activate(Remaining(n))
  BY DEF AssignRegister
<1> DEFINE R == Remaining(n)
           F == Freed(n)
<1>2. l <= Len(live) /\ l' = l + 1 /\ UNCHANGED <<live, k, stack_loc, nextStackId>>
  BY DEF AssignRegister
<1>3. Typed(R, F) /\ Holding(R, F) /\ Covering(R, F) /\ SortedByEnd(R) /\ OthersOver(R, live[l].begin)
  BY <1>1, <1>2, ExpireProps
<1> HIDE DEF R, F
<1>4. /\ R \in Seq(Visited) /\ F \in Seq(1 .. k) /\ Len(F) + Len(R) = k
      /\ Len(R) \in Nat /\ Len(F) \in Nat /\ k \in Nat
  BY <1>3, LenProperties, ScanFacts DEF IInv, Typed
<1>5. Len(F) # 0
  BY <1>1, <1>4 DEF R
<1> DEFINE fr == Front(F)
           r == Last(F)
<1>6. /\ fr \in Seq(1 .. k)
      /\ Len(fr) = Len(F) - 1
      /\ \A j \in 1 .. Len(F) - 1 : fr[j] = F[j]
      /\ r = F[Len(F)] /\ Len(F) \in 1 .. Len(F)
  BY <1>4, <1>5, FrontProps
<1> HIDE DEF fr, r
<1>7. r \in 1 .. k
  BY <1>4, <1>6, ElementOfSeq
<1>8. \A j \in 1 .. Len(fr) : j \in 1 .. Len(F) /\ j # Len(F) /\ fr[j] = F[j]
  <2>1. \A j \in 1 .. Len(fr) : j \in 1 .. Len(F) - 1
    BY <1>6
  <2>2. \A j \in 1 .. Len(F) - 1 : j \in 1 .. Len(F) /\ j # Len(F)
    BY <1>4
  <2> QED BY <2>1, <2>2, <1>6
<1>9. Holding(R, fr)
  BY <1>3, <1>8 DEF Holding
<1>10. SpareRegister(R, fr, r)
  <2>1. Len(fr) + Len(R) + 1 = k
    BY <1>4, <1>6
  <2>2. \A p \in 1 .. Len(R) : new_id[R[p]] # r
    BY <1>3, <1>6 DEF Holding
  <2>3. \A q \in 1 .. Len(fr) : fr[q] # r
    BY <1>3, <1>6, <1>8 DEF Holding
  <2>4. ASSUME NEW x \in 1 .. k
        PROVE  \/ x = r
               \/ \E p \in 1 .. Len(R) : new_id[R[p]] = x
               \/ \E q \in 1 .. Len(fr) : fr[q] = x
    <3>1. CASE \E q \in 1 .. Len(F) : F[q] = x
      <4>1. PICK q \in 1 .. Len(F) : F[q] = x
        BY <3>1
      <4>2. q = Len(F) \/ q \in 1 .. Len(fr)
        BY <1>4, <1>6
      <4> QED BY <4>1, <4>2, <1>6, <1>8
    <3> QED BY <3>1, <1>3 DEF Covering
  <2> QED BY <2>1, <2>2, <2>3, <2>4 DEF SpareRegister
<1>11. Places(R, fr, r)
  BY <1>1, <1>2 DEF Places, R, F, fr, r
<1>12. SpillsOutside(R)
  <2>1. stack_loc \in [1 .. Len(live) -> Nat] /\ nextStackId \in Nat \ {0}
    BY DEF IInv, TypeOK
  <2>2. \A p \in 1 .. Len(R) : stack_loc[R[p]] = NoLoc
    BY <1>3 DEF Holding, InRegister
  <2>3. \A i \in l .. Len(live) : stack_loc[i] = NoLoc
    BY DEF IInv, InRegister
  <2>4. \A i \in Visited : stack_loc[i] = NoLoc =>
          \/ \E p \in 1 .. Len(R) : R[p] = i
          \/ live[i].end < live[l].begin
    BY <1>3 DEF OthersOver, InRegister
  <2> QED BY <2>1, <2>2, <2>3, <2>4, <1>2 DEF SpillsOutside, InRegister
<1> QED BY <1>2, <1>3, <1>4, <1>6, <1>7, <1>9, <1>10, <1>11, <1>12, PlaceKeepsIInv

LEMMA SpillActiveIInv == IInv /\ SpillActive => IInv'
<1> SUFFICES ASSUME IInv, SpillActive PROVE IInv'
  OBVIOUS
<1>1. PICK n \in 0 .. Len(active) :
        /\ Expire(n)
        /\ Len(Remaining(n)) = k
        /\ live[Last(Remaining(n))].end > live[l].end
        /\ new_id' = [new_id EXCEPT ![l] = new_id[Last(Remaining(n))]]
        /\ stack_loc' = [stack_loc EXCEPT ![Last(Remaining(n))] = nextStackId]
        /\ Activate(Front(Remaining(n)))
        /\ free_regs' = Freed(n)
  BY DEF SpillActive
<1> DEFINE R == Remaining(n)
           F == Freed(n)
<1>2. /\ l <= Len(live) /\ l' = l + 1 /\ UNCHANGED <<live, k>>
      /\ nextStackId' = nextStackId + 1
  BY DEF SpillActive
<1>3. Typed(R, F) /\ Holding(R, F) /\ Covering(R, F) /\ SortedByEnd(R) /\ OthersOver(R, live[l].begin)
  BY <1>1, <1>2, ExpireProps
<1> HIDE DEF R, F
<1>4. /\ R \in Seq(Visited) /\ F \in Seq(1 .. k) /\ Len(F) + Len(R) = k
      /\ Len(R) \in Nat /\ Len(F) \in Nat /\ k \in Nat /\ k > 0
  BY <1>3, LenProperties, ScanFacts DEF IInv, Typed
<1>5. Len(R) = k /\ Len(F) = 0 /\ Len(R) # 0
  BY <1>1, <1>4 DEF R
<1> DEFINE X == Front(R)
           spill == Last(R)
<1>6. /\ X \in Seq(Visited)
      /\ Len(X) = Len(R) - 1
      /\ \A j \in 1 .. Len(R) - 1 : X[j] = R[j]
      /\ spill = R[Len(R)] /\ Len(R) \in 1 .. Len(R)
  BY <1>4, <1>5, FrontProps
<1> HIDE DEF X, spill
<1>7. spill \in Visited /\ Visited \subseteq 1 .. Len(live) /\ l \in Nat /\ Len(live) \in Nat
  BY <1>4, <1>6, ElementOfSeq, ScanFacts DEF IInv
<1>8. \A j \in 1 .. Len(X) : j \in 1 .. Len(R) /\ j # Len(R) /\ X[j] = R[j]
  BY <1>4, <1>6
<1>9. /\ new_id[spill] \in 1 .. k
      /\ \A j \in 1 .. Len(X) : X[j] # spill /\ new_id[X[j]] # new_id[spill]
  BY <1>3, <1>6, <1>8 DEF Holding
<1>10. Holding(X, F)
  BY <1>3, <1>8 DEF Holding
<1>11. SortedByEnd(X)
  BY <1>3, <1>8 DEF SortedByEnd
<1>12. SpareRegister(X, F, new_id[spill])
  <2>1. Len(F) + Len(X) + 1 = k
    BY <1>4, <1>5, <1>6
  <2>2. \A q \in 1 .. Len(F) : F[q] # new_id[spill]
    BY <1>3, <1>6 DEF Holding
  <2>3. ASSUME NEW x \in 1 .. k
        PROVE  \/ x = new_id[spill]
               \/ \E p \in 1 .. Len(X) : new_id[X[p]] = x
               \/ \E q \in 1 .. Len(F) : F[q] = x
    <3>1. CASE \E p \in 1 .. Len(R) : new_id[R[p]] = x
      <4>1. PICK p \in 1 .. Len(R) : new_id[R[p]] = x
        BY <3>1
      <4>2. p = Len(R) \/ p \in 1 .. Len(X)
        BY <1>4, <1>6
      <4> QED BY <4>1, <4>2, <1>6, <1>8
    <3> QED BY <3>1, <1>3 DEF Covering
  <2> QED BY <2>1, <2>2, <2>3, <1>9 DEF SpareRegister
<1>13. Places(X, F, new_id[spill])
  BY <1>1, <1>2 DEF Places, R, F, X, spill
<1>14. stack_loc' = [stack_loc EXCEPT ![spill] = nextStackId]
  BY <1>1 DEF R, spill
<1>15. SpillsOutside(X)
  <2>1. /\ stack_loc \in [1 .. Len(live) -> Nat] /\ nextStackId \in Nat /\ nextStackId # NoLoc
        /\ nextStackId' \in Nat \ {0}
    BY <1>2 DEF IInv, TypeOK, NoLoc
  <2>2. /\ stack_loc' \in [1 .. Len(live) -> Nat]
        /\ stack_loc'[spill] # NoLoc
        /\ \A i \in 1 .. Len(live) : i # spill => stack_loc'[i] = stack_loc[i]
    BY <2>1, <1>7, <1>14
  <2>3. \A i \in 1 .. Len(live) : stack_loc'[i] = NoLoc => InRegister(i)
    BY <2>2 DEF InRegister
  <2>4. ASSUME NEW p \in 1 .. Len(X)
        PROVE  stack_loc'[X[p]] = NoLoc
    <3>1. X[p] \in 1 .. Len(live) /\ X[p] # spill
      BY <1>6, <1>7, <1>9, ElementOfSeq
    <3>2. stack_loc[X[p]] = NoLoc
      BY <1>10 DEF Holding, InRegister
    <3> QED BY <3>1, <3>2, <2>2
  <2>5. ASSUME NEW i \in l .. Len(live)
        PROVE  stack_loc'[i] = NoLoc
    <3>1. i \in 1 .. Len(live) /\ i # spill
      <4>1. l >= 1
        BY ScanFacts DEF IInv
      <4> QED BY <4>1, <1>7 DEF Visited
    <3>2. stack_loc[i] = NoLoc
      BY DEF IInv, InRegister
    <3> QED BY <3>1, <3>2, <2>2
  <2>6. ASSUME NEW i \in Visited, stack_loc'[i] = NoLoc
        PROVE  \/ \E p \in 1 .. Len(X) : X[p] = i
               \/ live[i].end < live[l].begin
    <3>1. i \in 1 .. Len(live) /\ i # spill /\ InRegister(i)
      BY <2>2, <2>3, <2>6, <1>7
    <3>2. CASE \E p \in 1 .. Len(R) : R[p] = i
      <4>1. PICK p \in 1 .. Len(R) : R[p] = i
        BY <3>2
      <4>2. p # Len(R)
        BY <4>1, <3>1, <1>6
      <4>3. p \in 1 .. Len(X)
        BY <4>2, <1>4, <1>6
      <4> QED BY <4>1, <4>3, <1>8
    <3> QED BY <3>1, <3>2, <1>3 DEF OthersOver
  <2> QED BY <2>1, <2>2, <2>3, <2>4, <2>5, <2>6 DEF SpillsOutside
<1> QED BY <1>2, <1>4, <1>6, <1>9, <1>10, <1>11, <1>12, <1>13, <1>15, PlaceKeepsIInv

LEMMA SpillCurrentIInv == IInv /\ SpillCurrent => IInv'
<1> SUFFICES ASSUME IInv, SpillCurrent PROVE IInv'
  OBVIOUS
<1>1. PICK n \in 0 .. Len(active) :
        /\ Expire(n)
        /\ Len(Remaining(n)) = k
        /\ active' = Remaining(n)
        /\ free_regs' = Freed(n)
  BY DEF SpillCurrent
<1>2. /\ l <= Len(live) /\ l' = l + 1 /\ live' = live /\ k' = k /\ new_id' = new_id
      /\ stack_loc' = [stack_loc EXCEPT ![l] = nextStackId]
      /\ nextStackId' = nextStackId + 1
  BY DEF SpillCurrent
<1>3. /\ Typed(active', free_regs') /\ Holding(active', free_regs')
      /\ Covering(active', free_regs') /\ SortedByEnd(active')
      /\ OthersOver(active', live[l].begin)
  BY <1>1, <1>2, ExpireProps
<1>4. /\ l \in Nat /\ l >= 1 /\ Len(live) \in Nat /\ l \in 1 .. Len(live)
      /\ nextStackId \in Nat /\ nextStackId # NoLoc
      /\ stack_loc \in [1 .. Len(live) -> Nat]
  BY <1>2, ScanFacts DEF IInv, TypeOK, NoLoc
<1>5. Visited' = 1 .. l /\ \A i \in Visited : i \in 1 .. Len(live) /\ i # l /\ i \in 1 .. l
  BY <1>2, <1>4 DEF Visited
<1>6. /\ stack_loc' \in [1 .. Len(live) -> Nat]
      /\ stack_loc'[l] # NoLoc
      /\ \A i \in 1 .. Len(live) : i # l => stack_loc'[i] = stack_loc[i]
  BY <1>2, <1>4
<1>7. /\ active' \in Seq(Visited) /\ free_regs' \in Seq(1 .. k)
      /\ Len(free_regs') + Len(active') = k
      /\ \A p \in 1 .. Len(active') : active'[p] \in Visited
  <2>1. active' \in Seq(Visited) /\ free_regs' \in Seq(1 .. k) /\ Len(free_regs') + Len(active') = k
    BY <1>3 DEF Typed
  <2> QED BY <2>1, ElementOfSeq
<1>8. Visited \subseteq Visited'
  BY <1>5
<1>9. active' \in Seq(Visited')
  <2>1. Len(active') \in Nat
    BY <1>7, LenProperties
  <2> QED BY <2>1, <1>7, <1>8
<1>10. TypeOK'
  <2>1. /\ live \in Seq(Range_) /\ k \in Nat \ {0}
        /\ new_id \in [1 .. Len(live) -> Nat]
    BY DEF IInv, TypeOK
  <2>2. l' \in 1 .. Len(live') + 1 /\ nextStackId' \in Nat \ {0}
    BY <1>2, <1>4
  <2> QED BY <2>1, <2>2, <1>2, <1>6, <1>7, <1>9 DEF TypeOK
<1>11. Typed(active, free_regs)'
  BY <1>2, <1>7, <1>9 DEF Typed
<1>12. Holding(active, free_regs)'
  <2>1. \A p \in 1 .. Len(active') : stack_loc'[active'[p]] = NoLoc
    BY <1>3, <1>5, <1>6, <1>7 DEF Holding, InRegister
  <2> QED BY <2>1, <1>2, <1>3 DEF Holding, InRegister
<1>13. Covering(active, free_regs)'
  BY <1>2, <1>3 DEF Covering
<1>14. SortedByEnd(active)' /\ SortedByBegin(live)'
  BY <1>2, <1>3 DEF SortedByEnd, IInv
<1>15. OthersOver(active, live[l - 1].begin)'
  <2>1. l' - 1 = l
    BY <1>2, <1>4
  <2>2. ASSUME NEW i \in 1 .. l, stack_loc'[i] = NoLoc
        PROVE  \/ \E p \in 1 .. Len(active') : active'[p] = i
               \/ live[i].end < live[l].begin
    <3>1. i \in Visited
      BY <2>2, <1>4, <1>6 DEF Visited
    <3>2. InRegister(i)
      BY <3>1, <2>2, <1>5, <1>6 DEF InRegister
    <3> QED BY <3>1, <3>2, <1>3 DEF OthersOver
  <2> QED BY <2>1, <2>2, <1>2, <1>5 DEF OthersOver, InRegister
<1>16. \A i \in l' .. Len(live') : InRegister(i)'
  <2> SUFFICES ASSUME NEW i \in l' .. Len(live') PROVE stack_loc'[i] = NoLoc
    BY DEF InRegister
  <2>1. i \in l .. Len(live) /\ i \in 1 .. Len(live) /\ i # l
    BY <1>2, <1>4
  <2>2. stack_loc[i] = NoLoc
    BY <2>1 DEF IInv, InRegister
  <2> QED BY <2>1, <2>2, <1>6
<1>17. ConcurrentApart'
  <2>1. ASSUME NEW i \in 1 .. l, stack_loc'[i] = NoLoc
        PROVE  i \in Visited /\ InRegister(i)
    <3>1. i \in Visited
      BY <2>1, <1>4, <1>6 DEF Visited
    <3> QED BY <3>1, <2>1, <1>5, <1>6 DEF InRegister
  <2>2. ASSUME NEW i, NEW j PROVE isConcurrent(i, j)' <=> isConcurrent(i, j)
    BY <1>2 DEF isConcurrent
  <2> QED BY <2>1, <2>2, <1>2, <1>5 DEF IInv, ConcurrentApart, InRegister
<1> QED BY <1>10, <1>11, <1>12, <1>13, <1>14, <1>15, <1>16, <1>17 DEF IInv

LEMMA InitIInv == Init => IInv
<1> SUFFICES ASSUME NEW s \in LiveRanges, NEW count \in RegCounts, StartScan(s, count, 1)
             PROVE  IInv
  BY DEF Init
<1>1. /\ s \in Seq(Range_) /\ SortedByBegin(s) /\ count \in Nat /\ count > 0
      /\ Len(s) \in Nat
  BY LiveRangesAssumption, RegCountsAssumption, LenProperties
<1>2. /\ live = s /\ k = count /\ l = 1
      /\ new_id = [i \in 1 .. Len(s) |-> NoReg]
      /\ stack_loc = [i \in 1 .. Len(s) |-> NoLoc]
      /\ free_regs = [r \in 1 .. count |-> count + 1 - r]
      /\ active = <<>>
      /\ nextStackId = 1
  BY DEF StartScan
<1>3. /\ free_regs \in Seq(1 .. k) /\ Len(free_regs) = k
      /\ \A r \in 1 .. k : free_regs[r] = k + 1 - r
  <2>1. \A r \in 1 .. count : count + 1 - r \in 1 .. count
    BY <1>1
  <2> QED BY <2>1, <1>1, <1>2
<1>4. active \in Seq(Visited) /\ Len(active) = 0
  BY <1>2
<1>5. Visited = {}
  BY <1>2 DEF Visited
<1>6. TypeOK
  <2>1. new_id \in [1 .. Len(live) -> Nat] /\ stack_loc \in [1 .. Len(live) -> Nat]
    BY <1>2 DEF NoReg, NoLoc
  <2>2. l \in 1 .. Len(live) + 1 /\ k \in Nat \ {0} /\ nextStackId \in Nat \ {0}
    BY <1>1, <1>2
  <2> QED BY <2>1, <2>2, <1>1, <1>2, <1>3, <1>4 DEF TypeOK
<1>7. Typed(active, free_regs)
  BY <1>1, <1>2, <1>3, <1>4 DEF Typed
<1>8. Holding(active, free_regs)
  BY <1>1, <1>2, <1>3, <1>4 DEF Holding
<1>9. Covering(active, free_regs)
  <2> SUFFICES ASSUME NEW r \in 1 .. k PROVE \E q \in 1 .. Len(free_regs) : free_regs[q] = r
    BY DEF Covering
  <2>1. k + 1 - r \in 1 .. k /\ k + 1 - (k + 1 - r) = r
    BY <1>1, <1>2
  <2> QED BY <2>1, <1>3
<1>10. SortedByEnd(active)
  BY <1>4 DEF SortedByEnd
<1>11. \A i \in l .. Len(live) : InRegister(i)
  BY <1>2 DEF InRegister
<1>12. ConcurrentApart
  BY <1>5 DEF ConcurrentApart
<1> QED BY <1>1, <1>2, <1>6, <1>7, <1>8, <1>9, <1>10, <1>11, <1>12 DEF IInv

LEMMA StutterIInv == IInv /\ UNCHANGED scanVars => IInv'
BY DEF scanVars, IInv, TypeOK, SortedByBegin, Typed, Holding, Covering, SortedByEnd,
       OthersOver, ConcurrentApart, isConcurrent, InRegister, Visited

LEMMA NextIInv == IInv /\ [Scan]_scanVars => IInv'
BY AssignIInv, SpillActiveIInv, SpillCurrentIInv, StutterIInv DEF Scan

-----------------------------------------------------------------------------
(* The inductive invariant holds in every state of every scan.             *)
THEOREM ScanInvariant == Spec => []IInv
BY InitIInv, NextIInv, PTL DEF Spec

(* Whatever the lifetimes and the number of registers, allocateRegisters   *)
(* never leaves two lifetimes that are live at one instruction in the same *)
(* register, nor one in a register the target does not have.               *)
THEOREM ConcurrentNeverShare == Spec => []ConcurrentApart
<1>1. IInv => ConcurrentApart
  BY DEF IInv
<1> QED BY <1>1, ScanInvariant, PTL

(* Every register is in free_regs or held by an active lifetime, and in    *)
(* one place only, at every turn of the loop.                              *)
THEOREM RegistersNeverLost == Spec => []RegistersConserved
<1>1. IInv => RegistersConserved
  <2> SUFFICES ASSUME IInv PROVE RegistersConserved
    OBVIOUS
  <2>1. /\ Typed(active, free_regs) /\ Holding(active, free_regs) /\ Covering(active, free_regs)
        /\ Len(active) \in Nat /\ Len(free_regs) \in Nat
        /\ active \in Seq(Visited) /\ free_regs \in Seq(1 .. k)
    BY ScanFacts DEF IInv, TypeOK
  <2>2. DOMAIN active = 1 .. Len(active) /\ DOMAIN free_regs = 1 .. Len(free_regs)
    BY <2>1, LenProperties
  <2>3. \A q \in 1 .. Len(free_regs) : free_regs[q] \in 1 .. k
    BY <2>1, ElementOfSeq
  <2>4. \A p \in 1 .. Len(active) : new_id[active[p]] \in 1 .. k
    BY <2>1 DEF Holding
  <2>5. ToSet(free_regs) \cup {new_id[active[i]] : i \in DOMAIN active} \subseteq 1 .. k
    BY <2>2, <2>3, <2>4 DEF ToSet
  <2>6. 1 .. k \subseteq ToSet(free_regs) \cup {new_id[active[i]] : i \in DOMAIN active}
    BY <2>1, <2>2 DEF ToSet, Covering
  <2> QED BY <2>1, <2>5, <2>6 DEF RegistersConserved, Typed
<1> QED BY <1>1, ScanInvariant, PTL

(* The lifetime that goes to the stack is one that ends last among those   *)
(* that compete for the registers.                                         *)
THEOREM LongestIsSpilled == Spec => SpillsTheLongest
<1> DEFINE Choice ==
      \A i \in DOMAIN stack_loc : stack_loc'[i] # stack_loc[i] =>
        \A j \in DOMAIN active' : live[active'[j]].end <= live[i].end
<1>1. ASSUME IInv, AssignRegister PROVE Choice
  BY <1>1 DEF AssignRegister
<1>2. ASSUME IInv, SpillActive PROVE Choice
  <2>1. PICK n \in 0 .. Len(active) :
          /\ Expire(n)
          /\ Len(Remaining(n)) = k
          /\ live[Last(Remaining(n))].end > live[l].end
          /\ stack_loc' = [stack_loc EXCEPT ![Last(Remaining(n))] = nextStackId]
          /\ Activate(Front(Remaining(n)))
    BY <1>2 DEF SpillActive
  <2>2. l <= Len(live) /\ live' = live
    BY <1>2 DEF SpillActive
  <2> DEFINE R == Remaining(n)
             X == Front(R)
             spill == Last(R)
  <2>3. Typed(R, Freed(n)) /\ SortedByEnd(R)
    BY <1>2, <2>1, <2>2, ExpireProps
  <2>4. /\ R \in Seq(Visited) /\ Len(R) \in Nat /\ Len(R) # 0
        /\ l \in 1 .. Len(live)
        /\ \A i \in 1 .. Len(live) : live[i].end \in Nat
        /\ Visited \subseteq 1 .. Len(live)
        /\ stack_loc \in [1 .. Len(live) -> Nat]
        /\ TypeOK
    <3>1. TypeOK
      BY <1>2 DEF IInv
    <3>2. /\ k > 0 /\ k \in Nat /\ l \in Nat /\ l >= 1 /\ Len(live) \in Nat
          /\ \A i \in 1 .. Len(live) : live[i].end \in Nat
          /\ Visited \subseteq 1 .. Len(live)
      BY <3>1, ScanFacts
    <3>3. R \in Seq(Visited)
      BY <2>3 DEF Typed
    <3>4. Len(R) # 0
      BY <2>1, <3>2
    <3> QED BY <2>2, <3>1, <3>2, <3>3, <3>4, LenProperties DEF TypeOK
  <2> HIDE DEF R
  <2>5. /\ X \in Seq(Visited)
        /\ Len(X) = Len(R) - 1
        /\ \A j \in 1 .. Len(R) - 1 : X[j] = R[j]
        /\ spill = R[Len(R)] /\ Len(R) \in 1 .. Len(R)
    BY <2>4, FrontProps
  <2>6. live[spill].end > live[l].end /\ Activate(X)
        /\ stack_loc' = [stack_loc EXCEPT ![spill] = nextStackId]
    BY <2>1 DEF R
  <2> HIDE DEF X, spill
  <2>7. \A j \in 1 .. Len(X) : j \in 1 .. Len(R) /\ j < Len(R)
    BY <2>4, <2>5
  <2>8. \A j \in 1 .. Len(X) : live[X[j]].end <= live[spill].end
    BY <2>3, <2>5, <2>7 DEF SortedByEnd
  <2>9. SortedByEnd(X)
    BY <2>3, <2>4, <2>5, <2>7 DEF SortedByEnd
  <2>10. /\ active' \in Seq(1 .. l)
         /\ Len(active') = Len(X) + 1
         /\ \E p \in 1 .. Len(X) + 1 :
              /\ active'[p] = l
              /\ \A q \in 1 .. Len(X) + 1 : q < p => q \in 1 .. Len(X) /\ active'[q] = X[q]
              /\ \A q \in 1 .. Len(X) + 1 : q > p => q - 1 \in 1 .. Len(X) /\ active'[q] = X[q - 1]
    BY <2>2, <2>4, <2>5, <2>6, <2>9, ActivateProps
  <2>11. spill \in 1 .. Len(live)
    BY <2>4, <2>5, ElementOfSeq
  <2>12. live[l].end <= live[spill].end
    BY <2>4, <2>6, <2>11
  <2>13. \A j \in 1 .. Len(active') : live[active'[j]].end <= live[spill].end
    <3> TAKE j \in 1 .. Len(active')
    <3>1. PICK p \in 1 .. Len(X) + 1 :
            /\ active'[p] = l
            /\ \A q \in 1 .. Len(X) + 1 : q < p => q \in 1 .. Len(X) /\ active'[q] = X[q]
            /\ \A q \in 1 .. Len(X) + 1 : q > p => q - 1 \in 1 .. Len(X) /\ active'[q] = X[q - 1]
      BY <2>10
    <3>2. j \in 1 .. Len(X) + 1
      BY <2>10
    <3>3. j < p \/ j = p \/ j > p
      BY <3>2
    <3> QED BY <3>1, <3>2, <3>3, <2>8, <2>12
  <2>14. \A i \in DOMAIN stack_loc : stack_loc'[i] # stack_loc[i] => i = spill
    BY <2>4, <2>6
  <2>15. DOMAIN active' = 1 .. Len(active')
    BY <2>10, LenProperties
  <2> QED BY <2>13, <2>14, <2>15
<1>3. ASSUME IInv, SpillCurrent PROVE Choice
  <2>1. PICK n \in 0 .. Len(active) :
          /\ Expire(n)
          /\ Len(Remaining(n)) = k
          /\ live[Last(Remaining(n))].end <= live[l].end
          /\ active' = Remaining(n)
    BY <1>3 DEF SpillCurrent
  <2>2. l <= Len(live) /\ stack_loc' = [stack_loc EXCEPT ![l] = nextStackId]
    BY <1>3 DEF SpillCurrent
  <2>3. Typed(active', Freed(n)) /\ SortedByEnd(active')
    BY <1>3, <2>1, <2>2, ExpireProps
  <2>4. TypeOK
    BY <1>3 DEF IInv
  <2>5. /\ active' \in Seq(Visited) /\ Len(active') \in Nat /\ Len(active') # 0
        /\ DOMAIN active' = 1 .. Len(active')
    <3>1. active' \in Seq(Visited)
      BY <2>3 DEF Typed
    <3>2. Len(active') # 0
      BY <2>1, <2>4, ScanFacts
    <3> QED BY <3>1, <3>2, LenProperties
  <2>6. \A j \in 1 .. Len(active') :
          active'[j] \in 1 .. Len(live) /\ live[active'[j]].end \in Nat
    BY <2>4, <2>5, ElementOfSeq, ScanFacts
  <2>7. l \in 1 .. Len(live) /\ live[l].end \in Nat
    <3>1. l \in 1 .. Len(live)
      BY <2>2, <2>4, ScanFacts
    <3> QED BY <3>1, <2>4, ScanFacts
  <2>8. Len(active') \in 1 .. Len(active') /\ live[active'[Len(active')]].end <= live[l].end
    BY <2>1, <2>5 DEF Last
  <2>9. ASSUME NEW j \in 1 .. Len(active')
        PROVE  live[active'[j]].end <= live[l].end
    <3>0. live[active'[Len(active')]].end \in Nat /\ live[active'[j]].end \in Nat
      BY <2>6, <2>8
    <3>1. CASE j = Len(active')
      BY <3>1, <2>8
    <3>2. CASE j < Len(active')
      <4>1. live[active'[j]].end <= live[active'[Len(active')]].end
        BY <3>2, <2>3, <2>8 DEF SortedByEnd
      <4> QED BY <4>1, <3>0, <2>7, <2>8
    <3>3. j = Len(active') \/ j < Len(active')
      <4>1. Len(active') \in Nat
        BY <2>5
      <4> QED BY <4>1
    <3> QED BY <3>1, <3>2, <3>3
  <2>10. \A i \in DOMAIN stack_loc : stack_loc'[i] # stack_loc[i] => i = l
    BY <2>2
  <2> QED BY <2>5, <2>9, <2>10
<1>4. ASSUME UNCHANGED scanVars PROVE Choice
  BY <1>4 DEF scanVars
<1>5. IInv /\ [Scan]_scanVars => [Choice]_scanVars
  BY <1>1, <1>2, <1>3, <1>4 DEF Scan
<1> QED BY <1>5, ScanInvariant, PTL DEF Spec, SpillsTheLongest
=============================================================================
