--------------------------- MODULE ScopeFlow_proofs ---------------------------
(***************************************************************************)
(* Proofs about the scopes of a function as it runs: whichever way the     *)
(* branches go, an object that is alive has its slot, what is destroyed or *)
(* used is alive, and nothing is left alive when the function returns, but *)
(* for the statements each of these properties excepts.                    *)
(*                                                                         *)
(* The argument annotates the code: R is the set of addresses that may be  *)
(* reached, A[a] the objects alive before the instruction at a.  Neither   *)
(* is anywhere in the program; that they exist for every function is the   *)
(* invariant.  At the end of the code written so far the objects alive are *)
(* those of the open scopes; where a jump is to be completed, or a loop    *)
(* may be continued, those of the scopes that will be open there.          *)
(***************************************************************************)
EXTENDS ScopeExit_proofs

Jumps == {"jump", "branch"}

(* No return or early exit has left objects that the flow of the program   *)
(* does not know of.                                                       *)
Exact(h) == "return" \notin h /\ "initializer" \notin h

IsLabel(i, l) == i.op = "label" /\ i.to = <<l>>

After(i, x) ==
  IF i.op = "construct" THEN x \cup {i.id} ELSE IF i.op = "dtor" THEN x \ {i.id} ELSE x

(* A variable that was declared without a value is none of the objects.    *)
Follows(i, x, y, h) == y = After(i, x) \/ (i.op = "construct" /\ "empty" \in h /\ y = x)

(* What is alive at a jump is alive at its target.                         *)
Carries(x, y, h) == x \subseteq y /\ (Exact(h) => y \subseteq x)

Flow(c, R, A, h, a) ==
  /\ c[a].op \notin Jumps \cup {"ret"} => a + 1 \in R /\ Follows(c[a], A[a], A[a + 1], h)
  /\ c[a].op \in Jumps =>
       \A n \in 1 .. Len(c[a].to), b \in 1 .. Len(c) :
         IsLabel(c[b], c[a].to[n]) => b \in R /\ Carries(A[a], A[b], h)
  /\ c[a].op = "free" => c[a].id \notin A[a]
  /\ c[a].op = "ret" => A[a] = {}
  /\ c[a].op \in {"dtor", "use"} /\ Exact(h) => c[a].id \in A[a]
  /\ c[a].op # "resolve"

AliveHeld(c, A, h, a) == "early" \notin h => \A id \in A[a] : HeldAt(c, a, id)

Stops(c) == Len(c) > 0 /\ c[Len(c)].op \in Jumps \cup {"ret"}

Flowing(c, R, A, h) ==
  /\ c \in Seq(Codes)
  /\ R \in SUBSET (1 .. Len(c) + 1) /\ A \in [Nat -> SUBSET Nat]
  /\ 1 \in R /\ A[1] = {}
  /\ \A a \in R : AliveHeld(c, A, h, a)
  /\ \A a \in R : a \in 1 .. Len(c) => Flow(c, R, A, h, a)
  /\ Stops(c) => Len(c) + 1 \notin R

(* The code e is the code c with jumps completed and more code behind it,  *)
(* its notes S and B are those of c there, and its new labels are new.     *)
Continues(c, R, A, l, e, S, B) ==
  /\ Len(c) <= Len(e)
  /\ \A a \in 1 .. Len(c) :
       /\ e[a].op = c[a].op /\ (e[a].op = "label" => e[a].to = c[a].to)
       /\ (a \in S <=> a \in R) /\ B[a] = A[a]
  /\ \A b \in Len(c) + 1 .. Len(e) : \A k : IsLabel(e[b], k) => k >= l

(* The labels there are, and the targets of the jumps.                     *)
Closed(c, lab) ==
  /\ \A l \in 1 .. lab - 1 : \E b \in 1 .. Len(c) : IsLabel(c[b], l)
  /\ \A b \in 1 .. Len(c) : c[b].op \in Jumps \cup {"label"} =>
       \A n \in 1 .. Len(c[b].to) : c[b].to[n] \in 1 .. lab - 1

-----------------------------------------------------------------------------
(* Code                                                                    *)

LEMMA AppendCode ==
  ASSUME NEW c \in Seq(Codes), NEW i \in Codes
  PROVE  /\ Append(c, i) \in Seq(Codes) /\ Len(Append(c, i)) = Len(c) + 1 /\ Len(c) \in Nat
         /\ \A a \in 1 .. Len(c) : Append(c, i)[a] = c[a]
         /\ Append(c, i)[Len(c) + 1] = i
OBVIOUS

(* Whether a slot is held at a depends on the code before a only.          *)
LEMMA HeldBelow ==
  ASSUME NEW c \in Seq(Codes), NEW d \in Seq(Codes), NEW a \in Nat, Len(c) + 1 >= a, Len(d) + 1 >= a,
         \A b \in 1 .. a - 1 : d[b].op = c[b].op /\ d[b].id = c[b].id,
         NEW id
  PROVE  HeldAt(c, a, id) <=> HeldAt(d, a, id)
<1>1. \A b \in 1 .. a - 1 : \A k \in b + 1 .. a - 1 : k \in 1 .. a - 1
  OBVIOUS
<1>2. ASSUME HeldAt(c, a, id) PROVE HeldAt(d, a, id)
  <2>1. PICK b \in 1 .. a - 1 : /\ c[b].op = "alloc" /\ c[b].id = id
                                /\ \A k \in b + 1 .. a - 1 : ~(c[k].op = "free" /\ c[k].id = id)
    BY <1>2 DEF HeldAt
  <2>2. \A k \in b + 1 .. a - 1 : ~(d[k].op = "free" /\ d[k].id = id)
    BY <1>1, <2>1
  <2> QED BY <2>1, <2>2 DEF HeldAt
<1>3. ASSUME HeldAt(d, a, id) PROVE HeldAt(c, a, id)
  <2>1. PICK b \in 1 .. a - 1 : /\ d[b].op = "alloc" /\ d[b].id = id
                                /\ \A k \in b + 1 .. a - 1 : ~(d[k].op = "free" /\ d[k].id = id)
    BY <1>3 DEF HeldAt
  <2>2. \A k \in b + 1 .. a - 1 : ~(c[k].op = "free" /\ c[k].id = id)
    BY <1>1, <2>1
  <2> QED BY <2>1, <2>2 DEF HeldAt
<1> QED BY <1>2, <1>3

LEMMA HeldOneMore ==
  ASSUME NEW c \in Seq(Codes), NEW i \in Codes, NEW id
  PROVE  /\ Held(c, id) /\ ~(i.op = "free" /\ i.id = id) => Held(Append(c, i), id)
         /\ i.op = "alloc" /\ i.id = id => Held(Append(c, i), id)
<1> DEFINE d == Append(c, i)
<1>1. /\ d \in Seq(Codes) /\ Len(d) = Len(c) + 1 /\ Len(c) \in Nat
      /\ \A a \in 1 .. Len(c) : d[a] = c[a]
      /\ d[Len(c) + 1] = i
  BY AppendCode
<1> HIDE DEF d
<1>2. ASSUME Held(c, id), ~(i.op = "free" /\ i.id = id) PROVE Held(d, id)
  <2>1. PICK b \in 1 .. Len(c) : /\ c[b].op = "alloc" /\ c[b].id = id
                                 /\ \A k \in b + 1 .. Len(c) : ~(c[k].op = "free" /\ c[k].id = id)
    BY <1>2, <1>1 DEF Held, HeldAt
  <2>2. \A k \in b + 1 .. Len(c) + 1 : ~(d[k].op = "free" /\ d[k].id = id)
    BY <1>1, <1>2, <2>1
  <2> QED BY <1>1, <2>1, <2>2 DEF Held, HeldAt
<1>3. ASSUME i.op = "alloc", i.id = id PROVE Held(d, id)
  BY <1>1, <1>3 DEF Held, HeldAt
<1> QED BY <1>2, <1>3 DEF d

(* An instruction that may be added, with what is alive after it.          *)
Fits(c, R, A, h, i, y) ==
  /\ i \in Codes /\ i.op \notin {"jump", "branch", "ret", "label", "resolve"} /\ y \in SUBSET Nat
  /\ Len(c) + 1 \in R =>
       /\ Follows(i, A[Len(c) + 1], y, h)
       /\ i.op = "free" => i.id \notin A[Len(c) + 1]
       /\ i.op \in {"dtor", "use"} /\ Exact(h) => i.id \in A[Len(c) + 1]
       /\ i.op = "construct" /\ "early" \notin h => i.id \notin y \/ Held(c, i.id)

FlowAdded(c, R, A, h, i, y, S, B) ==
  /\ Flowing(Append(c, i), S, B, h)
  /\ \A l : Continues(c, R, A, l, Append(c, i), S, B)
  /\ Len(c) + 2 \in S <=> Len(c) + 1 \in R
  /\ B[Len(c) + 2] = y

(* The annotations of code to which an instruction is added that neither   *)
(* jumps nor is a label.                                                   *)
LEMMA FlowAppend ==
  ASSUME NEW c, NEW R, NEW A, NEW h, Flowing(c, R, A, h), NEW i, NEW y, Fits(c, R, A, h, i, y)
  PROVE  \E S, B : FlowAdded(c, R, A, h, i, y, S, B)
<1> SUFFICES ASSUME i \in Codes, i.op \notin {"jump", "branch", "ret", "label", "resolve"},
                    y \in SUBSET Nat,
                    Len(c) + 1 \in R =>
                      /\ Follows(i, A[Len(c) + 1], y, h)
                      /\ i.op = "free" => i.id \notin A[Len(c) + 1]
                      /\ i.op \in {"dtor", "use"} /\ Exact(h) => i.id \in A[Len(c) + 1]
                      /\ i.op = "construct" /\ "early" \notin h => i.id \notin y \/ Held(c, i.id)
             PROVE  \E S, B : /\ Flowing(Append(c, i), S, B, h)
                              /\ \A l : Continues(c, R, A, l, Append(c, i), S, B)
                              /\ Len(c) + 2 \in S <=> Len(c) + 1 \in R
                              /\ B[Len(c) + 2] = y
  BY DEF Fits, FlowAdded
<1> DEFINE m == Len(c)
           d == Append(c, i)
           R2 == IF m + 1 \in R THEN R \cup {m + 2} ELSE R
           A2 == [A EXCEPT ![m + 2] = y]
<1>1. /\ c \in Seq(Codes) /\ d \in Seq(Codes) /\ Len(d) = m + 1 /\ m \in Nat
      /\ \A a \in 1 .. m : d[a] = c[a]
      /\ d[m + 1] = i
  BY AppendCode DEF Flowing
<1>2. R \in SUBSET (1 .. m + 1) /\ A \in [Nat -> SUBSET Nat] /\ 1 \in R /\ A[1] = {}
  BY DEF Flowing
<1> HIDE DEF d
<1>3. /\ A2 \in [Nat -> SUBSET Nat] /\ A2[m + 2] = y
      /\ \A a \in 1 .. m + 1 : A2[a] = A[a]
  BY <1>1, <1>2
<1> HIDE DEF R2
<1>4. /\ R2 \in SUBSET (1 .. m + 2) /\ \A a \in 1 .. m + 1 : a \in R2 <=> a \in R
      /\ (m + 2 \in R2 <=> m + 1 \in R)
  <2> HIDE DEF m, A2
  <2>1. m + 2 \notin R /\ m + 2 \in 1 .. m + 2 /\ R \in SUBSET (1 .. m + 2)
    BY <1>1, <1>2
  <2>2. CASE m + 1 \in R
    <3>1. R2 = R \cup {m + 2}
      BY <2>2 DEF R2
    <3> QED BY <1>1, <2>1, <2>2, <3>1
  <2>3. CASE m + 1 \notin R
    <3>1. R2 = R
      BY <2>3 DEF R2
    <3> QED BY <1>1, <2>1, <2>3, <3>1
  <2> QED BY <2>2, <2>3
<1> HIDE DEF A2
<1>5. ASSUME NEW a \in R2, "early" \notin h, NEW id \in A2[a] PROVE HeldAt(d, a, id)
  <2>1. CASE a \in 1 .. m + 1
    <3>1. a \in R /\ id \in A[a] /\ a \in Nat
      BY <1>1, <1>3, <1>4, <1>5, <2>1
    <3>2. HeldAt(c, a, id)
      BY <1>5, <3>1 DEF Flowing, AliveHeld
    <3>3. \A b \in 1 .. a - 1 : d[b] = c[b]
      BY <1>1, <2>1
    <3>4. Len(c) + 1 >= a /\ Len(d) + 1 >= a
      BY <1>1, <2>1
    <3> QED BY <1>1, <3>1, <3>2, <3>3, <3>4, HeldBelow
  <2>2. CASE a = m + 2
    <3>1. m + 1 \in R /\ id \in y /\ Follows(i, A[m + 1], y, h)
      BY <1>3, <1>4, <1>5, <2>2
    <3>2. id \in A[m + 1] \/ (i.op = "construct" /\ i.id = id)
      BY <3>1 DEF Follows, After
    <3>3. i.op = "free" => i.id # id
      BY <3>1, <3>2
    <3>4. ASSUME id \in A[m + 1] PROVE Held(c, id)
      BY <1>5, <3>1, <3>4, <1>1 DEF Flowing, AliveHeld, Held
    <3>5. Held(c, id)
      BY <1>5, <3>1, <3>2, <3>4
    <3>6. Held(d, id)
      BY <1>1, <3>3, <3>5, HeldOneMore DEF d
    <3>7. Len(d) + 1 = m + 2
      BY <1>1
    <3> QED BY <2>2, <3>6, <3>7 DEF Held
  <2> QED BY <1>1, <1>4, <2>1, <2>2
<1>6. ASSUME NEW a \in R2, a \in 1 .. m + 1 PROVE Flow(d, R2, A2, h, a)
  <2>1. CASE a \in 1 .. m
    <3>1. a \in R /\ d[a] = c[a] /\ A2[a] = A[a] /\ A2[a + 1] = A[a + 1]
          /\ (a + 1 \in R2 <=> a + 1 \in R)
      BY <1>1, <1>3, <1>4, <2>1
    <3>2. Flow(c, R, A, h, a)
      BY <2>1, <3>1 DEF Flowing
    <3>3. ASSUME c[a].op \in Jumps, NEW n \in 1 .. Len(c[a].to), NEW b \in 1 .. m + 1, IsLabel(d[b], c[a].to[n])
          PROVE  b \in R2 /\ Carries(A2[a], A2[b], h)
      <4>1. b # m + 1
        BY <1>1, <3>3 DEF IsLabel
      <4>2. b \in 1 .. m /\ d[b] = c[b]
        BY <1>1, <4>1
      <4>3. b \in R /\ Carries(A[a], A[b], h)
        BY <3>2, <3>3, <4>2 DEF Flow
      <4> QED BY <1>3, <1>4, <3>1, <4>2, <4>3
    <3> QED BY <1>1, <3>1, <3>2, <3>3 DEF Flow
  <2>2. CASE a = m + 1
    <3>1. a \in R /\ d[a] = i /\ A2[a] = A[m + 1] /\ A2[a + 1] = y /\ a + 1 \in R2
      <4>1. a + 1 = m + 2
        BY <1>1, <2>2
      <4> QED BY <1>1, <1>3, <1>4, <1>6, <2>2, <4>1
    <3>2. i.op \notin Jumps \cup {"ret"} /\ i.op # "resolve"
      BY DEF Jumps
    <3> QED BY <2>2, <3>1, <3>2 DEF Flow
  <2> QED BY <1>1, <1>6, <2>1, <2>2
<1>7. ~Stops(d)
  BY <1>1 DEF Stops, Jumps
<1>8. 1 \in R2 /\ A2[1] = {}
  BY <1>1, <1>2, <1>3, <1>4
<1>9. Flowing(d, R2, A2, h)
  <2>1. \A a \in R2 : AliveHeld(d, A2, h, a)
    BY <1>5 DEF AliveHeld
  <2>2. R2 \in SUBSET (1 .. Len(d) + 1)
    BY <1>1, <1>4
  <2> QED BY <1>1, <1>3, <1>6, <1>7, <1>8, <2>1, <2>2 DEF Flowing
<1>10. \A l : Continues(c, R, A, l, d, R2, A2)
  <2>1. \A a \in 1 .. m : /\ d[a].op = c[a].op /\ d[a].to = c[a].to
                          /\ (a \in R2 <=> a \in R) /\ A2[a] = A[a]
    BY <1>1, <1>3, <1>4
  <2>2. \A b \in m + 1 .. m + 1 : \A k : ~IsLabel(d[b], k)
    BY <1>1 DEF IsLabel
  <2>3. m <= m + 1
    BY <1>1
  <2> QED BY <1>1, <2>1, <2>2, <2>3 DEF Continues
<1> QED BY <1>3, <1>4, <1>9, <1>10 DEF d, m

(* A jump whose known targets are reached with what is alive here, or a    *)
(* return with nothing alive.                                              *)
Leaps(c, R, A, h, i) ==
  /\ i \in Codes /\ i.op \in Jumps \cup {"ret"}
  /\ Len(c) + 1 \in R /\ i.op = "ret" => A[Len(c) + 1] = {}
  /\ Len(c) + 1 \in R /\ i.op \in Jumps =>
       \A n \in 1 .. Len(i.to), b \in 1 .. Len(c) :
         IsLabel(c[b], i.to[n]) => b \in R /\ Carries(A[Len(c) + 1], A[b], h)

(* The annotations of code to which a jump or a return is added.           *)
LEMMA FlowJump ==
  ASSUME NEW c, NEW R, NEW A, NEW h, Flowing(c, R, A, h), NEW i, Leaps(c, R, A, h, i)
  PROVE  Flowing(Append(c, i), R, A, h) /\ \A l : Continues(c, R, A, l, Append(c, i), R, A)
<1> SUFFICES ASSUME i \in Codes, i.op \in Jumps \cup {"ret"},
                    Len(c) + 1 \in R /\ i.op = "ret" => A[Len(c) + 1] = {},
                    Len(c) + 1 \in R /\ i.op \in Jumps =>
                      \A n \in 1 .. Len(i.to), b \in 1 .. Len(c) :
                        IsLabel(c[b], i.to[n]) => b \in R /\ Carries(A[Len(c) + 1], A[b], h)
             PROVE  Flowing(Append(c, i), R, A, h) /\ \A l : Continues(c, R, A, l, Append(c, i), R, A)
  BY DEF Leaps
<1> DEFINE m == Len(c)
           d == Append(c, i)
<1>1. /\ c \in Seq(Codes) /\ d \in Seq(Codes) /\ Len(d) = m + 1 /\ m \in Nat
      /\ \A a \in 1 .. m : d[a] = c[a]
      /\ d[m + 1] = i
  BY AppendCode DEF Flowing
<1>2. R \in SUBSET (1 .. m + 1) /\ A \in [Nat -> SUBSET Nat] /\ 1 \in R /\ A[1] = {}
  BY DEF Flowing
<1> HIDE DEF d
<1>3. ASSUME NEW a \in R, "early" \notin h, NEW id \in A[a] PROVE HeldAt(d, a, id)
  <2>1. a \in Nat /\ HeldAt(c, a, id)
    BY <1>1, <1>2, <1>3 DEF Flowing, AliveHeld
  <2>2. \A b \in 1 .. a - 1 : d[b] = c[b]
    BY <1>1, <1>2
  <2>3. Len(c) + 1 >= a /\ Len(d) + 1 >= a
    BY <1>1, <1>2
  <2> QED BY <1>1, <2>1, <2>2, <2>3, HeldBelow
<1>4. ASSUME NEW a \in R PROVE Flow(d, R, A, h, a)
  <2>1. CASE a \in 1 .. m
    <3>1. d[a] = c[a] /\ Flow(c, R, A, h, a)
      BY <1>1, <2>1 DEF Flowing
    <3>2. ASSUME c[a].op \in Jumps, NEW n \in 1 .. Len(c[a].to), NEW b \in 1 .. m + 1, IsLabel(d[b], c[a].to[n])
          PROVE  b \in R /\ Carries(A[a], A[b], h)
      <4>1. b # m + 1
        BY <1>1, <3>2 DEF IsLabel, Jumps
      <4>2. b \in 1 .. m /\ d[b] = c[b]
        BY <1>1, <4>1
      <4> QED BY <3>1, <3>2, <4>2 DEF Flow
    <3> QED BY <1>1, <3>1, <3>2 DEF Flow
  <2>2. CASE a = m + 1
    <3>1. d[a] = i /\ m + 1 \in R /\ (i.op = "ret" => A[a] = {})
      BY <1>1, <2>2
    <3>2. ASSUME i.op \in Jumps, NEW n \in 1 .. Len(i.to), NEW b \in 1 .. m + 1, IsLabel(d[b], i.to[n])
          PROVE  b \in R /\ Carries(A[a], A[b], h)
      <4>1. b # m + 1
        BY <1>1, <3>2 DEF IsLabel, Jumps
      <4>2. b \in 1 .. m /\ d[b] = c[b]
        BY <1>1, <4>1
      <4> QED BY <2>2, <3>1, <3>2, <4>2
    <3>3. i.op \notin {"free", "dtor", "use", "resolve"}
      BY DEF Jumps
    <3> QED BY <1>1, <3>1, <3>2, <3>3 DEF Flow
  <2> QED BY <1>1, <1>2, <2>1, <2>2
<1>5. m + 2 \notin R /\ Len(d) + 1 = m + 2
  BY <1>1, <1>2
<1>6. Flowing(d, R, A, h)
  <2>1. \A a \in R : AliveHeld(d, A, h, a)
    BY <1>3 DEF AliveHeld
  <2>2. R \in SUBSET (1 .. Len(d) + 1)
    BY <1>1, <1>2
  <2> QED BY <1>1, <1>2, <1>4, <1>5, <2>1, <2>2 DEF Flowing
<1>7. \A l : Continues(c, R, A, l, d, R, A)
  <2>1. \A a \in 1 .. m : d[a].op = c[a].op /\ d[a].to = c[a].to
    BY <1>1
  <2>2. \A b \in m + 1 .. m + 1 : \A k : ~IsLabel(d[b], k)
    BY <1>1 DEF IsLabel, Jumps
  <2>3. m <= m + 1
    BY <1>1
  <2> QED BY <1>1, <2>1, <2>2, <2>3 DEF Continues
<1> QED BY <1>6, <1>7 DEF d

LEMMA LabelsDiffer ==
  ASSUME NEW i, NEW k, NEW l, IsLabel(i, k), IsLabel(i, l)
  PROVE  k = l
<1>1. <<k>> = <<l>>
  BY DEF IsLabel
<1> QED BY <1>1

(* A label is emitted, and the jumps at some addresses are completed: what *)
(* is alive behind the label is what was alive at each of them.            *)
Completed(c, at, l) == [a \in DOMAIN c |-> IF a \in at THEN target(c[a], l) ELSE c[a]]

LEMMA CompletedTypes ==
  ASSUME NEW c \in Seq(Codes), NEW at, NEW l \in Nat
  PROVE  LET d == Completed(c, at, l)
         IN  /\ d \in Seq(Codes) /\ Len(d) = Len(c) /\ Len(c) \in Nat
             /\ \A a \in 1 .. Len(c) :
                  /\ d[a].op = c[a].op /\ d[a].id = c[a].id
                  /\ a \notin at => d[a] = c[a]
                  /\ a \in at => d[a].to = Append(c[a].to, l)
<1>1. ASSUME NEW i \in Codes
      PROVE  LET j == target(i, l)
             IN  j \in Codes /\ j.op = i.op /\ j.id = i.id /\ j.to = Append(i.to, l)
  <2>1. i.to \in Seq(Nat)
    BY DEF Codes
  <2>2. Append(i.to, l) \in Seq(Nat)
    BY <2>1
  <2> QED BY <2>2 DEF target, Codes
<1>2. Len(c) \in Nat /\ DOMAIN c = 1 .. Len(c) /\ \A a \in 1 .. Len(c) : c[a] \in Codes
  OBVIOUS
<1> DEFINE d == Completed(c, at, l)
<1>3. \A a \in 1 .. Len(c) : d[a] = IF a \in at THEN target(c[a], l) ELSE c[a]
  BY <1>2 DEF Completed
<1>4. DOMAIN d = 1 .. Len(c)
  BY <1>2 DEF Completed
<1>5. \A a \in 1 .. Len(c) : d[a] \in Codes
  BY <1>1, <1>2, <1>3
<1>6. d \in [1 .. Len(c) -> Codes]
  BY <1>2, <1>5 DEF Completed
<1>7. d \in Seq(Codes) /\ Len(d) = Len(c)
  BY <1>2, <1>6
<1> HIDE DEF d
<1>8. \A a \in 1 .. Len(c) :
        /\ d[a].op = c[a].op /\ d[a].id = c[a].id
        /\ a \notin at => d[a] = c[a]
        /\ a \in at => d[a].to = Append(c[a].to, l)
  BY <1>1, <1>2, <1>3
<1> QED BY <1>2, <1>7, <1>8 DEF d

(* Jumps to complete and a label i behind which x is alive.                *)
Lands(c, R, A, h, l, at, i, reach, x) ==
  /\ l \in Nat /\ Closed(c, l) /\ i \in Codes /\ IsLabel(i, l)
  /\ reach \in BOOLEAN /\ x \in SUBSET Nat
  /\ Len(c) + 1 \in R => reach /\ A[Len(c) + 1] = x
  /\ \A p \in at : /\ p \in 1 .. Len(c) /\ c[p].op \in Jumps
                   /\ p \in R => reach /\ Carries(A[p], x, h)
  /\ reach /\ "early" \notin h => \A id \in x : Held(c, id)

FlowLabelled(c, R, A, h, l, at, i, reach, x, S, B) ==
  /\ Flowing(Append(Completed(c, at, l), i), S, B, h)
  /\ Continues(c, R, A, l, Append(Completed(c, at, l), i), S, B)
  /\ Len(c) + 2 \in S => reach
  /\ B[Len(c) + 2] = x
  /\ reach => Len(c) + 1 \in S
  /\ B[Len(c) + 1] = x

LEMMA FlowLabel ==
  ASSUME NEW c, NEW R, NEW A, NEW h, Flowing(c, R, A, h), NEW l, NEW at, NEW i, NEW reach, NEW x,
         Lands(c, R, A, h, l, at, i, reach, x)
  PROVE  \E S, B : FlowLabelled(c, R, A, h, l, at, i, reach, x, S, B)
<1> SUFFICES ASSUME l \in Nat, Closed(c, l), i \in Codes, IsLabel(i, l),
                    reach \in BOOLEAN, x \in SUBSET Nat,
                    Len(c) + 1 \in R => reach /\ A[Len(c) + 1] = x,
                    \A p \in at : /\ p \in 1 .. Len(c) /\ c[p].op \in Jumps
                                  /\ p \in R => reach /\ Carries(A[p], x, h),
                    reach /\ "early" \notin h => \A id \in x : Held(c, id)
             PROVE  \E S, B : /\ Flowing(Append(Completed(c, at, l), i), S, B, h)
                              /\ Continues(c, R, A, l, Append(Completed(c, at, l), i), S, B)
                              /\ Len(c) + 2 \in S => reach
                              /\ B[Len(c) + 2] = x
                              /\ reach => Len(c) + 1 \in S
                              /\ B[Len(c) + 1] = x
  BY DEF Lands, FlowLabelled
<1> DEFINE m == Len(c)
           d == Completed(c, at, l)
           e == Append(d, i)
           R2 == IF reach THEN R \cup {m + 1, m + 2} ELSE R
           A2 == [A EXCEPT ![m + 1] = x, ![m + 2] = x]
<1>1. /\ c \in Seq(Codes) /\ d \in Seq(Codes) /\ Len(d) = m /\ m \in Nat
      /\ \A a \in 1 .. m : /\ d[a].op = c[a].op /\ d[a].id = c[a].id
                           /\ a \notin at => d[a] = c[a]
                           /\ a \in at => d[a].to = Append(c[a].to, l)
  BY CompletedTypes DEF Flowing
<1> HIDE DEF d
<1>2. /\ e \in Seq(Codes) /\ Len(e) = m + 1 /\ e[m + 1] = i
      /\ \A a \in 1 .. m : e[a] = d[a]
  BY <1>1, AppendCode
<1> HIDE DEF e
<1>3. R \in SUBSET (1 .. m + 1) /\ A \in [Nat -> SUBSET Nat] /\ 1 \in R /\ A[1] = {}
  BY DEF Flowing
<1>4. /\ A2 \in [Nat -> SUBSET Nat] /\ A2[m + 1] = x /\ A2[m + 2] = x
      /\ \A a \in 1 .. m : A2[a] = A[a]
  <2> DEFINE B == [A EXCEPT ![m + 1] = x]
  <2> HIDE DEF m
  <2>1. m + 1 \in Nat /\ m + 2 \in Nat /\ m + 1 # m + 2
        /\ \A a \in 1 .. m : a \in Nat /\ a # m + 1 /\ a # m + 2
    BY <1>1
  <2>2. B \in [Nat -> SUBSET Nat] /\ B[m + 1] = x /\ \A a \in Nat : a # m + 1 => B[a] = A[a]
    BY <1>3, <2>1
  <2>3. A2 = [B EXCEPT ![m + 2] = x]
    OBVIOUS
  <2> HIDE DEF B, A2
  <2>4. A2 \in [Nat -> SUBSET Nat] /\ A2[m + 2] = x /\ \A a \in Nat : a # m + 2 => A2[a] = B[a]
    BY <2>1, <2>2, <2>3
  <2> QED BY <2>1, <2>2, <2>4
<1> HIDE DEF A2
<1> HIDE DEF R2
<1>5. /\ R2 \in SUBSET (1 .. m + 2) /\ (\A a \in 1 .. m : a \in R2 <=> a \in R)
      /\ (m + 1 \in R2 <=> reach) /\ (m + 2 \in R2 <=> reach)
  <2> HIDE DEF m
  <2>1. R \in SUBSET (1 .. m + 2) /\ m + 1 \in 1 .. m + 2 /\ m + 2 \in 1 .. m + 2 /\ m + 2 \notin R
    BY <1>1, <1>3
  <2>2. \A a \in 1 .. m : a # m + 1 /\ a # m + 2
    BY <1>1
  <2>3. CASE reach
    <3>1. R2 = R \cup {m + 1, m + 2}
      BY <2>3 DEF R2
    <3> QED BY <2>1, <2>2, <2>3, <3>1
  <2>4. CASE ~reach
    <3>1. R2 = R /\ m + 1 \notin R
      BY <2>4 DEF R2, m
    <3> QED BY <2>1, <2>2, <2>4, <3>1
  <2> QED BY <2>3, <2>4
<1>6. ASSUME NEW a \in R2, "early" \notin h, NEW id \in A2[a] PROVE HeldAt(e, a, id)
  <2>1. CASE a \in 1 .. m
    <3>1. a \in R /\ id \in A[a] /\ a \in Nat
      BY <1>4, <1>5, <1>6, <2>1
    <3>2. HeldAt(c, a, id)
      BY <1>6, <3>1 DEF Flowing, AliveHeld
    <3>3. \A b \in 1 .. a - 1 : e[b].op = c[b].op /\ e[b].id = c[b].id
      BY <1>1, <1>2, <2>1
    <3>4. Len(c) + 1 >= a /\ Len(e) + 1 >= a
      BY <1>1, <1>2, <2>1
    <3> QED BY <1>1, <1>2, <3>1, <3>2, <3>3, <3>4, HeldBelow
  <2>2. CASE a \in {m + 1, m + 2}
    <3>1. reach /\ id \in x
      BY <1>4, <1>5, <1>6, <2>2
    <3>2. Held(c, id)
      BY <1>6, <3>1
    <3>3. HeldAt(c, m + 1, id)
      BY <3>2 DEF Held
    <3>4. HeldAt(e, m + 1, id)
      <4>1. \A b \in 1 .. (m + 1) - 1 : e[b].op = c[b].op /\ e[b].id = c[b].id
        BY <1>1, <1>2
      <4>2. m + 1 \in Nat /\ Len(c) + 1 >= m + 1 /\ Len(e) + 1 >= m + 1
        BY <1>1, <1>2
      <4> QED BY <1>1, <1>2, <3>3, <4>1, <4>2, HeldBelow
    <3>5. HeldAt(d, m + 1, id)
      <4>1. \A b \in 1 .. (m + 1) - 1 : d[b].op = c[b].op /\ d[b].id = c[b].id
        BY <1>1
      <4>2. m + 1 \in Nat /\ Len(c) + 1 >= m + 1 /\ Len(d) + 1 >= m + 1
        BY <1>1
      <4> QED BY <1>1, <3>3, <4>1, <4>2, HeldBelow
    <3>6. HeldAt(e, m + 2, id)
      <4>1. Held(d, id) /\ i.op # "free"
        BY <1>1, <3>5 DEF Held, IsLabel
      <4>2. Held(e, id)
        BY <1>1, <4>1, HeldOneMore DEF e
      <4>3. Len(e) + 1 = m + 2
        BY <1>1, <1>2
      <4> QED BY <4>2, <4>3 DEF Held
    <3> QED BY <2>2, <3>4, <3>6
  <2> QED BY <1>1, <1>5, <2>1, <2>2
<1>7. ASSUME NEW a \in R2, a \in 1 .. m + 1 PROVE Flow(e, R2, A2, h, a)
  <2>1. CASE a \in 1 .. m
    <3>1. /\ a \in R /\ e[a] = d[a] /\ A2[a] = A[a] /\ Flow(c, R, A, h, a)
          /\ e[a].op = c[a].op /\ e[a].id = c[a].id
      BY <1>1, <1>2, <1>4, <1>5, <2>1 DEF Flowing
    <3>2. ASSUME c[a].op \notin Jumps \cup {"ret"}
          PROVE  a + 1 \in R2 /\ Follows(e[a], A2[a], A2[a + 1], h)
      <4>1. a + 1 \in R /\ Follows(c[a], A[a], A[a + 1], h)
        BY <3>1, <3>2 DEF Flow
      <4>2. a + 1 \in R2 /\ A2[a + 1] = A[a + 1]
        <5>1. CASE a + 1 \in 1 .. m
          BY <1>4, <1>5, <4>1, <5>1
        <5>2. CASE a + 1 = m + 1
          BY <1>4, <1>5, <4>1, <5>2
        <5> QED BY <1>1, <2>1, <5>1, <5>2
      <4> QED BY <3>1, <4>1, <4>2 DEF Follows, After
    <3>3. ASSUME c[a].op \in Jumps, NEW n \in 1 .. Len(e[a].to), NEW b \in 1 .. m + 1, IsLabel(e[b], e[a].to[n])
          PROVE  b \in R2 /\ Carries(A2[a], A2[b], h)
      <4>1. c[a].to \in Seq(Nat) /\ Len(c[a].to) \in Nat
        <5>1. c[a] \in Codes
          BY <1>1, <2>1
        <5>2. c[a].to \in Seq(Nat)
          BY <5>1 DEF Codes
        <5> QED BY <5>2
      <4>2. CASE n \in 1 .. Len(c[a].to) /\ e[a].to[n] = c[a].to[n]
        <5>1. c[a].to[n] \in 1 .. l - 1
          BY <2>1, <3>3, <4>2 DEF Closed
        <5>2. b # m + 1
          <6>1. ~IsLabel(i, c[a].to[n])
            BY <5>1, LabelsDiffer
          <6> QED BY <1>2, <3>3, <4>2, <6>1
        <5>3. b \in 1 .. m /\ e[b] = d[b] /\ d[b].op = "label"
          BY <1>1, <1>2, <3>3, <5>2 DEF IsLabel
        <5>4. e[b] = c[b]
          <6>1. b \notin at
            BY <1>1, <5>3 DEF Jumps
          <6> QED BY <1>1, <5>3, <6>1
        <5>5. b \in R /\ Carries(A[a], A[b], h)
          BY <3>1, <3>3, <4>2, <5>3, <5>4 DEF Flow
        <5> QED BY <1>4, <1>5, <3>1, <5>3, <5>5
      <4>3. CASE a \in at /\ e[a].to[n] = l
        <5>1. reach /\ Carries(A[a], x, h)
          BY <3>1, <4>3
        <5>2. CASE b = m + 1
          BY <1>4, <1>5, <3>1, <5>1, <5>2
        <5>3. CASE b # m + 1
          <6>1. b \in 1 .. m /\ e[b] = d[b] /\ IsLabel(d[b], l)
            BY <1>1, <1>2, <3>3, <4>3, <5>3
          <6>2. b \notin at
            BY <1>1, <6>1 DEF Jumps, IsLabel
          <6>3. IsLabel(c[b], l)
            BY <1>1, <6>1, <6>2
          <6>4. c[b].to = <<l>> /\ c[b].op = "label"
            BY <6>3 DEF IsLabel
          <6>5. 1 \in 1 .. Len(c[b].to) /\ c[b].to[1] = l
            BY <6>4
          <6>6. l \in 1 .. l - 1
            BY <6>1, <6>4, <6>5 DEF Closed
          <6> QED BY <6>6
        <5> QED BY <5>2, <5>3
      <4>4. CASE a \notin at
        BY <1>1, <2>1, <3>1, <3>3, <4>2, <4>4
      <4>5. CASE a \in at
        <5>1. e[a].to = Append(c[a].to, l)
          BY <1>1, <2>1, <3>1, <4>5
        <5>2. n \in 1 .. Len(c[a].to) + 1
          BY <3>3, <4>1, <5>1
        <5>3. CASE n = Len(c[a].to) + 1
          BY <4>1, <4>3, <4>5, <5>1, <5>3
        <5>4. CASE n # Len(c[a].to) + 1
          BY <4>1, <4>2, <5>1, <5>2, <5>4
        <5> QED BY <5>3, <5>4
      <4> QED BY <4>4, <4>5
    <3> QED BY <1>2, <3>1, <3>2, <3>3 DEF Flow
  <2>2. CASE a = m + 1
    <3>1. e[a] = i /\ A2[a] = x /\ A2[a + 1] = x /\ a + 1 \in R2 /\ i.op = "label"
      <4>1. a + 1 = m + 2
        BY <1>1, <2>2
      <4> QED BY <1>2, <1>4, <1>5, <1>7, <2>2, <4>1 DEF IsLabel
    <3> QED BY <3>1 DEF Flow, Follows, After, Jumps
  <2> QED BY <1>1, <1>7, <2>1, <2>2
<1>8. ~Stops(e)
  BY <1>2 DEF Stops, Jumps, IsLabel
<1>9. 1 \in R2 /\ A2[1] = {}
  <2>1. CASE m = 0
    BY <1>3, <1>4, <1>5, <2>1
  <2>2. CASE m # 0
    BY <1>1, <1>3, <1>4, <1>5, <2>2
  <2> QED BY <2>1, <2>2
<1>10. Flowing(e, R2, A2, h)
  <2>1. \A a \in R2 : AliveHeld(e, A2, h, a)
    BY <1>6 DEF AliveHeld
  <2>2. R2 \in SUBSET (1 .. Len(e) + 1)
    BY <1>1, <1>2, <1>5
  <2> QED BY <1>2, <1>4, <1>7, <1>8, <1>9, <2>1, <2>2 DEF Flowing
<1>11. Continues(c, R, A, l, e, R2, A2)
  <2>1. ASSUME NEW a \in 1 .. m, e[a].op = "label" PROVE e[a].to = c[a].to
    <3>1. c[a].op = "label"
      BY <1>1, <1>2, <2>1
    <3>2. a \notin at
      BY <3>1 DEF Jumps
    <3> QED BY <1>1, <1>2, <3>2
  <2>2. \A a \in 1 .. m : e[a].op = c[a].op /\ (a \in R2 <=> a \in R) /\ A2[a] = A[a]
    BY <1>1, <1>2, <1>4, <1>5
  <2>3. ASSUME NEW b \in m + 1 .. m + 1, NEW k, IsLabel(e[b], k) PROVE k >= l
    <3>1. IsLabel(i, k)
      BY <1>1, <1>2, <2>3
    <3>2. k = l
      BY <3>1, LabelsDiffer
    <3> QED BY <3>2
  <2>4. m <= m + 1
    BY <1>1
  <2> QED BY <1>2, <2>1, <2>2, <2>3, <2>4 DEF Continues
<1> QED BY <1>4, <1>5, <1>10, <1>11 DEF d, e, m

-----------------------------------------------------------------------------
(* Code that destroys: a slot is freed right after its object is destroyed. *)

Destroying(r) ==
  /\ r \in Seq(Codes)
  /\ \A k \in 1 .. Len(r) :
       /\ r[k].op \in {"dtor", "free"}
       /\ r[k].op = "free" => k > 1 /\ r[k - 1].op = "dtor" /\ r[k - 1].id = r[k].id

(* What the first k instructions destroy.                                  *)
Destroyed(r, k) == {id \in Nat : \E j \in 1 .. k : r[j].op = "dtor" /\ r[j].id = id}

(* Every object once.                                                      *)
Once(r) == \A j, k \in 1 .. Len(r) : r[j].op = "dtor" /\ r[k].op = "dtor" /\ r[j].id = r[k].id => j = k

(* Code that may follow: what it destroys is alive.                        *)
Unwinds(c, R, A, h, r) ==
  Destroying(r) /\ (Len(c) + 1 \in R /\ Exact(h) => Once(r) /\ Destroyed(r, Len(r)) \subseteq A[Len(c) + 1])

FlowUnwound(c, R, A, h, r, S, B) ==
  /\ Flowing(c \o r, S, B, h)
  /\ \A l : Continues(c, R, A, l, c \o r, S, B)
  /\ Len(c \o r) + 1 \in S <=> Len(c) + 1 \in R
  /\ B[Len(c \o r) + 1] = A[Len(c) + 1] \ Destroyed(r, Len(r))

LEMMA FlowUnwind ==
  ASSUME NEW c, NEW R, NEW A, NEW h, Flowing(c, R, A, h), NEW r, Unwinds(c, R, A, h, r)
  PROVE  \E S, B : FlowUnwound(c, R, A, h, r, S, B)
<1> SUFFICES ASSUME Destroying(r),
                    Len(c) + 1 \in R /\ Exact(h) => Once(r) /\ Destroyed(r, Len(r)) \subseteq A[Len(c) + 1]
             PROVE  \E S, B : /\ Flowing(c \o r, S, B, h)
                              /\ \A l : Continues(c, R, A, l, c \o r, S, B)
                              /\ Len(c \o r) + 1 \in S <=> Len(c) + 1 \in R
                              /\ B[Len(c \o r) + 1] = A[Len(c) + 1] \ Destroyed(r, Len(r))
  BY DEF Unwinds, FlowUnwound
<1> DEFINE m == Len(c)
           n == Len(r)
           e == c \o r
           R2 == IF m + 1 \in R THEN R \cup (m + 1 .. m + 1 + n) ELSE R
           A2 == [a \in Nat |-> IF a <= m + 1 THEN A[a] ELSE A[m + 1] \ Destroyed(r, a - (m + 1))]
<1>1. /\ c \in Seq(Codes) /\ r \in Seq(Codes) /\ e \in Seq(Codes) /\ m \in Nat /\ n \in Nat
      /\ Len(e) = m + n
      /\ \A a \in 1 .. m : e[a] = c[a]
      /\ \A k \in 1 .. n : e[m + k] = r[k] /\ r[k] \in Codes
  <2>1. c \in Seq(Codes) /\ r \in Seq(Codes)
    BY DEF Flowing, Destroying
  <2>2. /\ e \in Seq(Codes) /\ Len(e) = m + n
        /\ \A a \in 1 .. m + n : e[a] = IF a <= m THEN c[a] ELSE r[a - m]
    BY <2>1, ConcatProperties
  <2>3. m \in Nat /\ n \in Nat /\ \A k \in 1 .. n : r[k] \in Codes
    BY <2>1
  <2> HIDE DEF e, m, n
  <2>4. \A a \in 1 .. m : a \in 1 .. m + n /\ a <= m
    BY <2>3
  <2>5. \A k \in 1 .. n : m + k \in 1 .. m + n /\ ~(m + k <= m) /\ (m + k) - m = k
    BY <2>3
  <2> QED BY <2>1, <2>2, <2>3, <2>4, <2>5
<1> HIDE DEF e
<1>2. R \in SUBSET (1 .. m + 1) /\ A \in [Nat -> SUBSET Nat] /\ 1 \in R /\ A[1] = {}
  BY DEF Flowing
<1>3. Destroyed(r, 0) = {} /\ \A k : Destroyed(r, k) \in SUBSET Nat
  BY DEF Destroyed
<1>4. /\ A2 \in [Nat -> SUBSET Nat]
      /\ \A a \in 1 .. m + 1 : A2[a] = A[a]
      /\ \A k \in 0 .. n : A2[m + 1 + k] = A[m + 1] \ Destroyed(r, k)
  <2> HIDE DEF m, n
  <2>1. \A a \in 1 .. m + 1 : a \in Nat /\ a <= m + 1
    BY <1>1
  <2>2. \A a \in Nat : A[a] \in SUBSET Nat
    BY <1>2
  <2>3. A[m + 1] \ Destroyed(r, 0) = A[m + 1]
    BY <1>3
  <2>4. ASSUME NEW k \in 0 .. n PROVE A2[m + 1 + k] = A[m + 1] \ Destroyed(r, k)
    <3>1. m + 1 + k \in Nat /\ (m + 1 + k) - (m + 1) = k
      BY <1>1
    <3>2. CASE k = 0
      BY <1>1, <2>3, <3>1, <3>2
    <3>3. CASE k # 0
      <4>1. ~(m + 1 + k <= m + 1)
        BY <1>1, <3>3
      <4> QED BY <3>1, <4>1
    <3> QED BY <3>2, <3>3
  <2>5. A2 \in [Nat -> SUBSET Nat]
    <3>1. m + 1 \in Nat
      BY <1>1
    <3> QED BY <2>2, <3>1
  <2> QED BY <2>1, <2>4, <2>5
<1> HIDE DEF A2
<1> HIDE DEF R2
<1>5. /\ R2 \in SUBSET (1 .. m + n + 1) /\ (\A a \in 1 .. m + 1 : a \in R2 <=> a \in R)
      /\ \A k \in 0 .. n : m + 1 + k \in R2 <=> m + 1 \in R
  <2> HIDE DEF m, n
  <2>1. R \in SUBSET (1 .. m + n + 1) /\ (m + 1 .. m + 1 + n) \in SUBSET (1 .. m + n + 1)
    BY <1>1, <1>2
  <2>2. \A a \in 1 .. m + 1 : a \in m + 1 .. m + 1 + n <=> a = m + 1
    BY <1>1
  <2>3. \A k \in 0 .. n : m + 1 + k \in m + 1 .. m + 1 + n
    BY <1>1
  <2>4. \A k \in 0 .. n : m + 1 + k \in R => k = 0
    BY <1>1, <1>2
  <2>5. CASE m + 1 \in R
    <3>1. R2 = R \cup (m + 1 .. m + 1 + n)
      BY <2>5 DEF R2, m, n
    <3> QED BY <2>1, <2>2, <2>3, <2>5, <3>1
  <2>6. CASE m + 1 \notin R
    <3>1. R2 = R
      BY <2>6 DEF R2, m, n
    <3>2. ASSUME NEW k \in 0 .. n PROVE m + 1 + k \notin R
      <4>1. CASE k = 0
        <5>1. m + 1 + k = m + 1
          BY <1>1, <4>1
        <5> QED BY <2>6, <5>1
      <4>2. CASE k # 0
        BY <2>4, <4>2
      <4> QED BY <4>1, <4>2
    <3> QED BY <2>1, <2>6, <3>1, <3>2
  <2> QED BY <2>5, <2>6
<1>6. \A a \in 1 .. m + n + 1 : a \in 1 .. m + 1 \/ \E k \in 1 .. n : a = m + 1 + k
  <2> HIDE DEF m, n
  <2> SUFFICES ASSUME NEW a \in 1 .. m + n + 1, a \notin 1 .. m + 1 PROVE \E k \in 1 .. n : a = m + 1 + k
    OBVIOUS
  <2>1. a - (m + 1) \in 1 .. n /\ a = m + 1 + (a - (m + 1))
    BY <1>1
  <2> QED BY <2>1
<1>7. ASSUME NEW a \in R2, "early" \notin h, NEW id \in A2[a] PROVE HeldAt(e, a, id)
  <2>1. CASE a \in 1 .. m + 1
    <3>1. a \in R /\ id \in A[a] /\ a \in Nat
      BY <1>1, <1>4, <1>5, <1>7, <2>1
    <3>2. HeldAt(c, a, id)
      BY <1>7, <3>1 DEF Flowing, AliveHeld
    <3>3. \A b \in 1 .. a - 1 : e[b] = c[b]
      BY <1>1, <2>1
    <3>4. Len(c) + 1 >= a /\ Len(e) + 1 >= a
      BY <1>1, <2>1
    <3> QED BY <1>1, <3>1, <3>2, <3>3, <3>4, HeldBelow
  <2>2. ASSUME NEW k \in 1 .. n, a = m + 1 + k PROVE HeldAt(e, a, id)
    <3>1. m + 1 \in R /\ id \in A[m + 1] /\ id \notin Destroyed(r, k) /\ k \in 0 .. n
      BY <1>4, <1>5, <1>7, <2>2
    <3>2. HeldAt(c, m + 1, id) /\ id \in Nat
      BY <1>1, <1>2, <1>7, <3>1 DEF Flowing, AliveHeld
    <3>3. PICK b \in 1 .. m : /\ c[b].op = "alloc" /\ c[b].id = id
                              /\ \A j \in b + 1 .. m : ~(c[j].op = "free" /\ c[j].id = id)
      BY <1>1, <3>2 DEF HeldAt
    <3>4. ASSUME NEW j \in b + 1 .. m + k, e[j].op = "free", e[j].id = id PROVE FALSE
      <4>1. CASE j \in 1 .. m
        <5>1. j \in b + 1 .. m
          BY <1>1, <3>3, <4>1
        <5>2. e[j] = c[j]
          BY <1>1, <4>1
        <5> QED BY <3>3, <3>4, <5>1, <5>2
      <4>2. CASE j \notin 1 .. m
        <5> DEFINE q == j - m
        <5>1. q \in 1 .. k /\ q \in 1 .. n /\ j = m + q
          BY <1>1, <3>3, <4>2
        <5>2. r[q].op = "free" /\ r[q].id = id
          BY <1>1, <3>4, <5>1
        <5> HIDE DEF q
        <5>3. q > 1 /\ r[q - 1].op = "dtor" /\ r[q - 1].id = id
          BY <5>1, <5>2 DEF Destroying
        <5>4. q - 1 \in 1 .. k
          BY <5>1, <5>3
        <5> QED BY <3>1, <3>2, <5>3, <5>4 DEF Destroyed
      <4> QED BY <4>1, <4>2
    <3>5. b \in 1 .. a - 1 /\ a - 1 = m + k /\ e[b] = c[b]
      BY <1>1, <2>2
    <3> QED BY <3>3, <3>4, <3>5 DEF HeldAt
  <2> QED BY <1>5, <1>6, <2>1, <2>2
<1>8. ASSUME NEW a \in R2, a \in 1 .. m + n PROVE Flow(e, R2, A2, h, a)
  <2>1. CASE a \in 1 .. m
    <3>1. /\ a \in R /\ e[a] = c[a] /\ A2[a] = A[a] /\ Flow(c, R, A, h, a) /\ A2[a + 1] = A[a + 1]
          /\ (a + 1 \in R2 <=> a + 1 \in R)
      <4>1. a \in 1 .. m + 1 /\ a + 1 \in 1 .. m + 1
        BY <1>1, <2>1
      <4> QED BY <1>1, <1>4, <1>5, <1>8, <2>1, <4>1 DEF Flowing
    <3>2. ASSUME c[a].op \in Jumps, NEW q \in 1 .. Len(c[a].to), NEW b \in 1 .. m + n, IsLabel(e[b], c[a].to[q])
          PROVE  b \in R2 /\ Carries(A2[a], A2[b], h)
      <4>1. b \in 1 .. m
        <5> SUFFICES ASSUME b \notin 1 .. m PROVE FALSE
          OBVIOUS
        <5> DEFINE j == b - m
        <5>1. j \in 1 .. n /\ b = m + j
          BY <1>1
        <5>2. e[b] = r[j] /\ r[j].op \in {"dtor", "free"}
          BY <1>1, <5>1 DEF Destroying
        <5> QED BY <3>2, <5>2 DEF IsLabel
      <4>2. b \in 1 .. m + 1
        BY <1>1, <4>1
      <4>3. b \in R /\ Carries(A[a], A[b], h)
        BY <1>1, <3>1, <3>2, <4>1 DEF Flow
      <4> QED BY <1>4, <1>5, <3>1, <4>2, <4>3
    <3> QED BY <1>1, <3>1, <3>2 DEF Flow
  <2>2. ASSUME NEW k \in 1 .. n, a = m + k PROVE Flow(e, R2, A2, h, a)
    <3>1. /\ m + 1 \in R /\ e[a] = r[k] /\ a + 1 \in R2
          /\ A2[a] = A[m + 1] \ Destroyed(r, k - 1) /\ A2[a + 1] = A[m + 1] \ Destroyed(r, k)
      <4>1. k - 1 \in 0 .. n /\ k \in 0 .. n /\ a = m + 1 + (k - 1) /\ a + 1 = m + 1 + k
        BY <1>1, <2>2
      <4> QED BY <1>1, <1>4, <1>5, <1>8, <2>2, <4>1
    <3>2. r[k] \in Codes /\ r[k].op \in {"dtor", "free"} /\ r[k].id \in Nat
      BY <1>1 DEF Destroying, Codes
    <3>3. \A j : j \in 1 .. k <=> (j \in 1 .. k - 1 \/ j = k)
      BY <1>1
    <3>4. CASE r[k].op = "dtor"
      <4>1. Destroyed(r, k) = Destroyed(r, k - 1) \cup {r[k].id}
        BY <3>2, <3>3, <3>4 DEF Destroyed
      <4>2. A2[a + 1] = After(r[k], A2[a])
        BY <3>1, <3>4, <4>1 DEF After
      <4>3. ASSUME Exact(h) PROVE r[k].id \in A2[a]
        <5>1. Once(r) /\ Destroyed(r, n) \subseteq A[m + 1]
          BY <3>1, <4>3
        <5>2. r[k].id \in Destroyed(r, n)
          BY <3>2, <3>4 DEF Destroyed
        <5>3. r[k].id \notin Destroyed(r, k - 1)
          <6> SUFFICES ASSUME NEW j \in 1 .. k - 1, r[j].op = "dtor", r[j].id = r[k].id PROVE FALSE
            BY DEF Destroyed
          <6>1. j \in 1 .. n /\ j # k
            BY <1>1
          <6> QED BY <3>4, <5>1, <6>1 DEF Once
        <5> QED BY <3>1, <5>1, <5>2, <5>3
      <4> QED BY <3>1, <3>4, <4>2, <4>3 DEF Flow, Follows, Jumps
    <3>5. CASE r[k].op = "free"
      <4>1. Destroyed(r, k) = Destroyed(r, k - 1)
        BY <3>3, <3>5 DEF Destroyed
      <4>2. A2[a + 1] = After(r[k], A2[a])
        BY <3>1, <3>5, <4>1 DEF After
      <4>3. r[k].id \in Destroyed(r, k - 1)
        <5>1. k > 1 /\ r[k - 1].op = "dtor" /\ r[k - 1].id = r[k].id
          BY <3>5 DEF Destroying
        <5>2. k - 1 \in 1 .. k - 1
          BY <1>1, <5>1
        <5> QED BY <3>2, <5>1, <5>2 DEF Destroyed
      <4> QED BY <3>1, <3>5, <4>2, <4>3 DEF Flow, Follows, Jumps
    <3> QED BY <3>2, <3>4, <3>5
  <2>3. a \in 1 .. m \/ \E k \in 1 .. n : a = m + k
    <3> SUFFICES ASSUME a \notin 1 .. m PROVE \E k \in 1 .. n : a = m + k
      OBVIOUS
    <3>1. a - m \in 1 .. n /\ a = m + (a - m)
      BY <1>1, <1>8
    <3> QED BY <3>1
  <2> QED BY <2>1, <2>2, <2>3
<1>9. ASSUME Stops(e) PROVE Len(e) + 1 \notin R2
  <2>1. CASE n = 0
    <3>1. Len(e) = m /\ Stops(c)
      BY <1>1, <1>9, <2>1 DEF Stops
    <3> QED BY <1>1, <1>5, <3>1 DEF Flowing
  <2>2. CASE n # 0
    <3>1. n \in 1 .. n /\ e[Len(e)] = r[n]
      BY <1>1, <2>2
    <3> QED BY <1>9, <3>1 DEF Stops, Jumps, Destroying
  <2> QED BY <2>1, <2>2
<1>10. 1 \in R2 /\ A2[1] = {}
  <2>1. 1 \in 1 .. m + 1
    BY <1>1
  <2> QED BY <1>2, <1>4, <1>5, <2>1
<1>11. Flowing(e, R2, A2, h)
  <2>1. \A a \in R2 : AliveHeld(e, A2, h, a)
    BY <1>7 DEF AliveHeld
  <2>2. R2 \in SUBSET (1 .. Len(e) + 1)
    BY <1>1, <1>5
  <2>3. \A a \in R2 : a \in 1 .. Len(e) => Flow(e, R2, A2, h, a)
    BY <1>1, <1>8
  <2> QED BY <1>1, <1>4, <1>9, <1>10, <2>1, <2>2, <2>3 DEF Flowing
<1>12. \A l : Continues(c, R, A, l, e, R2, A2)
  <2>1. \A a \in 1 .. m : /\ e[a].op = c[a].op /\ e[a].to = c[a].to
                          /\ (a \in R2 <=> a \in R) /\ A2[a] = A[a]
    <3>1. \A a \in 1 .. m : a \in 1 .. m + 1
      BY <1>1
    <3> HIDE DEF m
    <3> QED BY ONLY <1>1, <1>4, <1>5, <3>1
  <2>2. ASSUME NEW b \in m + 1 .. m + n, NEW k PROVE ~IsLabel(e[b], k)
    <3> DEFINE j == b - m
    <3>1. j \in 1 .. n /\ b = m + j
      BY <1>1
    <3> HIDE DEF j
    <3>2. e[b] = r[j] /\ r[j].op \in {"dtor", "free"}
      BY <1>1, <3>1 DEF Destroying
    <3> QED BY <3>2 DEF IsLabel
  <2>3. m <= m + n
    BY <1>1
  <2> QED BY <1>1, <2>1, <2>2, <2>3 DEF Continues
<1>13. (m + n + 1 \in R2 <=> m + 1 \in R) /\ A2[m + n + 1] = A[m + 1] \ Destroyed(r, n)
  <2>1. n \in 0 .. n /\ m + n + 1 = m + 1 + n
    BY <1>1
  <2> QED BY <1>4, <1>5, <2>1
<1> QED BY <1>1, <1>11, <1>12, <1>13 DEF e, m, n

Gone(r) == Destroyed(r, Len(r))

LEMMA NothingDestroyed == Destroying(<<>>) /\ Gone(<<>>) = {} /\ Once(<<>>)
<1> DEFINE r == <<>>
<1>1. r \in Seq(Codes) /\ Len(r) = 0
  OBVIOUS
<1> HIDE DEF r
<1>2. Destroying(r) /\ Gone(r) = {} /\ Once(r)
  BY <1>1 DEF Destroying, Gone, Destroyed, Once
<1> QED BY <1>2 DEF r

LEMMA DestroyingJoined ==
  ASSUME NEW p, NEW q, Destroying(p), Destroying(q)
  PROVE  /\ Destroying(p \o q) /\ Gone(p \o q) = Gone(p) \cup Gone(q)
         /\ Once(p) /\ Once(q) /\ Gone(p) \cap Gone(q) = {} => Once(p \o q)
<1> DEFINE m == Len(p)
           n == Len(q)
           r == p \o q
<1>1. /\ p \in Seq(Codes) /\ q \in Seq(Codes) /\ r \in Seq(Codes) /\ m \in Nat /\ n \in Nat
      /\ Len(r) = m + n
      /\ \A a \in 1 .. m : r[a] = p[a] /\ p[a] \in Codes
      /\ \A k \in 1 .. n : r[m + k] = q[k] /\ q[k] \in Codes
  <2>1. p \in Seq(Codes) /\ q \in Seq(Codes)
    BY DEF Destroying
  <2>2. /\ r \in Seq(Codes) /\ Len(r) = m + n
        /\ \A a \in 1 .. m + n : r[a] = IF a <= m THEN p[a] ELSE q[a - m]
    BY <2>1, ConcatProperties
  <2>3. m \in Nat /\ n \in Nat /\ (\A k \in 1 .. n : q[k] \in Codes) /\ \A k \in 1 .. m : p[k] \in Codes
    BY <2>1
  <2> HIDE DEF r, m, n
  <2>4. \A a \in 1 .. m : a \in 1 .. m + n /\ a <= m
    BY <2>3
  <2>5. \A k \in 1 .. n : m + k \in 1 .. m + n /\ ~(m + k <= m) /\ (m + k) - m = k
    BY <2>3
  <2> QED BY <2>1, <2>2, <2>3, <2>4, <2>5
<1> HIDE DEF r
<1>2. ASSUME NEW a \in 1 .. m + n, a \notin 1 .. m PROVE a - m \in 1 .. n /\ a = m + (a - m)
  BY <1>1, <1>2
<1>3. Destroying(r)
  <2>1. ASSUME NEW a \in 1 .. m + n
        PROVE  /\ r[a].op \in {"dtor", "free"}
               /\ r[a].op = "free" => a > 1 /\ r[a - 1].op = "dtor" /\ r[a - 1].id = r[a].id
    <3>1. CASE a \in 1 .. m
      <4>1. r[a] = p[a] /\ (a > 1 => r[a - 1] = p[a - 1])
        BY <1>1, <3>1
      <4> QED BY <3>1, <4>1 DEF Destroying
    <3>2. CASE a \notin 1 .. m
      <4> DEFINE k == a - m
      <4>1. k \in 1 .. n /\ a = m + k
        BY <1>2, <3>2
      <4> HIDE DEF k
      <4>2. r[a] = q[k] /\ (k > 1 => a > 1 /\ a - 1 = m + (k - 1) /\ k - 1 \in 1 .. n)
        BY <1>1, <4>1
      <4>3. k > 1 => a > 1 /\ r[a - 1] = q[k - 1]
        BY <1>1, <4>2
      <4> QED BY <4>1, <4>2, <4>3 DEF Destroying
    <3> QED BY <3>1, <3>2
  <2> QED BY <1>1, <2>1 DEF Destroying
<1>4. Gone(r) = Gone(p) \cup Gone(q)
  <2>1. ASSUME NEW id \in Gone(r) PROVE id \in Gone(p) \cup Gone(q)
    <3>1. PICK a \in 1 .. m + n : r[a].op = "dtor" /\ r[a].id = id
      BY <1>1, <2>1 DEF Gone, Destroyed
    <3>2. id \in Nat
      BY DEF Gone, Destroyed
    <3>3. CASE a \in 1 .. m
      BY <1>1, <3>1, <3>2, <3>3 DEF Gone, Destroyed
    <3>4. CASE a \notin 1 .. m
      <4>1. a - m \in 1 .. n /\ r[a] = q[a - m]
        BY <1>1, <1>2, <3>4
      <4> QED BY <3>1, <3>2, <4>1 DEF Gone, Destroyed
    <3> QED BY <3>3, <3>4
  <2>2. ASSUME NEW id \in Gone(p) PROVE id \in Gone(r)
    <3>1. PICK a \in 1 .. m : p[a].op = "dtor" /\ p[a].id = id
      BY <2>2 DEF Gone, Destroyed
    <3>2. a \in 1 .. Len(r) /\ id \in Nat
      BY <1>1 DEF Gone, Destroyed
    <3> QED BY <1>1, <3>1, <3>2 DEF Gone, Destroyed
  <2>3. ASSUME NEW id \in Gone(q) PROVE id \in Gone(r)
    <3>1. PICK a \in 1 .. n : q[a].op = "dtor" /\ q[a].id = id
      BY <2>3 DEF Gone, Destroyed
    <3>2. m + a \in 1 .. Len(r) /\ id \in Nat /\ r[m + a] = q[a]
      BY <1>1 DEF Gone, Destroyed
    <3> QED BY <3>1, <3>2 DEF Gone, Destroyed
  <2> QED BY <2>1, <2>2, <2>3
<1>5. ASSUME Once(p), Once(q), Gone(p) \cap Gone(q) = {} PROVE Once(r)
  <2>0. \A a \in 1 .. m : p[a].op = "dtor" => p[a].id \in Gone(p)
    BY <1>1 DEF Gone, Destroyed, Codes
  <2>1. \A a \in 1 .. n : q[a].op = "dtor" => q[a].id \in Gone(q)
    BY <1>1 DEF Gone, Destroyed, Codes
  <2> SUFFICES ASSUME NEW j \in 1 .. m + n, NEW k \in 1 .. m + n,
                      r[j].op = "dtor", r[k].op = "dtor", r[j].id = r[k].id
               PROVE  j = k
    BY <1>1 DEF Once
  <2>2. CASE j \in 1 .. m /\ k \in 1 .. m
    BY <1>1, <1>5, <2>2 DEF Once
  <2>3. CASE j \in 1 .. m /\ k \notin 1 .. m
    <3>1. k - m \in 1 .. n /\ r[k] = q[k - m] /\ r[j] = p[j]
      BY <1>1, <1>2, <2>3
    <3>2. r[j].id \in Gone(p) /\ r[j].id \in Gone(q)
      BY <2>0, <2>1, <2>3, <3>1
    <3> QED BY <1>5, <3>2
  <2>4. CASE j \notin 1 .. m /\ k \in 1 .. m
    <3>1. j - m \in 1 .. n /\ r[j] = q[j - m] /\ r[k] = p[k]
      BY <1>1, <1>2, <2>4
    <3>2. r[j].id \in Gone(p) /\ r[j].id \in Gone(q)
      BY <2>0, <2>1, <2>4, <3>1
    <3> QED BY <1>5, <3>2
  <2>5. CASE j \notin 1 .. m /\ k \notin 1 .. m
    <3>1. /\ j - m \in 1 .. n /\ j = m + (j - m) /\ k - m \in 1 .. n /\ k = m + (k - m)
          /\ r[j] = q[j - m] /\ r[k] = q[k - m]
      BY <1>1, <1>2, <2>5
    <3>2. j - m = k - m
      BY <1>5, <3>1 DEF Once
    <3> QED BY <3>1, <3>2
  <2> QED BY <2>2, <2>3, <2>4, <2>5
<1> QED BY <1>3, <1>4, <1>5 DEF r

(* Pieces of code that destroy, joined, the last one first.                *)
Pieces(n, K, S) ==
  /\ K \in [1 .. n -> Seq(Codes)] /\ S \in [1 .. n -> SUBSET Nat]
  /\ \A i \in 1 .. n : Destroying(K[i]) /\ Gone(K[i]) = S[i]

OnceEach(n, K, S) ==
  /\ \A i \in 1 .. n : Once(K[i])
  /\ \A i, j \in 1 .. n : i # j => S[i] \cap S[j] = {}

LEMMA PiecesJoined ==
  ASSUME NEW n \in Nat, NEW K, NEW S, Pieces(n, K, S), NEW r, JoinedBack(Codes, n, K, r)
  PROVE  /\ Destroying(r)
         /\ Gone(r) = {id \in Nat : \E i \in 1 .. n : id \in S[i]}
         /\ OnceEach(n, K, S) => Once(r)
<1>1. PICK w \in [1 .. n + 1 -> Seq(Codes)] :
        /\ w[n + 1] = <<>>
        /\ \A i \in 1 .. n : w[i] = w[i + 1] \o K[i]
        /\ r = w[1]
  BY DEF JoinedBack
<1> DEFINE From(i) == {id \in Nat : \E j \in i .. n : id \in S[j]}
           T == {i \in 1 .. n + 1 : /\ Destroying(w[i]) /\ Gone(w[i]) = From(i)
                                    /\ OnceEach(n, K, S) => Once(w[i])}
<1>2. n + 1 \in T
  <2>1. From(n + 1) = {}
    OBVIOUS
  <2>2. n + 1 \in 1 .. n + 1
    OBVIOUS
  <2> HIDE DEF From
  <2> QED BY <1>1, <2>1, <2>2, NothingDestroyed
<1>3. ASSUME NEW i \in 1 .. (n + 1) - 1, i + 1 \in T PROVE i \in T
  <2>0. i \in 1 .. n /\ i \in 1 .. n + 1
    OBVIOUS
  <2>1. i \in 1 .. n /\ i \in 1 .. n + 1 /\ w[i] = w[i + 1] \o K[i]
    BY <2>0, <1>1
  <2>2. /\ Destroying(w[i + 1]) /\ Gone(w[i + 1]) = From(i + 1)
        /\ OnceEach(n, K, S) => Once(w[i + 1])
    BY <1>3
  <2>3. Destroying(K[i]) /\ Gone(K[i]) = S[i] /\ S[i] \in SUBSET Nat
    BY <2>1 DEF Pieces
  <2>4. \A j : j \in i .. n <=> (j = i \/ j \in i + 1 .. n)
    BY <2>1
  <2>5. From(i) = From(i + 1) \cup S[i]
    BY <2>3, <2>4
  <2>6. ASSUME OnceEach(n, K, S) PROVE From(i + 1) \cap S[i] = {} /\ Once(K[i])
    <3>1. \A j \in i + 1 .. n : j \in 1 .. n /\ j # i
      BY <2>1
    <3>2. \A j \in i + 1 .. n : S[j] \cap S[i] = {}
      BY <2>1, <2>6, <3>1 DEF OnceEach
    <3> QED BY <2>1, <2>6, <3>2 DEF OnceEach
  <2> HIDE DEF From
  <2>7. Destroying(w[i]) /\ Gone(w[i]) = From(i) /\ (OnceEach(n, K, S) => Once(w[i]))
    BY <2>1, <2>2, <2>3, <2>5, <2>6, DestroyingJoined
  <2> QED BY <2>1, <2>7
<1>4. 1 .. n + 1 \subseteq T
  <2> HIDE DEF T
  <2>1. \A i \in 1 .. (n + 1) - 1 : i + 1 \in T => i \in T
    BY <1>3
  <2>2. 1 \in Int /\ n + 1 \in Int
    OBVIOUS
  <2> QED BY ONLY <1>2, <2>1, <2>2, DownInduction
<1>5. 1 \in T
  BY <1>4
<1> QED BY <1>1, <1>5

(* The objects of the scopes from the m-th to the n-th.                    *)
Within(s, m, n) == {id \in Nat : \E i \in m .. n : \E k \in 1 .. Len(s[i].stackObjs) : s[i].stackObjs[k] = id}
Below(s, n) == Within(s, 1, n)

(* One of them has returned.                                               *)
Returned(s, n) == \E i \in 1 .. n : s[i].didReturn

(* No object is in two places.                                             *)
Distinct(s) == \A p, q \in Places(s) : At(s, p) = At(s, q) => p = q

LEMMA DestroysShape ==
  ASSUME NEW id \in Nat
  PROVE  Destroying(Destroys(id)) /\ Gone(Destroys(id)) = {id} /\ Once(Destroys(id))
<1> DEFINE x == Instruction("dtor", id, <<>>)
           y == Instruction("free", id, <<>>)
           r == <<x, y>>
<1>1. x \in Codes /\ y \in Codes /\ x.op = "dtor" /\ x.id = id /\ y.op = "free" /\ y.id = id
  <2>1. "dtor" \in Ops /\ "free" \in Ops
    BY DEF Ops
  <2> QED BY <2>1, PlainTypes, Zenon
<1>2. Destroys(id) = r
  BY DEF Destroys
<1> HIDE DEF x, y
<1>3. r \in Seq(Codes) /\ Len(r) = 2 /\ r[1] = x /\ r[2] = y /\ \A k \in 1 .. 2 : k = 1 \/ k = 2
  BY <1>1
<1> HIDE DEF r
<1>4. Destroying(r)
  BY <1>1, <1>3 DEF Destroying
<1>5. Gone(r) = {id} /\ Once(r)
  BY <1>1, <1>3 DEF Gone, Destroyed, Once
<1> QED BY <1>2, <1>4, <1>5

LEMMA DestroyShape ==
  ASSUME NEW objs \in Seq(Nat), NEW save
  PROVE  /\ Destroying(DestroyCode(objs, save))
         /\ Gone(DestroyCode(objs, save)) = {id \in Nat : \E k \in 1 .. Len(objs) : objs[k] = id} \ {save}
         /\ (\A k, l \in 1 .. Len(objs) : objs[k] = objs[l] => k = l) => Once(DestroyCode(objs, save))
<1> DEFINE n == Len(objs)
           r == DestroyCode(objs, save)
           K == [i \in 1 .. n |-> IF objs[i] = save THEN <<>> ELSE Destroys(objs[i])]
           S == [i \in 1 .. n |-> {objs[i]} \ {save}]
<1>1. n \in Nat /\ JoinedBack(Codes, n, K, r) /\ \A i \in 1 .. n : objs[i] \in Nat
  BY DestroyCodeJoined
<1>2. \A i \in 1 .. n : K[i] = (IF objs[i] = save THEN <<>> ELSE Destroys(objs[i])) /\ S[i] = {objs[i]} \ {save}
  OBVIOUS
<1>3. ASSUME NEW i \in 1 .. n PROVE Destroying(K[i]) /\ Gone(K[i]) = S[i] /\ Once(K[i])
  <2> HIDE DEF K, S
  <2>1. CASE objs[i] = save
    <3>1. K[i] = <<>> /\ S[i] = {}
      BY <1>2, <2>1
    <3> QED BY <3>1, NothingDestroyed
  <2>2. CASE objs[i] # save
    <3>1. K[i] = Destroys(objs[i]) /\ S[i] = {objs[i]}
      BY <1>2, <2>2
    <3> QED BY <1>1, <3>1, DestroysShape
  <2> QED BY <2>1, <2>2
<1>4. Pieces(n, K, S)
  <2>1. \A i \in 1 .. n : K[i] \in Seq(Codes)
    BY <1>3 DEF Destroying
  <2>2. K \in [1 .. n -> Seq(Codes)]
    BY <2>1
  <2>3. S \in [1 .. n -> SUBSET Nat]
    BY <1>1
  <2> HIDE DEF K, S
  <2> QED BY <1>3, <2>2, <2>3 DEF Pieces
<1>5. ASSUME \A k, l \in 1 .. n : objs[k] = objs[l] => k = l PROVE OnceEach(n, K, S)
  <2> HIDE DEF K, S
  <2> QED BY <1>2, <1>3, <1>5 DEF OnceEach
<1> HIDE DEF K, S, r
<1>6. /\ Destroying(r) /\ Gone(r) = {id \in Nat : \E i \in 1 .. n : id \in S[i]}
      /\ OnceEach(n, K, S) => Once(r)
  BY <1>1, <1>4, PiecesJoined
<1>7. {id \in Nat : \E i \in 1 .. n : id \in S[i]} = {id \in Nat : \E k \in 1 .. n : objs[k] = id} \ {save}
  BY <1>2
<1> QED BY <1>5, <1>6, <1>7 DEF r

(* Leaving the scopes from the m-th on destroys their objects but the one  *)
(* that is saved.                                                          *)
LEMMA ScopeExitShape ==
  ASSUME NEW s \in Seq(Scopes), NEW m \in Nat \ {0}, NEW save
  PROVE  LET r == emitScopeExitInstructions(s, m, save)
         IN  /\ Destroying(r)
             /\ ~s[m].didReturn => Gone(r) = Within(s, m, Len(s)) \ {save}
             /\ Distinct(s) => Once(r)
<1> DEFINE r == emitScopeExitInstructions(s, m, save)
<1>1. CASE s[m].didReturn
  <2>1. r = <<>>
    BY <1>1 DEF emitScopeExitInstructions
  <2> QED BY <1>1, <2>1, NothingDestroyed
<1>2. CASE ~s[m].didReturn
  <2> DEFINE sub == SubSeq(s, m, Len(s))
             n == Len(sub)
             K == [i \in 1 .. n |-> DestroyCode(sub[i].stackObjs, save)]
             Of(i) == {id \in Nat : \E k \in 1 .. Len(sub[i].stackObjs) : sub[i].stackObjs[k] = id}
             S == [i \in 1 .. n |-> Of(i) \ {save}]
  <2>1. JoinedBack(Codes, n, K, r)
    BY <1>2, ScopeExitJoined
  <2>2. /\ n \in Nat
        /\ \A i \in 1 .. n : sub[i] = s[m + i - 1] /\ m + i - 1 \in m .. Len(s) /\ sub[i] \in Scopes
        /\ \A j \in m .. Len(s) : j - m + 1 \in 1 .. n /\ j = m + (j - m + 1) - 1
    <3>1. sub \in Seq(Scopes)
      BY SubSeqProperties
    <3>2. \A i \in 1 .. n : sub[i] = s[m + i - 1] /\ m + i - 1 \in m .. Len(s)
      BY SubSeqProperties
    <3>3. n \in Nat /\ \A i \in 1 .. n : sub[i] \in Scopes
      BY <3>1
    <3>4. n = IF m <= Len(s) THEN Len(s) - m + 1 ELSE 0
      BY SubSeqProperties
    <3>5. Len(s) \in Nat
      OBVIOUS
    <3> HIDE DEF sub, n
    <3>6. \A j \in m .. Len(s) : j - m + 1 \in 1 .. n /\ j = m + (j - m + 1) - 1
      BY <3>4, <3>5
    <3> QED BY <3>2, <3>3, <3>6
  <2> HIDE DEF sub
  <2>3. \A i \in 1 .. n : sub[i].stackObjs \in Seq(Nat)
    BY <2>2 DEF Scopes
  <2>4. \A i \in 1 .. n : K[i] = DestroyCode(sub[i].stackObjs, save) /\ S[i] = Of(i) \ {save}
    OBVIOUS
  <2>5. ASSUME NEW i \in 1 .. n
        PROVE  /\ Destroying(K[i]) /\ Gone(K[i]) = S[i]
               /\ Distinct(s) => Once(K[i])
    <3>1. /\ Destroying(K[i]) /\ Gone(K[i]) = S[i]
          /\ (\A k, l \in 1 .. Len(sub[i].stackObjs) : sub[i].stackObjs[k] = sub[i].stackObjs[l] => k = l)
               => Once(K[i])
      <4> DEFINE o == sub[i].stackObjs
      <4>1. o \in Seq(Nat) /\ K[i] = DestroyCode(o, save)
            /\ S[i] = {id \in Nat : \E k \in 1 .. Len(o) : o[k] = id} \ {save}
        BY <2>3
      <4> HIDE DEF K, S, o
      <4>2. /\ Destroying(K[i]) /\ Gone(K[i]) = S[i]
            /\ (\A k, l \in 1 .. Len(o) : o[k] = o[l] => k = l) => Once(K[i])
        BY <4>1, DestroyShape
      <4> QED BY <4>2 DEF o
    <3>2. ASSUME Distinct(s), NEW k \in 1 .. Len(sub[i].stackObjs), NEW l \in 1 .. Len(sub[i].stackObjs),
                 sub[i].stackObjs[k] = sub[i].stackObjs[l]
          PROVE  k = l
      <4> DEFINE j == m + i - 1
      <4>1. sub[i] = s[j] /\ j \in 1 .. Len(s) /\ j \in Nat
        BY <2>2
      <4> HIDE DEF j
      <4>2. sub[i].stackObjs \in Seq(Nat)
        BY <2>3
      <4>3. k \in Nat /\ l \in Nat
        BY <4>2
      <4>4. <<j, k>> \in Places(s) /\ <<j, l>> \in Places(s)
        BY <4>1, <4>3 DEF Places
      <4>5. At(s, <<j, k>>) = At(s, <<j, l>>)
        BY <3>2, <4>1 DEF At
      <4>6. <<j, k>> = <<j, l>>
        BY <3>2, <4>4, <4>5 DEF Distinct
      <4> QED BY <4>6
    <3> QED BY <3>1, <3>2
  <2>6. Pieces(n, K, S)
    <3>1. \A i \in 1 .. n : K[i] \in Seq(Codes)
      BY <2>5 DEF Destroying
    <3>2. K \in [1 .. n -> Seq(Codes)]
      BY <3>1
    <3>3. S \in [1 .. n -> SUBSET Nat]
      OBVIOUS
    <3> HIDE DEF K, S
    <3> QED BY <2>5, <3>2, <3>3 DEF Pieces
  <2>7. ASSUME Distinct(s) PROVE OnceEach(n, K, S)
    <3>1. ASSUME NEW i \in 1 .. n, NEW j \in 1 .. n, NEW id, id \in S[i], id \in S[j] PROVE i = j
      <4>1. PICK k \in 1 .. Len(sub[i].stackObjs) : sub[i].stackObjs[k] = id
        BY <3>1
      <4>2. PICK l \in 1 .. Len(sub[j].stackObjs) : sub[j].stackObjs[l] = id
        BY <3>1
      <4> DEFINE a == m + i - 1
                 b == m + j - 1
      <4>3. sub[i] = s[a] /\ a \in 1 .. Len(s) /\ a \in Nat /\ sub[j] = s[b] /\ b \in 1 .. Len(s) /\ b \in Nat
        BY <2>2
      <4>4. sub[i].stackObjs \in Seq(Nat) /\ sub[j].stackObjs \in Seq(Nat)
        BY <2>3
      <4>5. k \in Nat /\ l \in Nat
        BY <4>4
      <4> HIDE DEF a, b
      <4>6. <<a, k>> \in Places(s) /\ <<b, l>> \in Places(s)
        BY <4>1, <4>2, <4>3, <4>5 DEF Places
      <4>7. At(s, <<a, k>>) = At(s, <<b, l>>)
        BY <4>1, <4>2, <4>3 DEF At
      <4>8. <<a, k>> = <<b, l>>
        BY <2>7, <4>6, <4>7 DEF Distinct
      <4>9. a = b
        BY <4>8
      <4> QED BY <4>9 DEF a, b
    <3> HIDE DEF K, S
    <3>2. \A i, j \in 1 .. n : i # j => S[i] \cap S[j] = {}
      BY <3>1
    <3> QED BY <2>5, <2>7, <3>2 DEF OnceEach
  <2> HIDE DEF K, S, r
  <2>8. /\ Destroying(r) /\ Gone(r) = {id \in Nat : \E i \in 1 .. n : id \in S[i]}
        /\ OnceEach(n, K, S) => Once(r)
    BY <2>1, <2>2, <2>6, PiecesJoined
  <2>9. {id \in Nat : \E i \in 1 .. n : id \in S[i]} = Within(s, m, Len(s)) \ {save}
    <3>1. ASSUME NEW id \in Nat, NEW i \in 1 .. n, id \in S[i] PROVE id \in Within(s, m, Len(s)) \ {save}
      <4>1. id # save /\ \E k \in 1 .. Len(sub[i].stackObjs) : sub[i].stackObjs[k] = id
        BY <2>4, <3>1
      <4>2. sub[i] = s[m + i - 1] /\ m + i - 1 \in m .. Len(s)
        BY <2>2
      <4> QED BY <4>1, <4>2 DEF Within
    <3>2. ASSUME NEW id \in Within(s, m, Len(s)), id # save PROVE \E i \in 1 .. n : id \in S[i]
      <4>1. id \in Nat
        BY DEF Within
      <4>2. PICK j \in m .. Len(s) : \E k \in 1 .. Len(s[j].stackObjs) : s[j].stackObjs[k] = id
        BY DEF Within
      <4> DEFINE i == j - m + 1
      <4>3. i \in 1 .. n /\ j = m + i - 1
        BY <2>2
      <4> HIDE DEF i
      <4>4. sub[i] = s[j]
        BY <2>2, <4>3
      <4>5. id \in Of(i)
        BY <4>1, <4>2, <4>4
      <4> HIDE DEF Of
      <4>6. S[i] = Of(i) \ {save}
        BY <2>4, <4>3
      <4>7. id \in S[i]
        BY <3>2, <4>5, <4>6
      <4> QED BY <4>3, <4>7
    <3>3. Within(s, m, Len(s)) \subseteq Nat
      BY DEF Within
    <3> QED BY <3>1, <3>2, <3>3
  <2> QED BY <1>2, <2>7, <2>8, <2>9 DEF r
<1> QED BY <1>1, <1>2

(* The code of a return leaves every scope in turn, and what is inside it  *)
(* each time: that is once when there is nothing to leave, or one scope.   *)
Empty(s) == \A i \in 1 .. Len(s) : Len(s[i].stackObjs) = 0

LEMMA ReturnShape ==
  ASSUME NEW g \in Drafts, Len(g.scopes) > 0
  PROVE  LET s == g.scopes
             n == Len(s)
             e == [s[n] EXCEPT !.didReturn = TRUE]
         IN  \E code : /\ emitReturnInstructions(g) = [g EXCEPT !.code = @ \o code, !.scopes = [s EXCEPT ![n] = e]]
                       /\ Destroying(code)
                       /\ ~Returned(s, n) => Gone(code) = Below(s, n) \ {NoId}
                       /\ Distinct(s) /\ (n = 1 \/ Empty(s)) => Once(code)
<1> DEFINE s == g.scopes
           n == Len(s)
           e == [s[n] EXCEPT !.didReturn = TRUE]
           K == [i \in 1 .. n |-> emitScopeExitInstructions(s, i, NoId)]
           S == [i \in 1 .. n |-> Gone(K[i])]
<1>1. s \in Seq(Scopes) /\ n \in Nat \ {0} /\ g.code \in Seq(Codes)
  BY DraftFields
<1>2. PICK code \in Seq(Codes) :
        /\ emitReturnInstructions(g) = [g EXCEPT !.code = @ \o code, !.scopes[Len(g.scopes)].didReturn = TRUE]
        /\ JoinedBack(Codes, n, K, code)
  BY ReturnJoined
<1>3. emitReturnInstructions(g) = [g EXCEPT !.code = @ \o code, !.scopes = [s EXCEPT ![n] = e]]
  BY <1>1, <1>2 DEF Drafts
<1>4. ASSUME NEW i \in 1 .. n
      PROVE  /\ K[i] = emitScopeExitInstructions(s, i, NoId) /\ Destroying(K[i])
             /\ ~s[i].didReturn => Gone(K[i]) = Within(s, i, n) \ {NoId}
             /\ Distinct(s) => Once(K[i])
             /\ S[i] = Gone(K[i])
  <2>1. i \in Nat \ {0}
    OBVIOUS
  <2>2. K[i] = emitScopeExitInstructions(s, i, NoId) /\ S[i] = Gone(K[i])
    OBVIOUS
  <2> HIDE DEF K, S
  <2> QED BY <1>1, <2>1, <2>2, ScopeExitShape
<1>5. Pieces(n, K, S)
  <2>1. \A i \in 1 .. n : K[i] \in Seq(Codes)
    BY <1>4 DEF Destroying
  <2>2. K \in [1 .. n -> Seq(Codes)]
    BY <2>1
  <2>3. S \in [1 .. n -> SUBSET Nat]
    BY DEF Gone, Destroyed
  <2> HIDE DEF K, S
  <2> QED BY <1>4, <2>2, <2>3 DEF Pieces
<1> HIDE DEF K, S
<1>6. /\ Destroying(code) /\ Gone(code) = {id \in Nat : \E i \in 1 .. n : id \in S[i]}
      /\ OnceEach(n, K, S) => Once(code)
  BY <1>1, <1>2, <1>5, PiecesJoined
<1>7. ASSUME ~Returned(s, n) PROVE Gone(code) = Below(s, n) \ {NoId}
  <2>1. \A i \in 1 .. n : S[i] = Within(s, i, n) \ {NoId}
    BY <1>4, <1>7 DEF Returned
  <2>2. ASSUME NEW id \in Nat, NEW i \in 1 .. n, id \in S[i] PROVE id \in Below(s, n) \ {NoId}
    <3>1. id \in Within(s, i, n) /\ id # NoId
      BY <2>1, <2>2
    <3>2. \A j \in i .. n : j \in 1 .. n
      BY <1>1
    <3> QED BY <3>1, <3>2 DEF Within, Below
  <2>3. ASSUME NEW id \in Below(s, n) \ {NoId} PROVE id \in Nat /\ \E i \in 1 .. n : id \in S[i]
    <3>1. 1 \in 1 .. n
      BY <1>1
    <3> QED BY <2>1, <2>3, <3>1 DEF Below, Within
  <2> QED BY <1>6, <2>2, <2>3
<1>8. ASSUME Distinct(s), n = 1 PROVE OnceEach(n, K, S)
  <2>1. \A i, j \in 1 .. n : i = j
    BY <1>8
  <2> HIDE DEF n, s
  <2> QED BY <1>4, <1>8, <2>1 DEF OnceEach
<1>9. ASSUME Distinct(s), Empty(s) PROVE OnceEach(n, K, S)
  <2>1. ASSUME NEW i \in 1 .. n PROVE S[i] = {}
    <3>1. i \in Nat \ {0} /\ \A j \in i .. Len(s) : Len(s[j].stackObjs) = 0
      BY <1>9 DEF Empty
    <3>2. K[i] = <<>>
      BY <1>1, <1>4, <3>1, EmptyScopesExit
    <3> QED BY <1>4, <3>2, NothingDestroyed
  <2> HIDE DEF n, s
  <2> QED BY <1>4, <1>9, <2>1 DEF OnceEach
<1>10. Distinct(s) /\ (n = 1 \/ Empty(s)) => Once(code)
  BY <1>6, <1>8, <1>9
<1> QED BY <1>3, <1>6, <1>7, <1>10

-----------------------------------------------------------------------------
(* Scopes                                                                  *)

Same(s, t, d) == \A i \in 1 .. d : t[i] = s[i]

LEMMA BelowSame ==
  ASSUME NEW s, NEW t, NEW d, Same(s, t, d)
  PROVE  Below(t, d) = Below(s, d) /\ (Returned(t, d) <=> Returned(s, d))
BY DEF Same, Below, Within, Returned

LEMMA BelowSplit ==
  ASSUME NEW s, NEW n \in Nat, NEW m \in 1 .. n + 1
  PROVE  Below(s, n) = Below(s, m - 1) \cup Within(s, m, n)
<1>1. \A i : i \in 1 .. n <=> i \in 1 .. m - 1 \/ i \in m .. n
  OBVIOUS
<1> QED BY <1>1 DEF Below, Within

LEMMA BelowLast ==
  ASSUME NEW s, NEW n \in Nat \ {0}
  PROVE  /\ Below(s, n) = Below(s, n - 1) \cup Within(s, n, n)
         /\ Returned(s, n) <=> Returned(s, n - 1) \/ s[n].didReturn
         /\ Within(s, n, n) = {id \in Nat : \E k \in 1 .. Len(s[n].stackObjs) : s[n].stackObjs[k] = id}
<1>1. n \in 1 .. n + 1 /\ n \in n .. n /\ \A i \in n .. n : i = n
  OBVIOUS
<1>2. \A i : i \in 1 .. n <=> i \in 1 .. n - 1 \/ i = n
  OBVIOUS
<1> QED BY <1>1, <1>2, BelowSplit DEF Within, Returned

(* An object is at a place.                                                *)
LEMMA WithinPlaces ==
  ASSUME NEW s \in Seq(Scopes), NEW m \in Nat \ {0}, NEW n \in 0 .. Len(s), NEW id
  PROVE  id \in Within(s, m, n) <=> \E p \in Places(s) : p[1] \in m .. n /\ At(s, p) = id
<1>1. ASSUME id \in Within(s, m, n) PROVE \E p \in Places(s) : p[1] \in m .. n /\ At(s, p) = id
  <2>1. PICK i \in m .. n : \E k \in 1 .. Len(s[i].stackObjs) : s[i].stackObjs[k] = id
    BY <1>1 DEF Within
  <2>2. PICK k \in 1 .. Len(s[i].stackObjs) : s[i].stackObjs[k] = id
    BY <2>1
  <2>3. i \in 1 .. Len(s) /\ i \in Nat
    OBVIOUS
  <2>4. s[i].stackObjs \in Seq(Nat)
    <3>1. s[i] \in Scopes
      BY <2>3
    <3> QED BY <3>1 DEF Scopes
  <2>5. k \in Nat
    BY <2>4
  <2>6. <<i, k>> \in Places(s) /\ At(s, <<i, k>>) = id
    BY <2>2, <2>3, <2>5 DEF Places, At
  <2> QED BY <2>6
<1>2. ASSUME NEW p \in Places(s), p[1] \in m .. n, At(s, p) = id PROVE id \in Within(s, m, n)
  BY <1>2, PlaceTypes DEF Within, At
<1> QED BY <1>1, <1>2

LEMMA WithinApart ==
  ASSUME NEW s \in Seq(Scopes), Distinct(s), NEW n \in 0 .. Len(s), NEW m \in 1 .. n + 1
  PROVE  Below(s, m - 1) \cap Within(s, m, n) = {}
<1> SUFFICES ASSUME NEW id \in Below(s, m - 1), id \in Within(s, m, n) PROVE FALSE
  OBVIOUS
<1>0. m - 1 \in 0 .. Len(s) /\ m \in Nat \ {0} /\ 1 \in Nat \ {0}
  OBVIOUS
<1>1. PICK p \in Places(s) : p[1] \in 1 .. m - 1 /\ At(s, p) = id
  BY <1>0, WithinPlaces DEF Below
<1>2. PICK q \in Places(s) : q[1] \in m .. n /\ At(s, q) = id
  BY <1>0, WithinPlaces
<1>3. p = q
  BY <1>1, <1>2 DEF Distinct
<1> QED BY <1>1, <1>2, <1>3

-----------------------------------------------------------------------------
(* Drafts, whatever early exits there were.                                *)

Tidy(g) ==
  /\ g \in Drafts
  /\ g.id > NoId /\ g.label > 0
  /\ \A p \in Places(g.scopes) : At(g.scopes, p) \in NoId + 1 .. g.id - 1
  /\ Distinct(g.scopes)

LEMMA TidyTypes ==
  ASSUME NEW g, Tidy(g)
  PROVE  /\ g \in Drafts /\ g.scopes \in Seq(Scopes) /\ Len(g.scopes) \in Nat
         /\ g.code \in Seq(Codes) /\ Len(g.code) \in Nat
         /\ g.label \in Nat \ {0} /\ g.id \in Nat \ {NoId} /\ Distinct(g.scopes)
<1>1. g.scopes \in Seq(Scopes) /\ g.code \in Seq(Codes) /\ g.label \in Nat /\ g.id \in Nat
  BY DraftFields DEF Tidy
<1> QED BY <1>1 DEF Tidy, NoId

(* Every object of the scopes t is where it was in s.                      *)
Fewer(s, t) == \A p \in Places(t) : p \in Places(s) /\ At(t, p) = At(s, p)

LEMMA TidyFewer ==
  ASSUME NEW g, Tidy(g), NEW k \in Drafts, k.id >= g.id, k.label >= g.label, Fewer(g.scopes, k.scopes)
  PROVE  Tidy(k)
<1>1. k.id \in Nat /\ k.label \in Nat /\ g.id \in Nat /\ g.label \in Nat
  BY DraftFields DEF Tidy
<1>2. \A x : x \in NoId + 1 .. g.id - 1 => x \in NoId + 1 .. k.id - 1
  BY <1>1 DEF NoId
<1>3. k.id > NoId /\ k.label > 0
  BY <1>1 DEF Tidy, NoId
<1>4. \A p \in Places(k.scopes) : At(k.scopes, p) \in NoId + 1 .. k.id - 1
  BY <1>2 DEF Tidy, Fewer
<1>5. Distinct(k.scopes)
  BY DEF Tidy, Distinct, Fewer
<1> QED BY <1>3, <1>4, <1>5 DEF Tidy

LEMMA FewerSame ==
  ASSUME NEW s \in Seq(Scopes), NEW t \in Seq(Scopes), Len(t) <= Len(s),
         \A i \in 1 .. Len(t) : t[i].stackObjs = s[i].stackObjs
  PROVE  Fewer(s, t)
<1>1. ASSUME NEW p \in Places(t) PROVE p \in Places(s) /\ At(t, p) = At(s, p)
  <2>1. p[1] \in 1 .. Len(t) /\ p[2] \in 1 .. Len(t[p[1]].stackObjs) /\ p \in Nat \X Nat
    BY DEF Places
  <2>2. p[1] \in 1 .. Len(s) /\ t[p[1]].stackObjs = s[p[1]].stackObjs
    BY <2>1
  <2> QED BY <2>1, <2>2 DEF Places, At
<1> QED BY <1>1 DEF Fewer

(* The innermost scope with one more object.                               *)
Put(s, x) == [s EXCEPT ![Len(s)] = [s[Len(s)] EXCEPT !.stackObjs = Append(@, x)]]

LEMMA PutScopes ==
  ASSUME NEW s \in Seq(Scopes), Len(s) > 0, NEW x \in Nat
  PROVE  /\ Put(s, x) \in Seq(Scopes) /\ Len(Put(s, x)) = Len(s) /\ Same(s, Put(s, x), Len(s) - 1)
         /\ Below(Put(s, x), Len(s)) = Below(s, Len(s)) \cup {x}
         /\ Returned(Put(s, x), Len(s)) <=> Returned(s, Len(s))
         /\ \A p \in Places(Put(s, x)) :
              \/ p \in Places(s) /\ At(Put(s, x), p) = At(s, p)
              \/ p = <<Len(s), Len(s[Len(s)].stackObjs) + 1>> /\ At(Put(s, x), p) = x
<1> DEFINE n == Len(s)
           o == s[n].stackObjs
           e == [s[n] EXCEPT !.stackObjs = Append(@, x)]
           t == [s EXCEPT ![n] = e]
<1>1. n \in Nat \ {0} /\ s[n] \in Scopes
  OBVIOUS
<1>2. o \in Seq(Nat) /\ s[n].didReturn \in BOOLEAN
  BY <1>1 DEF Scopes
<1>3. Append(o, x) \in Seq(Nat)
  BY <1>2
<1>4. e \in Scopes /\ e.stackObjs = Append(o, x) /\ e.didReturn = s[n].didReturn
  BY <1>1, <1>3 DEF Scopes
<1> HIDE DEF e
<1>5. t \in Seq(Scopes) /\ Len(t) = n /\ t[n] = e /\ \A i \in 1 .. n : i # n => t[i] = s[i]
  BY <1>1, <1>4
<1>6. Put(s, x) = t
  BY DEF Put, e
<1> HIDE DEF t
<1>7. Len(o) \in Nat /\ Len(Append(o, x)) = Len(o) + 1 /\ Append(o, x)[Len(o) + 1] = x
      /\ \A j \in 1 .. Len(o) : Append(o, x)[j] = o[j]
  <2> HIDE DEF o
  <2> QED BY <1>2
<1> DEFINE k == Len(o)
<1>8. Len(e.stackObjs) = k + 1 /\ e.stackObjs[k + 1] = x /\ \A j \in 1 .. k : e.stackObjs[j] = o[j]
  BY <1>4, <1>7
<1>9. Same(s, t, n - 1)
  BY <1>1, <1>5 DEF Same
<1>10. Below(t, n) = Below(s, n) \cup {x} /\ (Returned(t, n) <=> Returned(s, n))
  <2>1. Below(t, n - 1) = Below(s, n - 1) /\ (Returned(t, n - 1) <=> Returned(s, n - 1))
    BY <1>9, BelowSame
  <2>2. Within(t, n, n) = Within(s, n, n) \cup {x}
    <3>1. \A j : j \in 1 .. k + 1 <=> j \in 1 .. k \/ j = k + 1
      BY <1>7
    <3>2. Within(t, n, n) = {id \in Nat : \E j \in 1 .. k + 1 : e.stackObjs[j] = id}
      BY <1>1, <1>5, <1>8, BelowLast
    <3>3. Within(s, n, n) = {id \in Nat : \E j \in 1 .. k : o[j] = id}
      BY <1>1, BelowLast
    <3> QED BY <1>8, <3>1, <3>2, <3>3
  <2>3. /\ Below(t, n) = Below(t, n - 1) \cup Within(t, n, n)
        /\ Below(s, n) = Below(s, n - 1) \cup Within(s, n, n)
        /\ Returned(t, n) <=> Returned(t, n - 1) \/ t[n].didReturn
        /\ Returned(s, n) <=> Returned(s, n - 1) \/ s[n].didReturn
    BY <1>1, BelowLast
  <2>4. t[n].didReturn = s[n].didReturn
    BY <1>4, <1>5
  <2> QED BY <2>1, <2>2, <2>3, <2>4
<1>11. ASSUME NEW p \in Places(t)
       PROVE  \/ p \in Places(s) /\ At(t, p) = At(s, p)
              \/ p = <<n, k + 1>> /\ At(t, p) = x
  <2>1. p[1] \in 1 .. n /\ p[2] \in 1 .. Len(t[p[1]].stackObjs) /\ p \in Nat \X Nat
    BY <1>5 DEF Places
  <2>2. CASE p[1] # n
    <3>1. t[p[1]] = s[p[1]]
      BY <1>5, <2>1, <2>2
    <3> QED BY <2>1, <3>1 DEF Places, At
  <2>3. CASE p[1] = n
    <3>1. p[2] \in 1 .. k + 1 /\ At(t, p) = e.stackObjs[p[2]]
      BY <1>5, <1>8, <2>1, <2>3 DEF At
    <3>2. CASE p[2] = k + 1
      BY <1>8, <2>1, <2>3, <3>1, <3>2
    <3>3. CASE p[2] # k + 1
      <4>1. p[2] \in 1 .. k
        BY <1>7, <3>1, <3>3
      <4>2. At(t, p) = At(s, p)
        BY <1>8, <2>3, <3>1, <4>1 DEF At
      <4>3. p \in Places(s)
        BY <2>1, <2>3, <4>1 DEF Places
      <4> QED BY <4>2, <4>3
    <3> QED BY <3>2, <3>3
  <2> QED BY <2>2, <2>3
<1> QED BY <1>5, <1>6, <1>9, <1>10, <1>11

LEMMA TidyPut ==
  ASSUME NEW g, Tidy(g), Len(g.scopes) > 0, NEW k \in Drafts, k.id >= g.id, k.label >= g.label,
         NEW x \in NoId + 1 .. k.id - 1, \A p \in Places(g.scopes) : At(g.scopes, p) # x,
         k.scopes = Put(g.scopes, x)
  PROVE  Tidy(k)
<1> DEFINE s == g.scopes
           t == k.scopes
<1>1. k.id \in Nat /\ k.label \in Nat /\ g.id \in Nat /\ g.label \in Nat /\ s \in Seq(Scopes)
  BY DraftFields DEF Tidy
<1>2. x \in Nat /\ Len(s) > 0
  BY <1>1 DEF NoId
<1>3. \A p \in Places(t) :
        \/ p \in Places(s) /\ At(t, p) = At(s, p)
        \/ p = <<Len(s), Len(s[Len(s)].stackObjs) + 1>> /\ At(t, p) = x
  BY <1>1, <1>2, PutScopes
<1>4. \A y : y \in NoId + 1 .. g.id - 1 => y \in NoId + 1 .. k.id - 1
  BY <1>1 DEF NoId
<1>5. k.id > NoId /\ k.label > 0
  BY <1>1 DEF Tidy, NoId
<1>6. \A p \in Places(s) : At(s, p) \in NoId + 1 .. g.id - 1
  BY DEF Tidy
<1>7. \A p, q \in Places(s) : At(s, p) = At(s, q) => p = q
  BY DEF Tidy, Distinct
<1> HIDE DEF s, t
<1>8. \A p \in Places(t) : At(t, p) \in NoId + 1 .. k.id - 1
  BY <1>3, <1>4, <1>6
<1>9. \A p \in Places(s) : At(s, p) # x
  BY DEF s
<1>10. \A p, q \in Places(t) : At(t, p) = At(t, q) => p = q
  BY <1>3, <1>7, <1>9
<1> QED BY <1>5, <1>8, <1>10 DEF Tidy, Distinct, t

(* What the operations on drafts make of their parts.                      *)
Adds1(g, k, i) ==
  /\ k \in Drafts /\ k.code = Append(g.code, i)
  /\ k.scopes = g.scopes /\ k.id = g.id /\ k.label = g.label

LEMMA AppendDraft ==
  ASSUME NEW g \in Drafts, NEW i \in Codes
  PROVE  Adds1(g, [g EXCEPT !.code = Append(@, i)], i)
<1> DEFINE c == Append(g.code, i)
<1>1. c \in Seq(Codes)
  <2>1. g.code \in Seq(Codes)
    BY DraftFields
  <2> QED BY <2>1
<1> HIDE DEF c
<1>2. LET h == [g EXCEPT !.code = c]
      IN  /\ h \in Drafts /\ h.code = c
          /\ h.scopes = g.scopes /\ h.id = g.id /\ h.label = g.label
  BY <1>1, DraftFields
<1> QED BY <1>2 DEF Adds1, c

LEMMA AddDraft ==
  ASSUME NEW g \in Drafts, NEW op \in Ops, NEW id \in Nat
  PROVE  \E i \in Codes : i.op = op /\ i.id = id /\ Adds1(g, add(g, op, id), i)
<1> DEFINE i == Instruction(op, id, <<>>)
<1>1. i \in Codes /\ i.op = op /\ i.id = id
  BY PlainTypes
<1> HIDE DEF i
<1>2. add(g, op, id) = [g EXCEPT !.code = Append(@, i)]
  BY DEF add, i
<1>3. Adds1(g, add(g, op, id), i)
  BY <1>1, <1>2, AppendDraft
<1> QED BY <1>1, <1>3

LEMMA JumpDraft ==
  ASSUME NEW g \in Drafts, NEW op \in Ops, NEW to \in Seq(Nat)
  PROVE  \E i \in Codes : i.op = op /\ i.to = to /\ Adds1(g, addJump(g, op, to), i)
<1> DEFINE i == Instruction(op, NoId, to)
<1>1. i \in Codes /\ i.op = op /\ i.to = to
  BY DEF Instruction, Codes, NoId
<1> HIDE DEF i
<1>2. addJump(g, op, to) = [g EXCEPT !.code = Append(@, i)]
  BY DEF addJump, i
<1>3. Adds1(g, addJump(g, op, to), i)
  BY <1>1, <1>2, AppendDraft
<1> QED BY <1>1, <1>3

LEMMA PutDraft ==
  ASSUME NEW g \in Drafts, Len(g.scopes) > 0, NEW x \in Nat
  PROVE  /\ addToStack(g, x) \in Drafts /\ addToStack(g, x).code = g.code
         /\ addToStack(g, x).scopes = Put(g.scopes, x) /\ addToStack(g, x).id = g.id
         /\ addToStack(g, x).label = g.label
<1>1. g.scopes \in Seq(Scopes)
  BY DraftFields
<1>2. Put(g.scopes, x) \in Seq(Scopes)
  BY <1>1, PutScopes
<1>3. addToStack(g, x) = [g EXCEPT !.scopes = Put(g.scopes, x)]
  BY DEF addToStack, Put, Drafts
<1> QED BY <1>2, <1>3, DraftFields

LEMMA ConstructedDraft ==
  ASSUME NEW g \in Drafts, Len(g.scopes) > 0
  PROVE  \E i, j \in Codes :
           /\ i.op = "alloc" /\ i.id = g.id /\ j.op = "construct" /\ j.id = g.id
           /\ constructed(g) \in Drafts /\ constructed(g).code = Append(Append(g.code, i), j)
           /\ constructed(g).scopes = Put(g.scopes, g.id) /\ constructed(g).id = g.id + 1
           /\ constructed(g).label = g.label
<1>0. PICK x \in Nat : x = g.id
  BY DraftFields
<1> DEFINE a == add(g, "alloc", x)
           b == addToStack(a, x)
           c == [b EXCEPT !.id = x + 1]
           k == add(c, "construct", x)
<1>1. "alloc" \in Ops /\ "construct" \in Ops
  BY DEF Ops
<1>2. PICK i \in Codes : i.op = "alloc" /\ i.id = x /\ Adds1(g, a, i)
  BY <1>1, AddDraft
<1>3. a \in Drafts /\ a.code = Append(g.code, i) /\ a.scopes = g.scopes /\ a.id = x /\ a.label = g.label
  BY <1>0, <1>2 DEF Adds1
<1> HIDE DEF a
<1>4. /\ b \in Drafts /\ b.code = a.code /\ b.scopes = Put(g.scopes, x) /\ b.id = x
      /\ b.label = g.label
  BY <1>3, PutDraft
<1>5. constructed(g) = k
  <2>1. stack(g) = [b EXCEPT !.id = @ + 1]
    BY <1>0 DEF stack, a
  <2> HIDE DEF b
  <2>2. stack(g) = c
    BY <1>4, <2>1
  <2> QED BY <1>0, <2>2 DEF constructed
<1> HIDE DEF b
<1>6. c \in Drafts /\ c.code = a.code /\ c.scopes = Put(g.scopes, x) /\ c.id = x + 1 /\ c.label = g.label
  <2> DEFINE y == x + 1
  <2>1. y \in Nat
    OBVIOUS
  <2> HIDE DEF y
  <2>2. LET h == [b EXCEPT !.id = y]
        IN h \in Drafts /\ h.id = y /\ h.scopes = b.scopes /\ h.label = b.label /\ h.code = b.code
    BY <1>4, <2>1, DraftFields
  <2> QED BY <1>4, <2>2 DEF y
<1> HIDE DEF c
<1>7. PICK j \in Codes : j.op = "construct" /\ j.id = x /\ Adds1(c, k, j)
  BY <1>1, <1>6, AddDraft
<1>8. /\ k \in Drafts /\ k.code = Append(Append(g.code, i), j) /\ k.scopes = Put(g.scopes, g.id)
      /\ k.id = g.id + 1 /\ k.label = g.label
  BY <1>0, <1>3, <1>6, <1>7 DEF Adds1
<1> HIDE DEF k
<1> QED BY <1>0, <1>2, <1>5, <1>7, <1>8

LEMMA EnterDraft ==
  ASSUME NEW g \in Drafts
  PROVE  /\ enter(g) \in Drafts /\ enter(g).code = g.code /\ enter(g).id = g.id
         /\ enter(g).label = g.label
         /\ Len(enter(g).scopes) = Len(g.scopes) + 1 /\ Len(g.scopes) \in Nat
         /\ Same(g.scopes, enter(g).scopes, Len(g.scopes))
         /\ Below(enter(g).scopes, Len(g.scopes) + 1) = Below(g.scopes, Len(g.scopes))
         /\ Returned(enter(g).scopes, Len(g.scopes) + 1) <=> Returned(g.scopes, Len(g.scopes))
         /\ Fewer(g.scopes, enter(g).scopes)
<1> DEFINE fresh == [stackObjs |-> <<>>, didReturn |-> FALSE]
           s == g.scopes
           n == Len(s)
           t == Append(s, fresh)
<1>1. s \in Seq(Scopes) /\ n \in Nat
  BY DraftFields
<1>2. fresh \in Scopes /\ Len(fresh.stackObjs) = 0 /\ ~fresh.didReturn
  BY DEF Scopes
<1> HIDE DEF fresh
<1>3. t \in Seq(Scopes) /\ Len(t) = n + 1 /\ t[n + 1] = fresh /\ \A i \in 1 .. n : t[i] = s[i]
  BY <1>1, <1>2
<1>4. enter(g) = [g EXCEPT !.scopes = t]
  BY DEF enter, fresh
<1> HIDE DEF t
<1>5. /\ enter(g) \in Drafts /\ enter(g).scopes = t /\ enter(g).id = g.id
      /\ enter(g).label = g.label /\ enter(g).code = g.code
  BY <1>3, <1>4, DraftFields
<1>6. Same(s, t, n)
  BY <1>3 DEF Same
<1>7. Below(t, n + 1) = Below(s, n) /\ (Returned(t, n + 1) <=> Returned(s, n))
  <2>1. Below(t, n) = Below(s, n) /\ (Returned(t, n) <=> Returned(s, n))
    BY <1>6, BelowSame
  <2>2. n + 1 \in Nat \ {0} /\ (n + 1) - 1 = n
    BY <1>1
  <2>3. /\ Below(t, n + 1) = Below(t, n) \cup Within(t, n + 1, n + 1)
        /\ Returned(t, n + 1) <=> Returned(t, n) \/ t[n + 1].didReturn
        /\ Within(t, n + 1, n + 1) =
             {id \in Nat : \E k \in 1 .. Len(t[n + 1].stackObjs) : t[n + 1].stackObjs[k] = id}
    <3> HIDE DEF n
    <3> QED BY <2>2, BelowLast
  <2>4. Within(t, n + 1, n + 1) = {}
    BY <1>2, <1>3, <2>3
  <2> QED BY <1>2, <1>3, <2>1, <2>3, <2>4
<1>8. Fewer(s, t)
  <2>1. ASSUME NEW p \in Places(t) PROVE p \in Places(s) /\ At(t, p) = At(s, p)
    <3>1. p[1] \in 1 .. n + 1 /\ p[2] \in 1 .. Len(t[p[1]].stackObjs) /\ p \in Nat \X Nat
      BY <1>3 DEF Places
    <3>2. p[1] # n + 1
      BY <1>2, <1>3, <3>1
    <3>3. p[1] \in 1 .. n
      BY <1>1, <3>1, <3>2
    <3> QED BY <1>3, <3>1, <3>3 DEF Places, At
  <2> QED BY <2>1 DEF Fewer
<1> QED BY <1>1, <1>3, <1>5, <1>6, <1>7, <1>8

(* Leaving a scope, with an object that is saved or without.               *)
LEMMA ExitDraft ==
  ASSUME NEW g \in Drafts, Len(g.scopes) > 0, NEW save \in Nat
  PROVE  LET s == g.scopes
             r == emitScopeExitInstructions(s, Len(s), save)
             x == exit(g, save)
         IN  /\ Front(s) \in Seq(Scopes) /\ Len(Front(s)) = Len(s) - 1 /\ Same(s, Front(s), Len(s) - 1)
             /\ didSave(s, save) => /\ ~s[Len(s)].didReturn
                                    /\ \E k \in 1 .. Len(s[Len(s)].stackObjs) : s[Len(s)].stackObjs[k] = save
             /\ ~s[Len(s)].didReturn /\ ~didSave(s, save) =>
                  \A k \in 1 .. Len(s[Len(s)].stackObjs) : s[Len(s)].stackObjs[k] # save
             /\ (didSave(s, save) => Len(s) > 1) =>
                  /\ x \in Drafts /\ x.code = g.code \o r /\ x.id = g.id /\ x.label = g.label
                  /\ x.scopes = IF didSave(s, save) THEN Put(Front(s), save) ELSE Front(s)
<1> DEFINE s == g.scopes
           n == Len(s)
           r == emitScopeExitInstructions(s, n, save)
           t == Front(s)
           left == [g EXCEPT !.code = @ \o r, !.scopes = t]
<1>1. s \in Seq(Scopes) /\ n \in Nat \ {0} /\ g.code \in Seq(Codes) /\ s[n] \in Scopes
  BY DraftFields
<1>2. r \in Seq(Codes)
  BY <1>1, ScopeExitTypes
<1>3. exit(g, save) = IF didSave(s, save) THEN addToStack(left, save) ELSE left
  BY <1>1 DEF exit
<1> HIDE DEF r
<1>4. g.code \o r \in Seq(Codes)
  BY <1>1, <1>2, ConcatProperties
<1>5. t \in Seq(Scopes) /\ Len(t) = n - 1 /\ \A i \in 1 .. n - 1 : t[i] = s[i]
  BY <1>1 DEF Front
<1> HIDE DEF t
<1>6. /\ left \in Drafts /\ left.code = g.code \o r /\ left.scopes = t
      /\ left.id = g.id /\ left.label = g.label
  BY <1>4, <1>5 DEF Drafts
<1> HIDE DEF left
<1>7. Same(s, t, n - 1)
  BY <1>5 DEF Same
<1> DEFINE o == s[n].stackObjs
<1>8. didSave(s, save) <=> ~s[n].didReturn /\ \E k \in 1 .. Len(o) : o[k] = save
  <2>1. o \in Seq(Nat)
    BY <1>1 DEF Scopes
  <2>2. Last(s) = s[n]
    BY DEF Last
  <2>3. didSave(s, save) <=> ~s[n].didReturn /\ save \in ToSet(o)
    BY <2>2 DEF didSave
  <2> HIDE DEF o
  <2>4. save \in ToSet(o) <=> \E k \in 1 .. Len(o) : o[k] = save
    BY <2>1, ToSetProps
  <2> QED BY <2>3, <2>4
<1>9. ASSUME didSave(s, save) => n > 1
      PROVE  LET x == exit(g, save)
             IN  /\ x \in Drafts /\ x.code = g.code \o r /\ x.id = g.id /\ x.label = g.label
                 /\ x.scopes = IF didSave(s, save) THEN Put(t, save) ELSE t
  <2>1. CASE didSave(s, save)
    <3>1. Len(left.scopes) > 0
      BY <1>1, <1>5, <1>6, <1>9, <2>1
    <3> QED BY <1>3, <1>6, <2>1, <3>1, PutDraft
  <2>2. CASE ~didSave(s, save)
    BY <1>3, <1>6, <2>2
  <2> QED BY <2>1, <2>2
<1> QED BY <1>5, <1>7, <1>8, <1>9 DEF t, r

-----------------------------------------------------------------------------
(* Drafts with their notes: g has n scopes, and at the end of its code the *)
(* objects of these scopes are alive, unless the end is not reached.       *)

AtEnd(g, n, R, A) ==
  Len(g.code) + 1 \in R => ~Returned(g.scopes, n) /\ A[Len(g.code) + 1] = Below(g.scopes, n)

Sound(g, n, R, A, h) ==
  /\ Tidy(g) /\ Len(g.scopes) = n
  /\ "early" \notin h => Good(g, n)
  /\ Flowing(g.code, R, A, h)
  /\ Closed(g.code, g.label)
  /\ AtEnd(g, n, R, A)

(* The draft k is g with more code, and the same up to its d-th scope.     *)
Grows(g, R, A, k, S, B, d) ==
  /\ g.label <= k.label
  /\ Continues(g.code, R, A, g.label, k.code, S, B)
  /\ d <= Len(g.scopes) /\ d <= Len(k.scopes) /\ Same(g.scopes, k.scopes, d)

Leads(g, R, A, k, n, d, h) == \E S, B : Sound(k, n, S, B, h) /\ Grows(g, R, A, k, S, B, d)

(* The jump at p has a target to come, where the first d scopes are open.  *)
Waits(g, R, A, p, d, h) ==
  /\ p \in 1 .. Len(g.code) /\ g.code[p].op \in Jumps
  /\ p \in R => ~Returned(g.scopes, d) /\ Carries(A[p], Below(g.scopes, d), h)

(* The label l is where the first d scopes are open.                       *)
Begins(g, R, A, l, d) ==
  /\ l \in 1 .. g.label - 1
  /\ \A b \in 1 .. Len(g.code) :
       IsLabel(g.code[b], l) /\ ~Returned(g.scopes, d) => b \in R /\ A[b] = Below(g.scopes, d)

LEMMA SoundTypes ==
  ASSUME NEW g, NEW n, NEW R, NEW A, NEW h, Sound(g, n, R, A, h)
  PROVE  /\ g \in Drafts /\ g.scopes \in Seq(Scopes) /\ Len(g.scopes) = n /\ n \in Nat
         /\ g.code \in Seq(Codes) /\ Len(g.code) \in Nat
         /\ g.label \in Nat \ {0} /\ g.id \in Nat \ {NoId} /\ Distinct(g.scopes)
         /\ A \in [Nat -> SUBSET Nat] /\ R \in SUBSET (1 .. Len(g.code) + 1)
BY TidyTypes DEF Sound, Flowing

(* What is known of a draft is known of the drafts it grows to.            *)
LEMMA GrowsWaits ==
  ASSUME NEW g, NEW R, NEW A, NEW k, NEW S, NEW B, NEW d, Grows(g, R, A, k, S, B, d),
         g.code \in Seq(Codes), k.code \in Seq(Codes), NEW p, NEW h, Waits(g, R, A, p, d, h)
  PROVE  Waits(k, S, B, p, d, h)
<1>1. p \in 1 .. Len(g.code) /\ Len(g.code) <= Len(k.code) /\ Len(g.code) \in Nat /\ Len(k.code) \in Nat
  BY DEF Waits, Grows, Continues
<1>2. k.code[p].op = g.code[p].op /\ (p \in S <=> p \in R) /\ B[p] = A[p]
  BY <1>1 DEF Grows, Continues
<1>3. Below(k.scopes, d) = Below(g.scopes, d) /\ (Returned(k.scopes, d) <=> Returned(g.scopes, d))
  BY BelowSame DEF Grows
<1>4. p \in 1 .. Len(k.code)
  BY <1>1
<1> QED BY <1>2, <1>3, <1>4 DEF Waits

LEMMA GrowsBegins ==
  ASSUME NEW g, NEW R, NEW A, NEW k, NEW S, NEW B, NEW d, Grows(g, R, A, k, S, B, d),
         g.code \in Seq(Codes), k.code \in Seq(Codes), g.label \in Nat, k.label \in Nat,
         NEW l, Begins(g, R, A, l, d)
  PROVE  Begins(k, S, B, l, d)
<1>1. /\ Len(g.code) <= Len(k.code) /\ Len(g.code) \in Nat /\ Len(k.code) \in Nat
      /\ l \in 1 .. g.label - 1 /\ l \in 1 .. k.label - 1
  BY DEF Begins, Grows, Continues
<1>2. Below(k.scopes, d) = Below(g.scopes, d) /\ (Returned(k.scopes, d) <=> Returned(g.scopes, d))
  BY BelowSame DEF Grows
<1>3. ASSUME NEW b \in 1 .. Len(k.code), IsLabel(k.code[b], l), ~Returned(k.scopes, d)
      PROVE  b \in S /\ B[b] = Below(k.scopes, d)
  <2>1. b \notin Len(g.code) + 1 .. Len(k.code)
    <3>1. ASSUME b \in Len(g.code) + 1 .. Len(k.code) PROVE l >= g.label
      BY <1>3, <3>1 DEF Grows, Continues
    <3> QED BY <1>1, <3>1
  <2>2. b \in 1 .. Len(g.code)
    BY <1>1, <2>1
  <2>3. IsLabel(g.code[b], l) /\ (b \in S <=> b \in R) /\ B[b] = A[b]
    BY <1>3, <2>2 DEF Grows, Continues, IsLabel
  <2>4. b \in R /\ A[b] = Below(g.scopes, d)
    BY <1>2, <1>3, <2>2, <2>3 DEF Begins
  <2> QED BY <1>2, <2>3, <2>4
<1> QED BY <1>1, <1>3 DEF Begins

LEMMA GrowsLess ==
  ASSUME NEW g, NEW R, NEW A, NEW k, NEW S, NEW B, NEW d \in Nat, Grows(g, R, A, k, S, B, d),
         Len(g.scopes) \in Nat, Len(k.scopes) \in Nat, NEW e \in 0 .. d
  PROVE  Grows(g, R, A, k, S, B, e)
<1>1. e <= Len(g.scopes) /\ e <= Len(k.scopes)
  BY DEF Grows
<1>2. Same(g.scopes, k.scopes, e)
  BY DEF Grows, Same
<1> QED BY <1>1, <1>2 DEF Grows

LEMMA LabelTypes ==
  ASSUME NEW c \in Seq(Codes), NEW b \in 1 .. Len(c), NEW l, IsLabel(c[b], l)
  PROVE  l \in Nat
<1>1. c[b].to \in Seq(Nat) /\ c[b].to = <<l>>
  <2>1. c[b] \in Codes
    OBVIOUS
  <2> QED BY <2>1 DEF Codes, IsLabel
<1>2. Len(<<l>>) = 1 /\ <<l>>[1] = l /\ <<l>> \in Seq(Nat)
  BY <1>1
<1> QED BY <1>2

LEMMA ContinuesTrans ==
  ASSUME NEW c \in Seq(Codes), NEW R, NEW A, NEW e \in Seq(Codes), NEW S, NEW B,
         NEW f \in Seq(Codes), NEW T, NEW C, NEW l \in Nat, NEW m \in Nat, l <= m,
         Continues(c, R, A, l, e, S, B), Continues(e, S, B, m, f, T, C)
  PROVE  Continues(c, R, A, l, f, T, C)
<1>1. /\ Len(c) <= Len(e) /\ Len(c) \in Nat /\ Len(e) \in Nat
      /\ Len(e) <= Len(f) /\ Len(f) \in Nat
  BY DEF Continues
<1>2. ASSUME NEW a \in 1 .. Len(c)
      PROVE  /\ f[a].op = c[a].op /\ (f[a].op = "label" => f[a].to = c[a].to)
             /\ (a \in T <=> a \in R) /\ C[a] = A[a]
  <2>1. a \in 1 .. Len(e)
    BY <1>1
  <2> QED BY <2>1 DEF Continues
<1>3. ASSUME NEW b \in Len(c) + 1 .. Len(f), NEW k, IsLabel(f[b], k) PROVE k >= l
  <2>0. b \in 1 .. Len(f)
    BY <1>1
  <2>1. CASE b \in Len(e) + 1 .. Len(f)
    <3>1. k >= m
      BY <1>3, <2>1 DEF Continues
    <3>2. k \in Nat
      BY <1>3, <2>0, LabelTypes
    <3> QED BY <1>1, <3>1, <3>2
  <2>2. CASE b \in Len(c) + 1 .. Len(e)
    <3>1. b \in 1 .. Len(e)
      BY <1>1, <2>2
    <3>2. IsLabel(e[b], k)
      BY <1>3, <3>1 DEF Continues, IsLabel
    <3> QED BY <2>2, <3>2 DEF Continues
  <2> QED BY <1>1, <2>1, <2>2
<1>4. Len(c) <= Len(f)
  BY <1>1
<1> QED BY <1>2, <1>3, <1>4 DEF Continues

LEMMA GrowsTrans ==
  ASSUME NEW g, NEW R, NEW A, NEW k, NEW S, NEW B, NEW m, NEW T, NEW C, NEW d \in Nat,
         Grows(g, R, A, k, S, B, d), Grows(k, S, B, m, T, C, d),
         g.code \in Seq(Codes), k.code \in Seq(Codes), m.code \in Seq(Codes),
         g.label \in Nat, k.label \in Nat, m.label \in Nat
  PROVE  Grows(g, R, A, m, T, C, d)
<1>1. g.label <= k.label /\ k.label <= m.label /\ g.label <= m.label
  BY DEF Grows
<1>2. Continues(g.code, R, A, g.label, m.code, T, C)
  BY <1>1, ContinuesTrans DEF Grows
<1>3. Same(g.scopes, m.scopes, d) /\ d <= Len(g.scopes) /\ d <= Len(m.scopes)
  BY DEF Grows, Same
<1> QED BY <1>1, <1>2, <1>3 DEF Grows

LEMMA GrowsSelf ==
  ASSUME NEW g \in Drafts, NEW R, NEW A
  PROVE  Grows(g, R, A, g, R, A, Len(g.scopes))
<1>1. g.label \in Nat /\ g.scopes \in Seq(Scopes) /\ g.code \in Seq(Codes)
  BY DraftFields
<1> QED BY <1>1 DEF Grows, Continues, Same

LEMMA LeadsTrans ==
  ASSUME NEW g, NEW n, NEW R, NEW A, NEW h, Sound(g, n, R, A, h), NEW k, NEW i, NEW d \in Nat,
         Leads(g, R, A, k, i, d, h), NEW m, NEW j,
         \A S, B : Sound(k, i, S, B, h) => Leads(k, S, B, m, j, d, h)
  PROVE  Leads(g, R, A, m, j, d, h)
<1>1. PICK S, B : Sound(k, i, S, B, h) /\ Grows(g, R, A, k, S, B, d)
  BY DEF Leads
<1>2. PICK T, C : Sound(m, j, T, C, h) /\ Grows(k, S, B, m, T, C, d)
  BY <1>1 DEF Leads
<1>3. /\ g.code \in Seq(Codes) /\ k.code \in Seq(Codes) /\ m.code \in Seq(Codes)
      /\ g.label \in Nat /\ k.label \in Nat /\ m.label \in Nat
  BY <1>1, <1>2, SoundTypes
<1>4. Grows(g, R, A, m, T, C, d)
  BY <1>1, <1>2, <1>3, GrowsTrans
<1> QED BY <1>2, <1>4 DEF Leads

LEMMA LeadsLess ==
  ASSUME NEW g, NEW n, NEW R, NEW A, NEW h, Sound(g, n, R, A, h), NEW k, NEW i, NEW d \in Nat,
         Leads(g, R, A, k, i, d, h), NEW e \in 0 .. d
  PROVE  Leads(g, R, A, k, i, e, h)
<1>1. PICK S, B : Sound(k, i, S, B, h) /\ Grows(g, R, A, k, S, B, d)
  BY DEF Leads
<1>2. Len(g.scopes) \in Nat /\ Len(k.scopes) \in Nat
  BY <1>1, SoundTypes
<1>3. Grows(g, R, A, k, S, B, e)
  BY <1>1, <1>2, GrowsLess
<1> QED BY <1>1, <1>3 DEF Leads

(* Early exits only make less known.                                       *)
LEMMA CarriesWeaken ==
  ASSUME NEW h, NEW e, h \subseteq e, NEW x, NEW y, Carries(x, y, h)
  PROVE  Carries(x, y, e)
BY DEF Carries, Exact

LEMMA FlowingWeaken ==
  ASSUME NEW h, NEW e, h \subseteq e, NEW c, NEW R, NEW A, Flowing(c, R, A, h)
  PROVE  Flowing(c, R, A, e)
<1>1. \A a \in R : AliveHeld(c, A, e, a)
  BY DEF Flowing, AliveHeld
<1>2. ASSUME NEW a \in R, a \in 1 .. Len(c) PROVE Flow(c, R, A, e, a)
  <2>1. Flow(c, R, A, h, a)
    BY <1>2 DEF Flowing
  <2>2. Exact(e) => Exact(h)
    BY DEF Exact
  <2>3. c[a].op \notin Jumps \cup {"ret"} => a + 1 \in R /\ Follows(c[a], A[a], A[a + 1], e)
    BY <2>1 DEF Flow, Follows
  <2>4. c[a].op \in Jumps =>
       \A n \in 1 .. Len(c[a].to), b \in 1 .. Len(c) :
         IsLabel(c[b], c[a].to[n]) => b \in R /\ Carries(A[a], A[b], e)
    BY <2>1, CarriesWeaken DEF Flow
  <2> QED BY <2>1, <2>2, <2>3, <2>4 DEF Flow
<1> QED BY <1>1, <1>2 DEF Flowing

LEMMA SoundWeaken ==
  ASSUME NEW h, NEW e, h \subseteq e, NEW g, NEW n, NEW R, NEW A, Sound(g, n, R, A, h)
  PROVE  Sound(g, n, R, A, e)
BY FlowingWeaken DEF Sound

LEMMA WaitsWeaken ==
  ASSUME NEW h, NEW e, h \subseteq e, NEW g, NEW R, NEW A, NEW p, NEW d, Waits(g, R, A, p, d, h)
  PROVE  Waits(g, R, A, p, d, e)
BY CarriesWeaken DEF Waits
-----------------------------------------------------------------------------
(* The labels of code that gets longer.                                    *)

LEMMA ClosedAppend ==
  ASSUME NEW c \in Seq(Codes), NEW l \in Nat, Closed(c, l), NEW i \in Codes,
         i.op \in Jumps \cup {"label"} => \A n \in 1 .. Len(i.to) : i.to[n] \in 1 .. l - 1
  PROVE  Closed(Append(c, i), l)
<1> DEFINE d == Append(c, i)
<1>1. d \in Seq(Codes) /\ Len(d) = Len(c) + 1 /\ Len(c) \in Nat /\ d[Len(c) + 1] = i
      /\ \A a \in 1 .. Len(c) : d[a] = c[a]
  BY AppendCode
<1> HIDE DEF d
<1>2. ASSUME NEW k \in 1 .. l - 1 PROVE \E b \in 1 .. Len(d) : IsLabel(d[b], k)
  <2>1. PICK b \in 1 .. Len(c) : IsLabel(c[b], k)
    BY DEF Closed
  <2>2. b \in 1 .. Len(d) /\ d[b] = c[b]
    BY <1>1
  <2> QED BY <2>1, <2>2
<1>3. ASSUME NEW b \in 1 .. Len(d), d[b].op \in Jumps \cup {"label"}, NEW n \in 1 .. Len(d[b].to)
      PROVE  d[b].to[n] \in 1 .. l - 1
  <2>1. CASE b = Len(c) + 1
    BY <1>1, <1>3, <2>1
  <2>2. CASE b # Len(c) + 1
    <3>1. b \in 1 .. Len(c)
      BY <1>1, <2>2
    <3> QED BY <1>1, <1>3, <3>1 DEF Closed
  <2> QED BY <2>1, <2>2
<1>4. Closed(d, l)
  BY <1>2, <1>3 DEF Closed
<1> QED BY <1>4 DEF d

LEMMA ClosedUnwind ==
  ASSUME NEW c \in Seq(Codes), NEW l \in Nat, Closed(c, l), NEW r, Destroying(r)
  PROVE  Closed(c \o r, l)
<1> DEFINE d == c \o r
<1>0. r \in Seq(Codes)
  BY DEF Destroying
<1>1. d \in Seq(Codes) /\ Len(d) = Len(c) + Len(r) /\ Len(c) \in Nat /\ Len(r) \in Nat
      /\ (\A a \in 1 .. Len(c) : d[a] = c[a]) /\ \A a \in Len(c) + 1 .. Len(d) : d[a] = r[a - Len(c)]
  BY <1>0, ConcatProperties
<1> HIDE DEF d
<1>2. ASSUME NEW k \in 1 .. l - 1 PROVE \E b \in 1 .. Len(d) : IsLabel(d[b], k)
  <2>1. PICK b \in 1 .. Len(c) : IsLabel(c[b], k)
    BY DEF Closed
  <2>2. b \in 1 .. Len(d) /\ d[b] = c[b]
    BY <1>1
  <2> QED BY <2>1, <2>2
<1>3. ASSUME NEW b \in 1 .. Len(d), d[b].op \in Jumps \cup {"label"}, NEW n \in 1 .. Len(d[b].to)
      PROVE  d[b].to[n] \in 1 .. l - 1
  <2>1. CASE b \in 1 .. Len(c)
    BY <1>1, <1>3, <2>1 DEF Closed
  <2>2. CASE b \in Len(c) + 1 .. Len(d)
    <3>1. b - Len(c) \in 1 .. Len(r)
      BY <1>1, <2>2
    <3>2. d[b].op \in {"dtor", "free"}
      BY <1>1, <2>2, <3>1 DEF Destroying
    <3> QED BY <1>3, <3>2 DEF Jumps
  <2> QED BY <1>1, <2>1, <2>2
<1>4. Closed(d, l)
  BY <1>2, <1>3 DEF Closed
<1> QED BY <1>4 DEF d

LEMMA ClosedLabel ==
  ASSUME NEW c \in Seq(Codes), NEW l \in Nat \ {0}, Closed(c, l), NEW at,
         \A p \in at : p \in 1 .. Len(c) /\ c[p].op \in Jumps, NEW i \in Codes, IsLabel(i, l)
  PROVE  Closed(Append(Completed(c, at, l), i), l + 1)
<1> DEFINE d == Completed(c, at, l)
           e == Append(d, i)
<1>1. /\ d \in Seq(Codes) /\ Len(d) = Len(c) /\ Len(c) \in Nat
      /\ \A a \in 1 .. Len(c) :
           /\ d[a].op = c[a].op /\ d[a].id = c[a].id
           /\ a \notin at => d[a] = c[a]
           /\ a \in at => d[a].to = Append(c[a].to, l)
  BY CompletedTypes
<1> HIDE DEF d
<1>2. e \in Seq(Codes) /\ Len(e) = Len(c) + 1 /\ e[Len(c) + 1] = i /\ \A a \in 1 .. Len(c) : e[a] = d[a]
  BY <1>1, AppendCode
<1> HIDE DEF e
<1>3. ASSUME NEW k \in 1 .. (l + 1) - 1 PROVE \E b \in 1 .. Len(e) : IsLabel(e[b], k)
  <2>1. CASE k = l
    <3>1. Len(c) + 1 \in 1 .. Len(e)
      BY <1>1, <1>2
    <3> QED BY <1>2, <2>1, <3>1
  <2>2. CASE k # l
    <3>1. k \in 1 .. l - 1
      BY <2>2
    <3>2. PICK b \in 1 .. Len(c) : IsLabel(c[b], k)
      BY <3>1 DEF Closed
    <3>3. b \notin at
      BY <3>2 DEF IsLabel, Jumps
    <3>4. b \in 1 .. Len(e) /\ e[b] = c[b]
      BY <1>1, <1>2, <3>3
    <3> QED BY <3>2, <3>4
  <2> QED BY <2>1, <2>2
<1>4. ASSUME NEW b \in 1 .. Len(e), e[b].op \in Jumps \cup {"label"}, NEW n \in 1 .. Len(e[b].to)
      PROVE  e[b].to[n] \in 1 .. (l + 1) - 1
  <2>1. CASE b = Len(c) + 1
    <3>1. e[b].to = <<l>>
      BY <1>2, <2>1 DEF IsLabel
    <3>2. n = 1 /\ e[b].to[n] = l
      BY <1>4, <3>1
    <3> QED BY <3>2
  <2>2. CASE b \in 1 .. Len(c)
    <3>0. e[b] = d[b] /\ c[b].op \in Jumps \cup {"label"}
      BY <1>1, <1>2, <1>4, <2>2
    <3>1. CASE b \notin at
      <4>1. e[b] = c[b]
        BY <1>1, <2>2, <3>0, <3>1
      <4>2. e[b].to[n] \in 1 .. l - 1
        BY <1>4, <2>2, <3>0, <4>1 DEF Closed
      <4> QED BY <4>2
    <3>2. CASE b \in at
      <4> DEFINE to == c[b].to
      <4>1. to \in Seq(Nat)
        <5>1. c[b] \in Codes
          BY <2>2
        <5> QED BY <5>1 DEF Codes
      <4>2. e[b].to = Append(to, l) /\ \A j \in 1 .. Len(to) : to[j] \in 1 .. l - 1
        BY <1>1, <2>2, <3>0, <3>2 DEF Closed
      <4> HIDE DEF to
      <4>3. n \in 1 .. Len(to) + 1 /\ Len(to) \in Nat
        BY <1>4, <4>1, <4>2
      <4>4. CASE n \in 1 .. Len(to)
        BY <4>1, <4>2, <4>4
      <4>5. CASE n = Len(to) + 1
        BY <4>1, <4>2, <4>5
      <4> QED BY <4>3, <4>4, <4>5
    <3> QED BY <3>1, <3>2
  <2> QED BY <1>1, <1>2, <2>1, <2>2
<1>5. Closed(e, l + 1)
  BY <1>3, <1>4 DEF Closed
<1> QED BY <1>5 DEF d, e

-----------------------------------------------------------------------------
(* What the operations on drafts do to their notes.                        *)

LEMMA AddLeads ==
  ASSUME NEW g, NEW n, NEW R, NEW A, NEW h, Sound(g, n, R, A, h),
         NEW op \in {"use", "reserve"}, NEW id \in Nat, op = "use" => id \in Below(g.scopes, n)
  PROVE  Leads(g, R, A, add(g, op, id), n, n, h)
<1> DEFINE c == g.code
           s == g.scopes
           k == add(g, op, id)
           x == A[Len(c) + 1]
<1>1. /\ g \in Drafts /\ s \in Seq(Scopes) /\ Len(s) = n /\ n \in Nat
      /\ c \in Seq(Codes) /\ Len(c) \in Nat /\ g.label \in Nat \ {0} /\ g.id \in Nat \ {NoId}
      /\ x \in SUBSET Nat
  BY SoundTypes
<1>2. PICK i \in Codes : i.op = op /\ i.id = id /\ Adds1(g, k, i)
  <2>1. op \in Ops
    BY DEF Ops
  <2> QED BY <1>1, <2>1, AddDraft
<1>3. Good(g, n) => Good(k, n)
  <2>1. op \in Ops \ {"free"}
    BY DEF Ops
  <2> QED BY <2>1, AddGood
<1> HIDE DEF k, x
<1>4. Len(c) + 1 \in R => x = Below(s, n)
  BY DEF Sound, AtEnd, x
<1>5. Follows(i, x, x, h)
  BY <1>2 DEF Follows, After
<1>6. PICK S, B : FlowAdded(c, R, A, h, i, x, S, B)
  <2>1. Flowing(c, R, A, h) /\ Fits(c, R, A, h, i, x)
    BY <1>1, <1>2, <1>4, <1>5 DEF Sound, Fits, x
  <2> QED BY <2>1, FlowAppend
<1>7. k \in Drafts /\ k.code = Append(c, i) /\ k.scopes = s /\ k.id = g.id /\ k.label = g.label
  BY <1>2 DEF Adds1
<1>8. Len(k.code) = Len(c) + 1
  BY <1>1, <1>7, AppendCode
<1>9. Tidy(k)
  <2>1. Fewer(s, s)
    BY DEF Fewer
  <2>2. Tidy(g)
    BY DEF Sound
  <2>3. k.id >= g.id /\ k.label >= g.label
    BY <1>1, <1>7
  <2> QED BY <1>7, <2>1, <2>2, <2>3, TidyFewer
<1>10. Closed(k.code, k.label)
  <2>1. i.op \notin Jumps \cup {"label"}
    BY <1>2 DEF Jumps
  <2>2. Closed(c, g.label)
    BY DEF Sound
  <2> QED BY <1>1, <1>7, <2>1, <2>2, ClosedAppend
<1>11. AtEnd(k, n, S, B)
  <2>1. Len(k.code) + 1 = Len(c) + 2
    BY <1>1, <1>8
  <2> QED BY <1>4, <1>6, <1>7, <2>1 DEF AtEnd, Sound, FlowAdded
<1>12. Sound(k, n, S, B, h)
  BY <1>1, <1>3, <1>6, <1>7, <1>9, <1>10, <1>11 DEF Sound, FlowAdded
<1>13. Grows(g, R, A, k, S, B, n)
  BY <1>1, <1>6, <1>7 DEF Grows, Same, FlowAdded
<1> QED BY <1>12, <1>13 DEF Leads, k

LEMMA EmptyLeads ==
  ASSUME NEW g, NEW n, NEW R, NEW A, NEW h, Sound(g, n, R, A, h), "empty" \in h
  PROVE  Leads(g, R, A, [add(g, "construct", g.id) EXCEPT !.id = @ + 1], n, n, h)
<1> DEFINE c == g.code
           s == g.scopes
           j == add(g, "construct", g.id)
           k == [j EXCEPT !.id = @ + 1]
           x == A[Len(c) + 1]
<1>1. /\ g \in Drafts /\ s \in Seq(Scopes) /\ Len(s) = n /\ n \in Nat
      /\ c \in Seq(Codes) /\ Len(c) \in Nat /\ g.label \in Nat \ {0} /\ g.id \in Nat \ {NoId}
      /\ x \in SUBSET Nat
  BY SoundTypes
<1>2. PICK i \in Codes : i.op = "construct" /\ i.id = g.id /\ Adds1(g, j, i)
  BY <1>1, AddDraft DEF Ops
<1>3. Good(g, n) => Good(k, n)
  <2>1. ASSUME Good(g, n) PROVE Good(j, n) /\ j.id = g.id
    <3>1. "construct" \in Ops \ {"free"} /\ g.id \in Nat
      BY <1>1 DEF Ops
    <3> HIDE DEF j
    <3> QED BY <2>1, <3>1, AddGood DEF j
  <2> DEFINE y == j.id + 1
  <2>2. y \in Nat /\ y >= j.id
    BY <1>1, <1>2 DEF Adds1
  <2>3. k = [j EXCEPT !.id = y]
    OBVIOUS
  <2> HIDE DEF y
  <2> QED BY <2>1, <2>2, <2>3, IdOnly
<1>4. k \in Drafts /\ k.code = Append(c, i) /\ k.scopes = s /\ k.id = g.id + 1 /\ k.label = g.label
  <2>1. /\ j \in Drafts /\ j.code = Append(c, i) /\ j.scopes = s /\ j.id = g.id /\ j.label = g.label
    BY <1>2 DEF Adds1
  <2> DEFINE y == j.id + 1
  <2>2. y \in Nat
    BY <1>1, <2>1
  <2>3. k = [j EXCEPT !.id = y]
    OBVIOUS
  <2> HIDE DEF y
  <2>4. LET f == [j EXCEPT !.id = y]
        IN f \in Drafts /\ f.id = y /\ f.scopes = j.scopes /\ f.label = j.label /\ f.code = j.code
    BY <2>1, <2>2, DraftFields
  <2> QED BY <2>1, <2>3, <2>4 DEF y
<1> HIDE DEF k, j, x
<1>5. Len(c) + 1 \in R => x = Below(s, n)
  BY DEF Sound, AtEnd, x
<1>6. g.id \notin Below(s, n)
  <2>1. ASSUME g.id \in Below(s, n) PROVE FALSE
    <3>1. n \in 0 .. Len(s) /\ 1 \in Nat \ {0}
      BY <1>1
    <3>2. PICK p \in Places(s) : At(s, p) = g.id
      BY <1>1, <2>1, <3>1, WithinPlaces DEF Below
    <3>3. g.id \in NoId + 1 .. g.id - 1
      BY <3>2 DEF Sound, Tidy
    <3> QED BY <1>1, <3>3
  <2> QED BY <2>1
<1>7. PICK S, B : FlowAdded(c, R, A, h, i, x, S, B)
  <2>1. Flowing(c, R, A, h)
    BY DEF Sound
  <2>2. Follows(i, x, x, h)
    BY <1>2 DEF Follows
  <2>3. Fits(c, R, A, h, i, x)
    BY <1>1, <1>2, <1>5, <1>6, <2>2 DEF Fits, x
  <2> QED BY <2>1, <2>3, FlowAppend
<1>8. Len(k.code) + 1 = Len(c) + 2
  BY <1>1, <1>4, AppendCode
<1>9. Tidy(k)
  <2>1. Fewer(s, s)
    BY DEF Fewer
  <2>2. k.id >= g.id /\ k.label >= g.label
    BY <1>1, <1>4
  <2> QED BY <1>4, <2>1, <2>2, TidyFewer DEF Sound
<1>10. Closed(k.code, k.label)
  <2>1. i.op \notin Jumps \cup {"label"}
    BY <1>2 DEF Jumps
  <2> QED BY <1>1, <1>4, <2>1, ClosedAppend DEF Sound
<1>11. AtEnd(k, n, S, B)
  BY <1>4, <1>5, <1>7, <1>8 DEF AtEnd, Sound, FlowAdded
<1>12. Sound(k, n, S, B, h)
  BY <1>1, <1>3, <1>4, <1>7, <1>9, <1>10, <1>11 DEF Sound, FlowAdded
<1>13. Grows(g, R, A, k, S, B, n)
  BY <1>1, <1>4, <1>7 DEF Grows, Same, FlowAdded
<1> QED BY <1>12, <1>13 DEF Leads, k, j

LEMMA EnterLeads ==
  ASSUME NEW g, NEW n, NEW R, NEW A, NEW h, Sound(g, n, R, A, h)
  PROVE  Leads(g, R, A, enter(g), n + 1, n, h)
<1> DEFINE k == enter(g)
<1>1. /\ g \in Drafts /\ g.scopes \in Seq(Scopes) /\ Len(g.scopes) = n /\ n \in Nat
      /\ g.code \in Seq(Codes) /\ Len(g.code) \in Nat /\ g.label \in Nat \ {0} /\ g.id \in Nat \ {NoId}
  BY SoundTypes
<1>2. /\ k \in Drafts /\ k.code = g.code /\ k.id = g.id /\ k.label = g.label
      /\ Len(k.scopes) = n + 1 /\ Same(g.scopes, k.scopes, n)
      /\ Below(k.scopes, n + 1) = Below(g.scopes, n)
      /\ Returned(k.scopes, n + 1) <=> Returned(g.scopes, n)
      /\ Fewer(g.scopes, k.scopes)
  BY <1>1, EnterDraft
<1>3. Good(g, n) => Good(k, n + 1)
  BY <1>1, EnterGood
<1> HIDE DEF k
<1>4. Tidy(k)
  <2>1. k.id >= g.id /\ k.label >= g.label
    BY <1>1, <1>2
  <2> QED BY <1>2, <2>1, TidyFewer DEF Sound
<1>5. Sound(k, n + 1, R, A, h)
  BY <1>2, <1>3, <1>4 DEF Sound, AtEnd
<1>6. Grows(g, R, A, g, R, A, n)
  BY <1>1, GrowsSelf
<1>7. Grows(g, R, A, k, R, A, n)
  <2>1. n <= Len(k.scopes) /\ g.label <= k.label
    BY <1>1, <1>2
  <2> QED BY <1>1, <1>2, <1>6, <2>1 DEF Grows
<1> QED BY <1>5, <1>7 DEF Leads, k

LEMMA ConstructedLeads ==
  ASSUME NEW g, NEW n, n > 0, NEW R, NEW A, NEW h, Sound(g, n, R, A, h)
  PROVE  Leads(g, R, A, constructed(g), n, n - 1, h)
<1> DEFINE c == g.code
           s == g.scopes
           k == constructed(g)
           x == A[Len(c) + 1]
           y == x \cup {g.id}
<1>1. /\ g \in Drafts /\ s \in Seq(Scopes) /\ Len(s) = n /\ n \in Nat \ {0}
      /\ c \in Seq(Codes) /\ Len(c) \in Nat /\ g.label \in Nat \ {0} /\ g.id \in Nat \ {NoId}
      /\ x \in SUBSET Nat /\ y \in SUBSET Nat
  BY SoundTypes
<1>2. PICK i \in Codes, j \in Codes :
           /\ i.op = "alloc" /\ i.id = g.id /\ j.op = "construct" /\ j.id = g.id
           /\ k \in Drafts /\ k.code = Append(Append(c, i), j)
           /\ k.scopes = Put(s, g.id) /\ k.id = g.id + 1
           /\ k.label = g.label
  BY <1>1, ConstructedDraft
<1>3. Good(g, n) => Good(k, n)
  BY <1>1, ConstructedGood
<1> HIDE DEF k
<1> DEFINE d == Append(c, i)
<1>4. d \in Seq(Codes) /\ Len(d) = Len(c) + 1
  BY <1>1, AppendCode
<1>5. PICK S, B : FlowAdded(c, R, A, h, i, x, S, B)
  <2>1. Fits(c, R, A, h, i, x)
    BY <1>1, <1>2 DEF Fits, Follows, After
  <2> QED BY <2>1, FlowAppend DEF Sound
<1>6. Held(d, g.id)
  BY <1>1, <1>2, HeldOneMore
<1> HIDE DEF d, x
<1>7. /\ Flowing(d, S, B, h) /\ Continues(c, R, A, g.label, d, S, B)
      /\ Len(d) + 1 \in S <=> Len(c) + 1 \in R
      /\ B[Len(d) + 1] = x
  BY <1>1, <1>4, <1>5 DEF FlowAdded, d
<1>8. PICK T, C : FlowAdded(d, S, B, h, j, y, T, C)
  <2>1. Fits(d, S, B, h, j, y)
    BY <1>1, <1>2, <1>6, <1>7 DEF Fits, Follows, After
  <2> QED BY <1>7, <2>1, FlowAppend
<1>9. Len(k.code) + 1 = Len(d) + 2 /\ k.code \in Seq(Codes)
  BY <1>2, <1>4, AppendCode DEF d
<1>10. /\ Flowing(k.code, T, C, h) /\ Continues(d, S, B, g.label, k.code, T, C)
       /\ Len(k.code) + 1 \in T <=> Len(c) + 1 \in R
       /\ C[Len(k.code) + 1] = y
  BY <1>2, <1>7, <1>8, <1>9 DEF FlowAdded, d
<1>11. Continues(c, R, A, g.label, k.code, T, C)
  <2>1. g.label <= g.label /\ g.label \in Nat
    BY <1>1
  <2> QED BY <1>1, <1>4, <1>7, <1>9, <1>10, <2>1, ContinuesTrans
<1>12. Closed(k.code, k.label)
  <2>1. i.op \notin Jumps \cup {"label"} /\ j.op \notin Jumps \cup {"label"}
    BY <1>2 DEF Jumps
  <2>2. Closed(d, g.label)
    BY <1>1, <2>1, ClosedAppend DEF Sound, d
  <2> QED BY <1>1, <1>2, <1>4, <2>1, <2>2, ClosedAppend DEF d
<1>13. /\ Len(k.scopes) = n /\ Same(s, k.scopes, n - 1)
       /\ Below(k.scopes, n) = Below(s, n) \cup {g.id}
       /\ Returned(k.scopes, n) <=> Returned(s, n)
  <2> DEFINE t == Put(s, g.id)
  <2>1. g.id \in Nat /\ Len(s) > 0
    BY <1>1
  <2>2. /\ Len(t) = Len(s) /\ Same(s, t, Len(s) - 1)
        /\ Below(t, Len(s)) = Below(s, Len(s)) \cup {g.id}
        /\ Returned(t, Len(s)) <=> Returned(s, Len(s))
    BY <1>1, <2>1, PutScopes
  <2>3. Len(s) = n /\ k.scopes = t
    BY <1>1, <1>2
  <2> HIDE DEF t, s
  <2> QED BY ONLY <2>2, <2>3
<1>14. Tidy(k)
  <2>1. k.id >= g.id /\ k.label >= g.label /\ g.id \in NoId + 1 .. k.id - 1 /\ Len(s) > 0
    BY <1>1, <1>2 DEF NoId
  <2>2. ASSUME NEW p \in Places(s) PROVE At(s, p) # g.id
    <3>1. At(s, p) \in NoId + 1 .. g.id - 1
      BY DEF Sound, Tidy
    <3> QED BY <1>1, <3>1
  <2> QED BY <1>2, <2>1, <2>2, TidyPut DEF Sound
<1>15. AtEnd(k, n, T, C)
  <2>1. Len(c) + 1 \in R => ~Returned(s, n) /\ x = Below(s, n)
    BY DEF Sound, AtEnd, x
  <2> QED BY <1>10, <1>13, <2>1 DEF AtEnd
<1>16. Sound(k, n, T, C, h)
  BY <1>3, <1>10, <1>12, <1>13, <1>14, <1>15 DEF Sound
<1>17. Grows(g, R, A, k, T, C, n - 1)
  <2>1. n - 1 <= Len(s) /\ n - 1 <= Len(k.scopes) /\ g.label <= k.label
    BY <1>1, <1>2, <1>13
  <2> QED BY <1>11, <1>13, <2>1 DEF Grows
<1> QED BY <1>16, <1>17 DEF Leads, k

(* A scope is left: what it destroys is what is alive of it.               *)
LEMMA ExitLeads ==
  ASSUME NEW g, NEW n, n > 0, NEW R, NEW A, NEW h, Sound(g, n, R, A, h),
         NEW save \in Nat, save = NoId \/ n > 1,
         NEW d \in 0 .. n - 1, save = NoId \/ d <= n - 2
  PROVE  Leads(g, R, A, exit(g, save), n - 1, d, h)
<1> DEFINE c == g.code
           s == g.scopes
           k == exit(g, save)
           r == emitScopeExitInstructions(s, n, save)
           x == A[Len(c) + 1]
           f == Front(s)
           o == s[n].stackObjs
<1>1. /\ g \in Drafts /\ s \in Seq(Scopes) /\ Len(s) = n /\ n \in Nat \ {0} /\ s[n] \in Scopes /\ o \in Seq(Nat)
      /\ c \in Seq(Codes) /\ Len(c) \in Nat /\ g.label \in Nat \ {0} /\ g.id \in Nat \ {NoId}
      /\ Distinct(s)
  <2>1. /\ g \in Drafts /\ s \in Seq(Scopes) /\ Len(s) = n /\ n \in Nat \ {0}
        /\ c \in Seq(Codes) /\ Len(c) \in Nat /\ g.label \in Nat \ {0} /\ g.id \in Nat \ {NoId}
        /\ Distinct(s)
    BY SoundTypes
  <2>2. s[n] \in Scopes
    BY <2>1
  <2> QED BY <2>1, <2>2 DEF Scopes
<1>2. /\ f \in Seq(Scopes) /\ Len(f) = n - 1 /\ Same(s, f, n - 1)
      /\ didSave(s, save) => ~s[n].didReturn /\ \E q \in 1 .. Len(o) : o[q] = save
      /\ ~s[n].didReturn /\ ~didSave(s, save) => \A q \in 1 .. Len(o) : o[q] # save
      /\ (didSave(s, save) => n > 1) =>
            /\ k \in Drafts /\ k.code = c \o r /\ k.id = g.id /\ k.label = g.label
            /\ k.scopes = IF didSave(s, save) THEN Put(f, save) ELSE f
  <2>1. Len(s) > 0
    BY <1>1
  <2>2. LET s1 == g.scopes
            r1 == emitScopeExitInstructions(s1, Len(s1), save)
            x1 == exit(g, save)
         IN  /\ Front(s1) \in Seq(Scopes) /\ Len(Front(s1)) = Len(s1) - 1 /\ Same(s1, Front(s1), Len(s1) - 1)
             /\ didSave(s1, save) => /\ ~s1[Len(s1)].didReturn
                                    /\ \E q \in 1 .. Len(s1[Len(s1)].stackObjs) : s1[Len(s1)].stackObjs[q] = save
             /\ ~s1[Len(s1)].didReturn /\ ~didSave(s1, save) =>
                  \A q \in 1 .. Len(s1[Len(s1)].stackObjs) : s1[Len(s1)].stackObjs[q] # save
             /\ (didSave(s1, save) => Len(s1) > 1) =>
                  /\ x1 \in Drafts /\ x1.code = g.code \o r1 /\ x1.id = g.id /\ x1.label = g.label
                  /\ x1.scopes = IF didSave(s1, save) THEN Put(Front(s1), save) ELSE Front(s1)
    <3> HIDE DEF k, f, r, c, o
    <3> QED BY ONLY <1>1, <2>1, save \in Nat, ExitDraft
  <2>3. Len(g.scopes) = n
    BY <1>1
  <2> QED BY ONLY <2>2, <2>3 DEF k, f, r, c, s, o
<1>3. Good(g, n) => Good(k, n - 1)
  BY <1>1, ExitGood
<1> HIDE DEF k, f, r
<1>4. ASSUME NEW q \in 1 .. Len(o) PROVE /\ <<n, q>> \in Places(s) /\ At(s, <<n, q>>) = o[q]
                                         /\ o[q] \in NoId + 1 .. g.id - 1
  <2>1. n \in 1 .. Len(s) /\ q \in Nat
    BY <1>1
  <2>2. <<n, q>> \in Places(s) /\ At(s, <<n, q>>) = o[q]
    BY <1>1, <2>1 DEF Places, At
  <2>3. At(s, <<n, q>>) \in NoId + 1 .. g.id - 1
    BY <2>2 DEF Sound, Tidy
  <2> QED BY <2>2, <2>3
<1>5. /\ didSave(s, save) => n > 1 /\ save # NoId
      /\ k \in Drafts /\ k.code = c \o r /\ k.id = g.id /\ k.label = g.label
      /\ k.scopes = IF didSave(s, save) THEN Put(f, save) ELSE f
  <2>1. ASSUME didSave(s, save) PROVE n > 1 /\ save # NoId
    <3>1. PICK q \in 1 .. Len(o) : o[q] = save
      BY <1>2, <2>1
    <3>2. save \in NoId + 1 .. g.id - 1
      BY <1>4, <3>1
    <3>3. save # NoId
      BY <1>1, <3>2 DEF NoId
    <3>4. n > 1
      BY <3>3
    <3> QED BY <3>3, <3>4
  <2> QED BY <1>2, <2>1
<1>6. /\ Destroying(r) /\ Once(r)
      /\ ~s[n].didReturn => Gone(r) = Within(s, n, n) \ {save}
  BY <1>1, ScopeExitShape DEF r
<1>7. Below(s, n) = Below(s, n - 1) \cup Within(s, n, n) /\ (Returned(s, n) <=> Returned(s, n - 1) \/ s[n].didReturn)
      /\ Within(s, n, n) = {id \in Nat : \E q \in 1 .. Len(o) : o[q] = id}
  <2>1. n \in Nat \ {0}
    BY <1>1
  <2> HIDE DEF s, o
  <2>2. /\ Below(s, n) = Below(s, n - 1) \cup Within(s, n, n)
        /\ Returned(s, n) <=> Returned(s, n - 1) \/ s[n].didReturn
        /\ Within(s, n, n) = {id \in Nat : \E q \in 1 .. Len(s[n].stackObjs) : s[n].stackObjs[q] = id}
    BY ONLY <2>1, BelowLast
  <2>3. o = s[n].stackObjs
    BY DEF o
  <2> QED BY ONLY <2>2, <2>3
<1>8. Below(s, n - 1) \cap Within(s, n, n) = {}
  <2>1. n \in 0 .. Len(s) /\ n \in 1 .. n + 1
    BY <1>1
  <2> QED BY <1>1, <2>1, WithinApart
<1>9. Len(c) + 1 \in R => ~Returned(s, n) /\ x = Below(s, n)
  BY DEF Sound, AtEnd
<1>10. Flowing(c, R, A, h)
  BY DEF Sound
<1> HIDE DEF x
<1>11. PICK S, B : FlowUnwound(c, R, A, h, r, S, B)
  <2>1. Len(c) + 1 \in R => Gone(r) \subseteq x
    BY <1>6, <1>7, <1>9
  <2>2. Unwinds(c, R, A, h, r)
    BY <1>6, <2>1 DEF Unwinds, Gone, x
  <2> QED BY <1>10, <2>2, FlowUnwind
<1>12. /\ Flowing(k.code, S, B, h) /\ Continues(c, R, A, g.label, k.code, S, B)
       /\ Len(k.code) + 1 \in S <=> Len(c) + 1 \in R
       /\ B[Len(k.code) + 1] = x \ Gone(r)
  BY <1>5, <1>11 DEF FlowUnwound, Gone, x
<1>13. Closed(k.code, k.label)
  BY <1>1, <1>5, <1>6, ClosedUnwind DEF Sound
<1>14. Below(f, n - 1) = Below(s, n - 1) /\ (Returned(f, n - 1) <=> Returned(s, n - 1))
  BY <1>2, BelowSame
<1>15. CASE didSave(s, save)
  <2>1. PICK q \in 1 .. Len(o) : o[q] = save
    BY <1>2, <1>15
  <2>2. n > 1 /\ save \in Within(s, n, n) /\ k.scopes = Put(f, save) /\ ~s[n].didReturn /\ d <= n - 2
    BY <1>2, <1>5, <1>7, <1>15, <2>1
  <2> DEFINE t == Put(f, save)
  <2>3. /\ Len(t) = n - 1 /\ Same(f, t, n - 2)
        /\ Below(t, n - 1) = Below(f, n - 1) \cup {save}
        /\ Returned(t, n - 1) <=> Returned(f, n - 1)
    <3>1. Len(f) > 0 /\ (n - 1) - 1 = n - 2
      BY <1>1, <1>2, <2>2
    <3>2. /\ Len(t) = Len(f) /\ Same(f, t, Len(f) - 1)
          /\ Below(t, Len(f)) = Below(f, Len(f)) \cup {save}
          /\ Returned(t, Len(f)) <=> Returned(f, Len(f))
      BY <1>2, <3>1, PutScopes
    <3>3. Len(f) = n - 1 /\ Len(f) - 1 = n - 2
      BY <1>2, <3>1
    <3> HIDE DEF t
    <3> QED BY ONLY <3>2, <3>3
  <2>4. AtEnd(k, n - 1, S, B)
    <3>1. ASSUME Len(c) + 1 \in R PROVE ~Returned(t, n - 1) /\ Below(t, n - 1) = x \ Gone(r)
      <4> HIDE DEF t
      <4>1. x = Below(s, n - 1) \cup Within(s, n, n) /\ Gone(r) = Within(s, n, n) \ {save}
        BY <1>6, <1>7, <1>9, <2>2, <3>1
      <4>2. Below(t, n - 1) = Below(s, n - 1) \cup {save}
        BY <1>14, <2>3
      <4>3. x \ Gone(r) = Below(s, n - 1) \cup {save}
        BY ONLY <1>8, <2>2, <4>1
      <4> QED BY <1>7, <1>9, <1>14, <2>3, <3>1, <4>2, <4>3
    <3> QED BY <1>12, <2>2, <3>1 DEF AtEnd
  <2>5. Tidy(k)
    <3> DEFINE e == [g EXCEPT !.scopes = f]
    <3>1. /\ e \in Drafts /\ e.scopes = f /\ e.id = g.id /\ e.label = g.label
      BY <1>1, <1>2, DraftFields
    <3> HIDE DEF e
    <3>2. Fewer(s, f)
      <4>0. \A i \in 1 .. n - 1 : f[i] = s[i]
        BY <1>2 DEF Same
      <4>1. Len(f) <= Len(s) /\ \A i \in 1 .. Len(f) : f[i].stackObjs = s[i].stackObjs
        <5>1. Len(f) = n - 1 /\ Len(s) = n /\ n \in Nat
          BY <1>1, <1>2
        <5>2. \A i \in 1 .. Len(f) : f[i] = s[i]
          BY <4>0, <5>1
        <5> QED BY <5>1, <5>2
      <4> QED BY <1>1, <1>2, <4>1, FewerSame
    <3>3. Tidy(e)
      <4>1. e.id >= g.id /\ e.label >= g.label
        BY <1>1, <3>1
      <4> QED BY <3>1, <3>2, <4>1, TidyFewer DEF Sound
    <3>4. ASSUME NEW p \in Places(f) PROVE At(f, p) # save
      <4>1. p \in Places(s) /\ At(f, p) = At(s, p)
        BY <3>2 DEF Fewer
      <4>2. p[1] \in 1 .. n - 1
        BY <1>2 DEF Places
      <4>3. p # <<n, q>>
        <5>1. n \notin 1 .. n - 1
          BY <1>1
        <5> QED BY <4>2, <5>1
      <4>4. At(s, p) # At(s, <<n, q>>)
        BY <1>1, <1>4, <4>1, <4>3 DEF Distinct
      <4> QED BY <1>4, <2>1, <4>1, <4>4
    <3>5. k.id >= e.id /\ k.label >= e.label /\ save \in NoId + 1 .. k.id - 1
      <4>1. save \in NoId + 1 .. g.id - 1
        BY <1>4, <2>1
      <4> QED BY <1>1, <1>5, <3>1, <4>1
    <3>6. Len(e.scopes) > 0
      BY <1>1, <1>2, <2>2, <3>1
    <3> QED BY <1>5, <2>2, <3>1, <3>3, <3>4, <3>5, <3>6, TidyPut
  <2>6. Len(k.scopes) = n - 1
    BY <2>2, <2>3
  <2>7. Sound(k, n - 1, S, B, h)
    BY <1>3, <1>12, <1>13, <2>4, <2>5, <2>6 DEF Sound
  <2>8. Same(s, k.scopes, d)
    <3>1. \A i \in 1 .. d : i \in 1 .. n - 1 /\ i \in 1 .. n - 2
      BY <1>1, <2>2
    <3> QED BY <1>2, <2>2, <2>3, <3>1 DEF Same
  <2>9. Grows(g, R, A, k, S, B, d)
    <3>1. d <= Len(s) /\ d <= Len(k.scopes) /\ g.label <= k.label
      BY <1>1, <1>5, <2>6
    <3> QED BY <1>12, <2>8, <3>1 DEF Grows
  <2> QED BY <2>7, <2>9 DEF Leads, k
<1>16. CASE ~didSave(s, save)
  <2>1. k.scopes = f
    BY <1>5, <1>16
  <2>2. AtEnd(k, n - 1, S, B)
    <3>1. ASSUME Len(c) + 1 \in R PROVE ~Returned(f, n - 1) /\ Below(f, n - 1) = x \ Gone(r)
      <4>1. x = Below(s, n - 1) \cup Within(s, n, n) /\ Gone(r) = Within(s, n, n) \ {save} /\ ~s[n].didReturn
        BY <1>6, <1>7, <1>9, <3>1
      <4>2. save \notin Within(s, n, n)
        BY <1>2, <1>7, <1>16, <4>1
      <4>3. x \ Gone(r) = Below(s, n - 1)
        BY ONLY <1>8, <4>1, <4>2
      <4> QED BY <1>7, <1>9, <1>14, <3>1, <4>3
    <3> QED BY <1>12, <2>1, <3>1 DEF AtEnd
  <2>3. Tidy(k)
    <3>1. Fewer(s, f)
      <4>0. \A i \in 1 .. n - 1 : f[i] = s[i]
        BY <1>2 DEF Same
      <4>1. Len(f) <= Len(s) /\ \A i \in 1 .. Len(f) : f[i].stackObjs = s[i].stackObjs
        <5>1. Len(f) = n - 1 /\ Len(s) = n /\ n \in Nat
          BY <1>1, <1>2
        <5>2. \A i \in 1 .. Len(f) : f[i] = s[i]
          BY <4>0, <5>1
        <5> QED BY <5>1, <5>2
      <4> QED BY <1>1, <1>2, <4>1, FewerSame
    <3>2. k.id >= g.id /\ k.label >= g.label
      BY <1>1, <1>5
    <3> QED BY <1>5, <2>1, <3>1, <3>2, TidyFewer DEF Sound
  <2>4. Sound(k, n - 1, S, B, h)
    BY <1>2, <1>3, <1>12, <1>13, <2>1, <2>2, <2>3 DEF Sound
  <2>5. Grows(g, R, A, k, S, B, d)
    <3>1. d <= Len(s) /\ d <= Len(k.scopes) /\ g.label <= k.label
      BY <1>1, <1>2, <1>5, <2>1
    <3>2. Same(s, k.scopes, d)
      BY <1>1, <1>2, <2>1 DEF Same
    <3> QED BY <1>12, <3>1, <3>2 DEF Grows
  <2> QED BY <2>4, <2>5 DEF Leads, k
<1> QED BY <1>15, <1>16

-----------------------------------------------------------------------------
(* Jumps and labels.                                                       *)

(* A jump whose targets so far are where the scopes are those open here.   *)
LEMMA JumpSound ==
  ASSUME NEW g, NEW n, NEW R, NEW A, NEW h, Sound(g, n, R, A, h),
         NEW op \in Jumps, NEW to \in Seq(Nat), \A m \in 1 .. Len(to) : Begins(g, R, A, to[m], n)
  PROVE  /\ Sound(addJump(g, op, to), n, R, A, h) /\ Grows(g, R, A, addJump(g, op, to), R, A, n)
         /\ Waits(addJump(g, op, to), R, A, Len(g.code) + 1, n, h)
<1> DEFINE c == g.code
           s == g.scopes
           k == addJump(g, op, to)
           x == A[Len(c) + 1]
<1>1. /\ g \in Drafts /\ s \in Seq(Scopes) /\ Len(s) = n /\ n \in Nat
      /\ c \in Seq(Codes) /\ Len(c) \in Nat /\ g.label \in Nat \ {0} /\ g.id \in Nat \ {NoId}
      /\ R \in SUBSET (1 .. Len(c) + 1)
  BY SoundTypes
<1>2. op \in Ops \ {"free"}
  BY DEF Ops, Jumps
<1>3. PICK i \in Codes : i.op = op /\ i.to = to /\ Adds1(g, k, i)
  BY <1>1, <1>2, JumpDraft
<1>4. Good(g, n) => Good(k, n)
  BY <1>2, JumpGood
<1> HIDE DEF k
<1>5. k \in Drafts /\ k.code = Append(c, i) /\ k.scopes = s /\ k.id = g.id /\ k.label = g.label
  BY <1>3 DEF Adds1
<1>6. Len(c) + 1 \in R => ~Returned(s, n) /\ x = Below(s, n)
  BY DEF Sound, AtEnd
<1> HIDE DEF x
<1>7. Leaps(c, R, A, h, i)
  <2>1. ASSUME Len(c) + 1 \in R, NEW m \in 1 .. Len(i.to), NEW b \in 1 .. Len(c), IsLabel(c[b], i.to[m])
        PROVE  b \in R /\ Carries(A[Len(c) + 1], A[b], h)
    <3>1. Begins(g, R, A, to[m], n)
      BY <1>3, <2>1
    <3>2. b \in R /\ A[b] = Below(s, n)
      BY <1>3, <1>6, <2>1, <3>1 DEF Begins
    <3> QED BY <1>6, <2>1, <3>2 DEF Carries, x
  <2>2. i.op \in Jumps \cup {"ret"} /\ i.op # "ret"
    BY <1>3 DEF Jumps
  <2> QED BY <2>1, <2>2 DEF Leaps
<1>8. Flowing(k.code, R, A, h) /\ Continues(c, R, A, g.label, k.code, R, A)
  BY <1>5, <1>7, FlowJump DEF Sound
<1>9. Len(k.code) = Len(c) + 1 /\ k.code[Len(c) + 1] = i
  BY <1>1, <1>5, AppendCode
<1>10. Tidy(k)
  <2>1. Fewer(s, s)
    BY DEF Fewer
  <2>2. k.id >= g.id /\ k.label >= g.label
    BY <1>1, <1>5
  <2> QED BY <1>5, <2>1, <2>2, TidyFewer DEF Sound
<1>11. Closed(k.code, k.label)
  <2>1. ASSUME NEW m \in 1 .. Len(i.to) PROVE i.to[m] \in 1 .. g.label - 1
    BY <1>3 DEF Begins
  <2> QED BY <1>1, <1>5, <2>1, ClosedAppend DEF Sound
<1>12. AtEnd(k, n, R, A)
  <2>1. Stops(k.code)
    BY <1>1, <1>3, <1>9 DEF Stops
  <2> QED BY <1>8, <2>1 DEF Flowing, AtEnd
<1>13. Sound(k, n, R, A, h)
  BY <1>1, <1>4, <1>5, <1>8, <1>10, <1>11, <1>12 DEF Sound
<1>14. Grows(g, R, A, k, R, A, n)
  BY <1>1, <1>5, <1>8 DEF Grows, Same
<1>15. Waits(k, R, A, Len(c) + 1, n, h)
  <2>1. Len(c) + 1 \in 1 .. Len(k.code)
    BY <1>1, <1>9
  <2>2. k.code[Len(c) + 1].op \in Jumps
    BY <1>3, <1>9
  <2>3. Len(c) + 1 \in R => ~Returned(k.scopes, n) /\ Carries(A[Len(c) + 1], Below(k.scopes, n), h)
    BY <1>5, <1>6 DEF Carries, x
  <2> QED BY <2>1, <2>2, <2>3 DEF Waits
<1> QED BY <1>13, <1>14, <1>15 DEF k

LEMMA JumpLaterSound ==
  ASSUME NEW g, NEW n, NEW R, NEW A, NEW h, Sound(g, n, R, A, h), NEW op \in Jumps
  PROVE  /\ Sound(addJump(g, op, <<>>), n, R, A, h) /\ Grows(g, R, A, addJump(g, op, <<>>), R, A, n)
         /\ Waits(addJump(g, op, <<>>), R, A, Len(g.code) + 1, n, h)
<1> DEFINE to == <<>>
<1>1. to \in Seq(Nat) /\ \A m \in 1 .. Len(to) : Begins(g, R, A, to[m], n)
  OBVIOUS
<1> HIDE DEF to
<1>2. /\ Sound(addJump(g, op, to), n, R, A, h) /\ Grows(g, R, A, addJump(g, op, to), R, A, n)
      /\ Waits(addJump(g, op, to), R, A, Len(g.code) + 1, n, h)
  BY <1>1, JumpSound
<1> QED BY <1>2, Zenon DEF to

LEMMA JumpBackSound ==
  ASSUME NEW g, NEW n, NEW R, NEW A, NEW h, Sound(g, n, R, A, h), NEW op \in Jumps,
         NEW l \in Nat, Begins(g, R, A, l, n)
  PROVE  /\ Sound(addJump(g, op, <<l>>), n, R, A, h) /\ Grows(g, R, A, addJump(g, op, <<l>>), R, A, n)
         /\ Waits(addJump(g, op, <<l>>), R, A, Len(g.code) + 1, n, h)
<1> DEFINE to == <<l>>
<1>1. to \in Seq(Nat) /\ \A m \in 1 .. Len(to) : Begins(g, R, A, to[m], n)
  OBVIOUS
<1> HIDE DEF to
<1>2. /\ Sound(addJump(g, op, to), n, R, A, h) /\ Grows(g, R, A, addJump(g, op, to), R, A, n)
      /\ Waits(addJump(g, op, to), R, A, Len(g.code) + 1, n, h)
  BY <1>1, JumpSound
<1> QED BY <1>2, Zenon DEF to

(* A label, and jumps that are completed with it.                          *)
LEMMA LabelDraft ==
  ASSUME NEW g \in Drafts, NEW at
  PROVE  \E i \in Codes :
           /\ IsLabel(i, g.label)
           /\ label(targets(g, at, g.label)) \in Drafts
           /\ label(targets(g, at, g.label)).code = Append(Completed(g.code, at, g.label), i)
           /\ label(targets(g, at, g.label)).scopes = g.scopes
           /\ label(targets(g, at, g.label)).id = g.id
           /\ label(targets(g, at, g.label)).label = g.label + 1
<1> DEFINE l == g.label
           c == Completed(g.code, at, l)
           f == targets(g, at, l)
           to == <<l>>
           j == addJump(f, "label", to)
<1>1. l \in Nat /\ g.code \in Seq(Codes) /\ to \in Seq(Nat)
  BY DraftFields
<1>2. c \in Seq(Codes)
  BY <1>1, CompletedTypes
<1>3. f = [g EXCEPT !.code = c]
  BY DEF targets, Completed
<1> HIDE DEF c
<1>4. f \in Drafts /\ f.code = c /\ f.scopes = g.scopes /\ f.id = g.id /\ f.label = l
  BY <1>2, <1>3, DraftFields
<1> HIDE DEF f
<1> HIDE DEF to
<1>5. PICK i \in Codes : i.op = "label" /\ i.to = to /\ Adds1(f, j, i)
  BY <1>1, <1>4, JumpDraft DEF Ops
<1>6. j \in Drafts /\ j.code = Append(c, i) /\ j.scopes = g.scopes /\ j.id = g.id /\ j.label = l
  BY <1>4, <1>5 DEF Adds1
<1>7. label(f) = [j EXCEPT !.label = @ + 1]
  <2>1. label(f) = [addJump(f, "label", <<f.label>>) EXCEPT !.label = @ + 1]
    BY DEF label
  <2>2. f.label = l
    BY <1>4
  <2>3. label(f) = [addJump(f, "label", <<l>>) EXCEPT !.label = @ + 1]
    BY ONLY <2>1, <2>2, Zenon
  <2> QED BY <2>3, Zenon DEF j, to
<1> HIDE DEF j
<1> DEFINE y == j.label + 1
<1>8. y \in Nat /\ y = l + 1
  BY <1>1, <1>6
<1>9. label(f) = [j EXCEPT !.label = y]
  BY <1>7
<1> HIDE DEF y
<1>10. LET e == [j EXCEPT !.label = y]
       IN e \in Drafts /\ e.label = y /\ e.scopes = j.scopes /\ e.id = j.id /\ e.code = j.code
  BY <1>6, <1>8, DraftFields
<1>11. /\ label(f) \in Drafts /\ label(f).code = Append(c, i) /\ label(f).scopes = g.scopes
       /\ label(f).id = g.id /\ label(f).label = l + 1
  BY <1>6, <1>8, <1>9, <1>10
<1>12. IsLabel(i, l)
  BY <1>5 DEF IsLabel, to
<1> QED BY <1>11, <1>12 DEF f, c

LEMMA LabelSound ==
  ASSUME NEW g, NEW n, NEW R, NEW A, NEW h, Sound(g, n, R, A, h), NEW at,
         \A p \in at : Waits(g, R, A, p, n, h)
  PROVE  \E S, B : /\ Sound(label(targets(g, at, g.label)), n, S, B, h)
                   /\ Grows(g, R, A, label(targets(g, at, g.label)), S, B, n)
                   /\ Begins(label(targets(g, at, g.label)), S, B, g.label, n)
<1> DEFINE c == g.code
           s == g.scopes
           l == g.label
           k == label(targets(g, at, l))
           d == Completed(c, at, l)
           x == Below(s, n)
           reach == ~Returned(s, n)
<1>1. /\ g \in Drafts /\ s \in Seq(Scopes) /\ Len(s) = n /\ n \in Nat
      /\ c \in Seq(Codes) /\ Len(c) \in Nat /\ l \in Nat \ {0} /\ g.id \in Nat \ {NoId}
  BY SoundTypes
<1>2. PICK i \in Codes :
         /\ IsLabel(i, l) /\ k \in Drafts /\ k.code = Append(d, i) /\ k.scopes = s /\ k.id = g.id
         /\ k.label = l + 1
  BY <1>1, LabelDraft
<1>3. Good(g, n) => Good(k, n)
  <2>1. ASSUME Good(g, n) PROVE Good(k, n)
    BY <2>1, LabelTargets
  <2> QED BY <2>1
<1> HIDE DEF k
<1>4. /\ d \in Seq(Codes) /\ Len(d) = Len(c)
      /\ \A a \in 1 .. Len(c) : d[a].op = c[a].op /\ (a \notin at => d[a] = c[a])
  BY <1>1, CompletedTypes
<1>5. x \in SUBSET Nat /\ reach \in BOOLEAN
  BY DEF Below, Within
<1>6. "early" \notin h => \A id \in x : Held(c, id)
  <2>1. ASSUME "early" \notin h, NEW id \in x PROVE Held(c, id)
    <3>1. n \in 0 .. Len(s) /\ 1 \in Nat \ {0}
      BY <1>1
    <3>2. PICK p \in Places(s) : At(s, p) = id
      BY <1>1, <2>1, <3>1, WithinPlaces DEF Below
    <3> QED BY <2>1, <3>2 DEF Sound, Good
  <2> QED BY <2>1
<1> HIDE DEF d, x, reach
<1>7. PICK S, B : FlowLabelled(c, R, A, h, l, at, i, reach, x, S, B)
  <2>1. Len(c) + 1 \in R => reach /\ A[Len(c) + 1] = x
    BY DEF Sound, AtEnd, reach, x
  <2>2. \A p \in at : /\ p \in 1 .. Len(c) /\ c[p].op \in Jumps
                      /\ p \in R => reach /\ Carries(A[p], x, h)
    BY DEF Waits, reach, x
  <2>3. Closed(c, l) /\ Flowing(c, R, A, h)
    BY DEF Sound
  <2>4. Lands(c, R, A, h, l, at, i, reach, x)
    BY <1>1, <1>2, <1>5, <1>6, <2>1, <2>2, <2>3 DEF Lands
  <2> QED BY <2>3, <2>4, FlowLabel
<1>8. Len(k.code) = Len(c) + 1 /\ k.code[Len(c) + 1] = i /\ \A a \in 1 .. Len(c) : k.code[a] = d[a]
  BY <1>2, <1>4, AppendCode
<1>9. /\ Flowing(k.code, S, B, h) /\ Continues(c, R, A, l, k.code, S, B)
      /\ Len(k.code) + 1 \in S => reach
      /\ B[Len(k.code) + 1] = x
      /\ reach => Len(c) + 1 \in S
      /\ B[Len(c) + 1] = x
  <2>1. Len(k.code) + 1 = Len(c) + 2
    BY <1>1, <1>8
  <2> QED BY <1>2, <1>7, <2>1 DEF FlowLabelled, d
<1>10. Tidy(k)
  <2>1. Fewer(s, s)
    BY DEF Fewer
  <2>2. k.id >= g.id /\ k.label >= g.label
    BY <1>1, <1>2
  <2> QED BY <1>2, <2>1, <2>2, TidyFewer DEF Sound
<1>11. Closed(k.code, k.label)
  <2>1. \A p \in at : p \in 1 .. Len(c) /\ c[p].op \in Jumps
    BY DEF Waits
  <2> QED BY <1>1, <1>2, <2>1, ClosedLabel DEF Sound, d
<1>12. AtEnd(k, n, S, B)
  BY <1>2, <1>9 DEF AtEnd, reach, x
<1>13. Sound(k, n, S, B, h)
  BY <1>1, <1>2, <1>3, <1>9, <1>10, <1>11, <1>12 DEF Sound
<1>14. Grows(g, R, A, k, S, B, n)
  <2>1. n <= Len(s) /\ g.label <= k.label
    BY <1>1, <1>2
  <2> QED BY <1>2, <1>9, <2>1 DEF Grows, Same
<1>15. Begins(k, S, B, l, n)
  <2>1. l \in 1 .. k.label - 1
    BY <1>1, <1>2
  <2>2. ASSUME NEW b \in 1 .. Len(k.code), IsLabel(k.code[b], l), ~Returned(k.scopes, n)
        PROVE  b \in S /\ B[b] = Below(k.scopes, n)
    <3>1. CASE b = Len(c) + 1
      BY <1>2, <1>9, <2>2, <3>1 DEF reach, x
    <3>2. CASE b \in 1 .. Len(c)
      <4>1. b \notin at
        BY <1>4, <1>8, <2>2, <3>2 DEF Waits, IsLabel, Jumps
      <4>2. c[b].op = "label" /\ c[b].to = <<l>>
        BY <1>4, <1>8, <2>2, <3>2, <4>1 DEF IsLabel
      <4>3. \A m \in 1 .. Len(c[b].to) : c[b].to[m] \in 1 .. l - 1
        BY <3>2, <4>2 DEF Sound, Closed
      <4>4. 1 \in 1 .. Len(<<l>>) /\ <<l>>[1] = l
        OBVIOUS
      <4>5. l \in 1 .. l - 1
        BY <4>2, <4>3, <4>4
      <4> QED BY <1>1, <4>5
    <3> QED BY <1>1, <1>8, <3>1, <3>2
  <2> QED BY <2>1, <2>2 DEF Begins
<1> QED BY <1>13, <1>14, <1>15 DEF k

(* A label alone completes no jump.                                        *)
LEMMA LabelAlone ==
  ASSUME NEW g \in Drafts
  PROVE  label(g) = label(targets(g, {}, g.label))
<1> DEFINE d == Completed(g.code, {}, g.label)
<1>1. g.code \in Seq(Codes) /\ g.label \in Nat
  BY DraftFields
<1>2. d \in Seq(Codes) /\ Len(d) = Len(g.code) /\ \A a \in 1 .. Len(g.code) : d[a] = g.code[a]
  BY <1>1, CompletedTypes
<1>3. targets(g, {}, g.label) = [g EXCEPT !.code = d]
  BY DEF targets, Completed
<1> HIDE DEF d
<1>4. d = g.code
  BY <1>1, <1>2, SeqEqual
<1>5. [g EXCEPT !.code = g.code] = g
  BY DEF Drafts
<1> QED BY <1>3, <1>4, <1>5

(* A branch to the label behind it is completed with it at once.           *)
LEMMA BranchLabel ==
  ASSUME NEW g \in Drafts
  PROVE  label(addJump(g, "branch", <<g.label>>)) =
           label(targets(addJump(g, "branch", <<>>), {Len(g.code) + 1}, g.label))
<1> DEFINE l == g.label
           c == g.code
           none == <<>>
           to == <<l>>
           i == Instruction("branch", NoId, none)
           j == Instruction("branch", NoId, to)
           e == Append(c, i)
           f == Append(c, j)
           d == Completed(e, {Len(c) + 1}, l)
<1>1. c \in Seq(Codes) /\ l \in Nat /\ Len(c) \in Nat
  BY DraftFields
<1>2. none \in Seq(Nat) /\ to \in Seq(Nat) /\ Append(none, l) = to
  BY <1>1
<1> HIDE DEF none, to
<1>3. i \in Codes /\ j \in Codes
  BY <1>2, InstructionTypes DEF Ops, NoId
<1>4. target(i, l) = j
  <2>1. Append(i.to, l) = to
    BY <1>2 DEF Instruction
  <2>2. target(i, l) = [i EXCEPT !.to = to]
    BY ONLY <2>1, Zenon DEF target
  <2>3. [i EXCEPT !.to = to] = j
    BY DEF Instruction
  <2> QED BY <2>2, <2>3
<1> HIDE DEF i, j
<1>5. e \in Seq(Codes) /\ Len(e) = Len(c) + 1 /\ e[Len(c) + 1] = i /\ \A a \in 1 .. Len(c) : e[a] = c[a]
  BY <1>1, <1>3, AppendCode
<1>6. f \in Seq(Codes) /\ Len(f) = Len(c) + 1 /\ f[Len(c) + 1] = j /\ \A a \in 1 .. Len(c) : f[a] = c[a]
  BY <1>1, <1>3, AppendCode
<1> HIDE DEF e, f
<1>7. /\ d \in Seq(Codes) /\ Len(d) = Len(e)
      /\ \A a \in 1 .. Len(e) : a \notin {Len(c) + 1} => d[a] = e[a]
  BY <1>1, <1>5, CompletedTypes
<1>8. d[Len(c) + 1] = j
  BY <1>1, <1>4, <1>5 DEF Completed
<1> HIDE DEF d
<1>9. \A a \in 1 .. Len(d) : d[a] = f[a]
  <2> SUFFICES ASSUME NEW a \in 1 .. Len(d) PROVE d[a] = f[a]
    OBVIOUS
  <2>1. CASE a = Len(c) + 1
    BY <1>6, <1>8, <2>1
  <2>2. CASE a # Len(c) + 1
    <3>1. a \in 1 .. Len(c) /\ a \in 1 .. Len(e)
      BY <1>1, <1>5, <1>7, <2>2
    <3> QED BY <1>5, <1>6, <1>7, <2>2, <3>1
  <2> QED BY <2>1, <2>2
<1>10. d = f
  BY <1>5, <1>6, <1>7, <1>9, SeqEqual
<1>11. addJump(g, "branch", to) = [g EXCEPT !.code = f]
  BY DEF addJump, f, j
<1> DEFINE m == [g EXCEPT !.code = e]
<1>12. addJump(g, "branch", none) = m
  BY DEF addJump, e, i
<1>13. m \in Drafts /\ m.code = e
  BY <1>5, DraftFields
<1>14. targets(m, {Len(c) + 1}, l) = [m EXCEPT !.code = d]
  BY <1>13 DEF targets, d, Completed
<1>15. [m EXCEPT !.code = d] = [g EXCEPT !.code = f]
  BY <1>10 DEF Drafts
<1>16. label(addJump(g, "branch", to)) = label(targets(addJump(g, "branch", none), {Len(c) + 1}, l))
  BY <1>11, <1>12, <1>14, <1>15
<1> QED BY <1>16, Zenon DEF to, none

LEMMA BranchSound ==
  ASSUME NEW g, NEW n, NEW R, NEW A, NEW h, Sound(g, n, R, A, h)
  PROVE  \E S, B : /\ Sound(label(addJump(g, "branch", <<g.label>>)), n, S, B, h)
                   /\ Grows(g, R, A, label(addJump(g, "branch", <<g.label>>)), S, B, n)
                   /\ Waits(label(addJump(g, "branch", <<g.label>>)), S, B, Len(g.code) + 1, n, h)
<1> DEFINE f == addJump(g, "branch", <<>>)
           at == {Len(g.code) + 1}
           k == label(targets(f, at, f.label))
<1>1. g \in Drafts /\ g.label \in Nat /\ n \in Nat
  BY SoundTypes
<1>2. Sound(f, n, R, A, h) /\ Grows(g, R, A, f, R, A, n) /\ Waits(f, R, A, Len(g.code) + 1, n, h)
  <2>1. "branch" \in Jumps
    BY DEF Jumps
  <2> QED BY ONLY <2>1, Sound(g, n, R, A, h), JumpLaterSound, Zenon
<1>3. f.label = g.label
  <2>1. f = [g EXCEPT !.code = Append(@, Instruction("branch", NoId, <<>>))]
    BY ONLY Zenon DEF addJump
  <2> QED BY <1>1, <2>1 DEF Drafts
<1>4. label(addJump(g, "branch", <<g.label>>)) = k
  <2>1. k = label(targets(f, at, g.label))
    BY ONLY <1>3, Zenon
  <2> QED BY ONLY <1>1, <2>1, BranchLabel, Zenon
<1> HIDE DEF f
<1>5. \A p \in at : Waits(f, R, A, p, n, h)
  BY <1>2
<1>6. PICK S, B : Sound(k, n, S, B, h) /\ Grows(f, R, A, k, S, B, n)
  BY <1>2, <1>5, LabelSound
<1> HIDE DEF k
<1>7. /\ g.code \in Seq(Codes) /\ f.code \in Seq(Codes) /\ k.code \in Seq(Codes)
      /\ g.label \in Nat /\ f.label \in Nat /\ k.label \in Nat
  BY <1>2, <1>6, SoundTypes
<1>8. Grows(g, R, A, k, S, B, n)
  BY <1>1, <1>2, <1>6, <1>7, GrowsTrans
<1>9. Waits(k, S, B, Len(g.code) + 1, n, h)
  BY <1>2, <1>6, <1>7, GrowsWaits
<1> QED BY ONLY <1>4, <1>6, <1>8, <1>9

-----------------------------------------------------------------------------
(* Expressions with temporaries, and variables.                            *)

LEMMA MaybeLeads ==
  ASSUME NEW g, NEW n, NEW R, NEW A, NEW h, Sound(g, n, R, A, h), NEW temp \in BOOLEAN
  PROVE  Leads(g, R, A, Maybe(constructed, temp, enter(g)), n + 1, n, h)
<1>1. n \in Nat /\ n + 1 > 0 /\ (n + 1) - 1 = n
  BY SoundTypes
<1>2. Leads(g, R, A, enter(g), n + 1, n, h)
  BY EnterLeads
<1>3. CASE temp
  <2>1. ASSUME NEW S, NEW B, Sound(enter(g), n + 1, S, B, h)
        PROVE  Leads(enter(g), S, B, constructed(enter(g)), n + 1, n, h)
    <3> DEFINE m == n + 1
    <3>1. m > 0 /\ m - 1 = n /\ Sound(enter(g), m, S, B, h)
      BY <1>1, <2>1
    <3> HIDE DEF m
    <3>2. Leads(enter(g), S, B, constructed(enter(g)), m, m - 1, h)
      BY <3>1, ConstructedLeads
    <3> QED BY <3>1, <3>2 DEF m
  <2>2. Leads(g, R, A, constructed(enter(g)), n + 1, n, h)
    BY <1>1, <1>2, <2>1, LeadsTrans
  <2> QED BY <1>3, <2>2 DEF Maybe
<1>4. CASE ~temp
  BY <1>2, <1>4 DEF Maybe
<1> QED BY <1>3, <1>4

LEMMA ScopeLeads ==
  ASSUME NEW g, NEW n, NEW R, NEW A, NEW h, Sound(g, n, R, A, h), NEW k,
         Leads(g, R, A, k, n + 1, n, h)
  PROVE  Leads(g, R, A, exit(k, NoId), n, n, h)
<1> DEFINE m == n + 1
<1>1. n \in Nat /\ m > 0 /\ m - 1 = n /\ n \in 0 .. m - 1 /\ NoId \in Nat
  BY SoundTypes DEF NoId
<1>2. Leads(g, R, A, k, m, n, h)
  OBVIOUS
<1> HIDE DEF m
<1>3. ASSUME NEW S, NEW B, Sound(k, m, S, B, h) PROVE Leads(k, S, B, exit(k, NoId), n, n, h)
  <2>1. Leads(k, S, B, exit(k, NoId), m - 1, n, h)
    BY <1>1, <1>3, ExitLeads
  <2> QED BY <1>1, <2>1
<1> QED BY <1>1, <1>2, <1>3, LeadsTrans

LEMMA TemporaryLeads ==
  ASSUME NEW g, NEW n, NEW R, NEW A, NEW h, Sound(g, n, R, A, h)
  PROVE  Leads(g, R, A, temporary(g), n, n, h)
<1>1. Leads(g, R, A, Maybe(constructed, TRUE, enter(g)), n + 1, n, h)
  BY MaybeLeads
<1>2. Leads(g, R, A, constructed(enter(g)), n + 1, n, h)
  BY <1>1 DEF Maybe
<1> QED BY <1>2, ScopeLeads DEF temporary

LEMMA VariableLeads ==
  ASSUME NEW g, NEW n, n > 0, NEW R, NEW A, NEW h, Sound(g, n, R, A, h), NEW temp \in BOOLEAN
  PROVE  Leads(g, R, A, variable(g, temp), n, n - 1, h)
<1> DEFINE m == n + 1
           e == Maybe(constructed, temp, enter(g))
           k == constructed(e)
<1>1. n \in Nat \ {0} /\ m > 1 /\ m > 0 /\ m - 1 = n /\ n - 1 \in 0 .. n /\ n - 1 \in 0 .. m - 1 /\ n - 1 <= m - 2 /\ n - 1 \in Nat
  BY SoundTypes
<1>2. Leads(g, R, A, e, m, n, h)
  BY MaybeLeads
<1>3. variable(g, temp) = exit(k, e.id)
  BY DEF variable
<1> HIDE DEF m, e
<1>4. e.id \in Nat
  BY <1>2, SoundTypes DEF Leads
<1>5. ASSUME NEW S, NEW B, Sound(e, m, S, B, h) PROVE Leads(e, S, B, k, m, n, h)
  <2>1. Leads(e, S, B, k, m, m - 1, h)
    BY <1>1, <1>5, ConstructedLeads
  <2> QED BY <1>1, <2>1
<1> HIDE DEF k
<1>6. Leads(g, R, A, k, m, n, h)
  BY <1>1, <1>2, <1>5, LeadsTrans
<1>7. Leads(g, R, A, k, m, n - 1, h)
  BY <1>1, <1>6, LeadsLess
<1>8. ASSUME NEW S, NEW B, Sound(k, m, S, B, h) PROVE Leads(k, S, B, exit(k, e.id), n, n - 1, h)
  <2>1. Leads(k, S, B, exit(k, e.id), m - 1, n - 1, h)
    BY <1>1, <1>4, <1>8, ExitLeads
  <2> QED BY <1>1, <2>1
<1>9. Leads(g, R, A, exit(k, e.id), n, n - 1, h)
  BY <1>1, <1>7, <1>8, LeadsTrans
<1> QED BY <1>3, <1>9

-----------------------------------------------------------------------------
(* Early exits.                                                            *)

(* The scopes from the m-th on are left, and the program goes on where the *)
(* m-th is open: at a label, or at one to come.  Unless the m-th scope has *)
(* objects, what is alive there is what is alive at the jump.              *)
LeftTo(g, m) == [g EXCEPT !.code = @ \o emitScopeExitInstructions(g.scopes, m, NoId)]

LEMMA LeftSound ==
  ASSUME NEW g, NEW n, NEW R, NEW A, NEW h, Sound(g, n, R, A, h), NEW m \in 1 .. n,
         "initializer" \notin h => Len(g.scopes[m].stackObjs) = 0,
         NEW to \in Seq(Nat), \A j \in 1 .. Len(to) : Begins(g, R, A, to[j], m),
         "early" \notin h => Good(addJump(LeftTo(g, m), "jump", to), n)
  PROVE  \E S, B : /\ Sound(addJump(LeftTo(g, m), "jump", to), n, S, B, h)
                   /\ Grows(g, R, A, addJump(LeftTo(g, m), "jump", to), S, B, n)
                   /\ Waits(addJump(LeftTo(g, m), "jump", to), S, B,
                            Len(addJump(LeftTo(g, m), "jump", to).code), m, h)
<1> DEFINE c == g.code
           s == g.scopes
           r == emitScopeExitInstructions(s, m, NoId)
           d == c \o r
           f == LeftTo(g, m)
           k == addJump(f, "jump", to)
           x == A[Len(c) + 1]
<1>1. /\ g \in Drafts /\ s \in Seq(Scopes) /\ Len(s) = n /\ n \in Nat \ {0}
      /\ c \in Seq(Codes) /\ Len(c) \in Nat /\ g.label \in Nat \ {0} /\ g.id \in Nat \ {NoId}
      /\ Distinct(s) /\ m \in Nat \ {0}
  BY SoundTypes
<1>2. /\ Destroying(r) /\ Once(r)
      /\ ~s[m].didReturn => Gone(r) = Within(s, m, n) \ {NoId}
  BY <1>1, ScopeExitShape
<1>3. r \in Seq(Codes) /\ d \in Seq(Codes)
  <2>1. r \in Seq(Codes)
    BY <1>2 DEF Destroying
  <2> HIDE DEF r
  <2> QED BY <1>1, <2>1, ConcatProperties
<1>4. f = [g EXCEPT !.code = d]
  BY DEF LeftTo
<1> HIDE DEF r
<1> HIDE DEF d
<1>5. f \in Drafts /\ f.code = d /\ f.scopes = s /\ f.id = g.id /\ f.label = g.label
  BY <1>1, <1>3, <1>4, DraftFields
<1> HIDE DEF f
<1>6. PICK i \in Codes : i.op = "jump" /\ i.to = to /\ Adds1(f, k, i)
  BY <1>5, JumpDraft DEF Ops
<1>7. "early" \notin h => Good(k, n)
  BY DEF f
<1> HIDE DEF k
<1>8. k \in Drafts /\ k.code = Append(d, i) /\ k.scopes = s /\ k.id = g.id /\ k.label = g.label
  BY <1>5, <1>6 DEF Adds1
<1>9. Below(s, n) = Below(s, m - 1) \cup Within(s, m, n) /\ Below(s, m - 1) \cap Within(s, m, n) = {}
  <2>1. m \in 1 .. n + 1 /\ n \in 0 .. Len(s)
    BY <1>1
  <2> QED BY <1>1, <2>1, BelowSplit, WithinApart
<1>10. Below(s, m) = Below(s, m - 1) \cup Within(s, m, m)
       /\ Within(s, m, m) = {id \in Nat : \E q \in 1 .. Len(s[m].stackObjs) : s[m].stackObjs[q] = id}
  <2>1. m \in Nat \ {0}
    BY <1>1
  <2> HIDE DEF s
  <2> QED BY ONLY <2>1, BelowLast
<1>11. NoId \notin Within(s, m, n)
  <2>1. ASSUME NoId \in Within(s, m, n) PROVE FALSE
    <3>1. n \in 0 .. Len(s)
      BY <1>1
    <3>2. PICK p \in Places(s) : At(s, p) = NoId
      BY <1>1, <2>1, <3>1, WithinPlaces
    <3>3. NoId \in NoId + 1 .. g.id - 1
      BY <3>2 DEF Sound, Tidy
    <3> QED BY <1>1, <3>3 DEF NoId
  <2> QED BY <2>1
<1>12. ASSUME Len(c) + 1 \in R
       PROVE  /\ x = Below(s, n) /\ ~Returned(s, m)
              /\ Gone(r) = Within(s, m, n) /\ x \ Gone(r) = Below(s, m - 1)
  <2>1. ~Returned(s, n) /\ x = Below(s, n)
    BY <1>12 DEF Sound, AtEnd
  <2>2. ~Returned(s, m) /\ ~s[m].didReturn
    BY <1>1, <2>1 DEF Returned
  <2>3. Gone(r) = Within(s, m, n)
    BY <1>2, <1>11, <2>2
  <2> HIDE DEF x
  <2> QED BY <1>9, <2>1, <2>2, <2>3
<1> HIDE DEF x
<1>13. PICK S, B : FlowUnwound(c, R, A, h, r, S, B)
  <2>1. Len(c) + 1 \in R => Gone(r) \subseteq x
    BY <1>9, <1>12
  <2>2. Unwinds(c, R, A, h, r)
    BY <1>2, <2>1 DEF Unwinds, Gone, x
  <2> QED BY <2>2, FlowUnwind DEF Sound
<1>14. /\ Flowing(d, S, B, h) /\ Continues(c, R, A, g.label, d, S, B)
       /\ Len(d) + 1 \in S <=> Len(c) + 1 \in R
       /\ B[Len(d) + 1] = x \ Gone(r)
  BY <1>13 DEF FlowUnwound, Gone, x, d
<1>15. Len(d) + 1 \in S =>
         ~Returned(s, m) /\ B[Len(d) + 1] = Below(s, m - 1) /\ Carries(B[Len(d) + 1], Below(s, m), h)
  <2>1. ASSUME Len(d) + 1 \in S PROVE ~Returned(s, m) /\ B[Len(d) + 1] = Below(s, m - 1)
    BY <1>12, <1>14, <2>1
  <2>2. "initializer" \notin h => Below(s, m) = Below(s, m - 1)
    BY <1>1, <1>10
  <2>3. Carries(Below(s, m - 1), Below(s, m), h)
    BY <1>10, <2>2 DEF Carries, Exact
  <2> QED BY <2>1, <2>3
<1>16. Continues(c, R, A, g.label, d, S, B) /\ Len(c) <= Len(d) /\ Len(d) \in Nat
  BY <1>3, <1>14 DEF Continues
<1>17. Leaps(d, S, B, h, i)
  <2>1. ASSUME Len(d) + 1 \in S, NEW j \in 1 .. Len(i.to), NEW b \in 1 .. Len(d), IsLabel(d[b], i.to[j])
        PROVE  b \in S /\ Carries(B[Len(d) + 1], B[b], h)
    <3>1. Begins(g, R, A, to[j], m) /\ to[j] \in Nat
      BY <1>6, <2>1
    <3>2. to[j] < g.label
      BY <1>1, <3>1 DEF Begins
    <3>3. b \in 1 .. Len(c)
      <4>1. CASE b \in Len(c) + 1 .. Len(d)
        <5>1. to[j] >= g.label
          BY <1>6, <1>14, <2>1, <4>1 DEF Continues
        <5> QED BY <1>1, <3>1, <3>2, <5>1
      <4> QED BY <1>1, <1>16, <4>1
    <3>4. IsLabel(c[b], to[j]) /\ (b \in S <=> b \in R) /\ B[b] = A[b]
      BY <1>6, <1>14, <2>1, <3>3 DEF Continues, IsLabel
    <3>5. b \in R /\ A[b] = Below(s, m)
      BY <1>15, <2>1, <3>1, <3>3, <3>4 DEF Begins
    <3> QED BY <1>15, <2>1, <3>4, <3>5
  <2>2. i.op \in Jumps \cup {"ret"} /\ i.op # "ret"
    BY <1>6 DEF Jumps
  <2> QED BY <2>1, <2>2 DEF Leaps
<1>18. Flowing(k.code, S, B, h) /\ Continues(d, S, B, g.label, k.code, S, B)
  BY <1>8, <1>14, <1>17, FlowJump
<1>19. Len(k.code) = Len(d) + 1 /\ k.code[Len(d) + 1] = i /\ k.code \in Seq(Codes)
  BY <1>3, <1>8, AppendCode
<1>20. Continues(c, R, A, g.label, k.code, S, B)
  <2>1. g.label <= g.label /\ g.label \in Nat
    BY <1>1
  <2> QED BY <1>1, <1>3, <1>14, <1>18, <1>19, <2>1, ContinuesTrans
<1>21. Tidy(k)
  <2>1. Fewer(s, s)
    BY DEF Fewer
  <2>2. k.id >= g.id /\ k.label >= g.label
    BY <1>1, <1>8
  <2> QED BY <1>8, <2>1, <2>2, TidyFewer DEF Sound
<1>22. Closed(k.code, k.label)
  <2>1. Closed(d, g.label)
    BY <1>1, <1>2, ClosedUnwind DEF Sound, d
  <2>2. \A j \in 1 .. Len(i.to) : i.to[j] \in 1 .. g.label - 1
    BY <1>6 DEF Begins
  <2> QED BY <1>1, <1>3, <1>8, <2>1, <2>2, ClosedAppend
<1>23. AtEnd(k, n, S, B)
  <2>1. Stops(k.code)
    BY <1>6, <1>16, <1>19 DEF Stops, Jumps
  <2> QED BY <1>18, <2>1 DEF Flowing, AtEnd
<1>24. Sound(k, n, S, B, h)
  BY <1>1, <1>7, <1>8, <1>18, <1>21, <1>22, <1>23 DEF Sound
<1>25. Grows(g, R, A, k, S, B, n)
  <2>1. n <= Len(s) /\ n <= Len(k.scopes) /\ g.label <= k.label
    BY <1>1, <1>8
  <2> QED BY <1>8, <1>20, <2>1 DEF Grows, Same
<1>26. Waits(k, S, B, Len(k.code), m, h)
  <2>1. Len(k.code) \in 1 .. Len(k.code) /\ Len(k.code) = Len(d) + 1
    BY <1>16, <1>19
  <2>2. k.code[Len(d) + 1].op \in Jumps
    BY <1>6, <1>19 DEF Jumps
  <2> QED BY <1>8, <1>15, <2>1, <2>2 DEF Waits
<1> QED BY <1>24, <1>25, <1>26 DEF k, f

(* What is known of a draft whose own scope may have been destroyed.       *)
Traced(g, n, R, A, h) ==
  Tidy(g) /\ Len(g.scopes) = n /\ Flowing(g.code, R, A, h) /\ Closed(g.code, g.label)

(* A return destroys all there is, once unless there are several scopes    *)
(* with something to destroy.                                              *)
LEMMA ReturnTraced ==
  ASSUME NEW g, NEW n, n > 0, NEW R, NEW A, NEW h, Sound(g, n, R, A, h),
         Exact(h) => n = 1 \/ Empty(g.scopes)
  PROVE  \E S, B : /\ Traced(add(emitReturnInstructions(g), "ret", NoId), n, S, B, h)
                   /\ Grows(g, R, A, add(emitReturnInstructions(g), "ret", NoId), S, B, n - 1)
                   /\ Len(add(emitReturnInstructions(g), "ret", NoId).code) + 1 \notin S
<1> DEFINE c == g.code
           s == g.scopes
           f == emitReturnInstructions(g)
           k == add(f, "ret", NoId)
           x == A[Len(c) + 1]
           o == [s[n] EXCEPT !.didReturn = TRUE]
           t == [s EXCEPT ![n] = o]
<1>1. /\ g \in Drafts /\ s \in Seq(Scopes) /\ Len(s) = n /\ n \in Nat \ {0}
      /\ c \in Seq(Codes) /\ Len(c) \in Nat /\ g.label \in Nat \ {0} /\ g.id \in Nat \ {NoId}
      /\ Distinct(s) /\ s[n] \in Scopes
  <2>1. /\ g \in Drafts /\ s \in Seq(Scopes) /\ Len(s) = n /\ n \in Nat \ {0}
        /\ c \in Seq(Codes) /\ Len(c) \in Nat /\ g.label \in Nat \ {0} /\ g.id \in Nat \ {NoId}
        /\ Distinct(s)
    BY SoundTypes
  <2> QED BY <2>1
<1>2. PICK r : /\ f = [g EXCEPT !.code = @ \o r, !.scopes = t]
               /\ Destroying(r)
               /\ ~Returned(s, n) => Gone(r) = Below(s, n) \ {NoId}
               /\ Distinct(s) /\ (n = 1 \/ Empty(s)) => Once(r)
  <2>1. LET s1 == g.scopes
            n1 == Len(s1)
            e1 == [s1[n1] EXCEPT !.didReturn = TRUE]
        IN  \E r : /\ emitReturnInstructions(g) = [g EXCEPT !.code = @ \o r, !.scopes = [s1 EXCEPT ![n1] = e1]]
                   /\ Destroying(r)
                   /\ ~Returned(s1, n1) => Gone(r) = Below(s1, n1) \ {NoId}
                   /\ Distinct(s1) /\ (n1 = 1 \/ Empty(s1)) => Once(r)
    <3>1. g \in Drafts /\ Len(g.scopes) > 0
      BY <1>1
    <3> QED BY ONLY <3>1, ReturnShape
  <2>2. Len(g.scopes) = n
    BY <1>1
  <2> QED BY ONLY <2>1, <2>2, Zenon DEF f, t, o, s
<1>3. o \in Scopes /\ o.stackObjs = s[n].stackObjs
  BY <1>1 DEF Scopes
<1> HIDE DEF o
<1>4. t \in Seq(Scopes) /\ Len(t) = n /\ t[n] = o /\ (\A i \in 1 .. n : i # n => t[i] = s[i]) /\ Same(s, t, n - 1)
  <2>1. t \in Seq(Scopes) /\ Len(t) = n /\ t[n] = o /\ (\A i \in 1 .. n : i # n => t[i] = s[i])
    BY <1>1, <1>3
  <2>2. \A i \in 1 .. n - 1 : i \in 1 .. n /\ i # n
    BY <1>1
  <2> HIDE DEF t
  <2> QED BY <2>1, <2>2 DEF Same
<1> HIDE DEF t
<1> DEFINE d == c \o r
<1>5. r \in Seq(Codes) /\ d \in Seq(Codes)
  <2>1. r \in Seq(Codes)
    BY <1>2 DEF Destroying
  <2> QED BY <1>1, <2>1, ConcatProperties
<1>6. f \in Drafts /\ f.code = d /\ f.scopes = t /\ f.id = g.id /\ f.label = g.label
  <2>1. f = [g EXCEPT !.code = d, !.scopes = t]
    BY <1>2
  <2> HIDE DEF f, d
  <2> QED BY <1>1, <1>4, <1>5, <2>1 DEF Drafts
<1> HIDE DEF f
<1> HIDE DEF d
<1>7. PICK i \in Codes : i.op = "ret" /\ i.id = NoId /\ Adds1(f, k, i)
  <2>1. "ret" \in Ops /\ NoId \in Nat
    BY DEF Ops, NoId
  <2> QED BY <1>6, <2>1, AddDraft
<1> HIDE DEF k
<1>8. k \in Drafts /\ k.code = Append(d, i) /\ k.scopes = t /\ k.id = g.id /\ k.label = g.label
  BY <1>6, <1>7 DEF Adds1
<1>9. NoId \notin Below(s, n)
  <2>1. ASSUME NoId \in Below(s, n) PROVE FALSE
    <3>1. n \in 0 .. Len(s) /\ 1 \in Nat \ {0}
      BY <1>1
    <3>2. PICK p \in Places(s) : At(s, p) = NoId
      BY <1>1, <2>1, <3>1, WithinPlaces DEF Below
    <3>3. NoId \in NoId + 1 .. g.id - 1
      BY <3>2 DEF Sound, Tidy
    <3> QED BY <1>1, <3>3 DEF NoId
  <2> QED BY <2>1
<1>10. Len(c) + 1 \in R => x = Gone(r) /\ (Exact(h) => Once(r))
  <2>1. Len(c) + 1 \in R => ~Returned(s, n) /\ x = Below(s, n)
    BY DEF Sound, AtEnd
  <2> HIDE DEF x
  <2> QED BY <1>1, <1>2, <1>9, <2>1
<1> HIDE DEF x
<1>11. PICK S, B : FlowUnwound(c, R, A, h, r, S, B)
  <2>1. Unwinds(c, R, A, h, r)
    BY <1>2, <1>10 DEF Unwinds, Gone, x
  <2> QED BY <2>1, FlowUnwind DEF Sound
<1>12. /\ Flowing(d, S, B, h) /\ Continues(c, R, A, g.label, d, S, B)
       /\ Len(d) + 1 \in S <=> Len(c) + 1 \in R
       /\ B[Len(d) + 1] = x \ Gone(r)
  BY <1>11 DEF FlowUnwound, Gone, x, d
<1>13. Leaps(d, S, B, h, i)
  <2>1. Len(d) + 1 \in S => B[Len(d) + 1] = {}
    BY <1>10, <1>12
  <2> QED BY <1>7, <2>1 DEF Leaps, Jumps
<1>14. Flowing(k.code, S, B, h) /\ Continues(d, S, B, g.label, k.code, S, B)
  BY <1>8, <1>12, <1>13, FlowJump
<1>15. Len(k.code) = Len(d) + 1 /\ k.code[Len(d) + 1] = i /\ k.code \in Seq(Codes) /\ Len(d) \in Nat
  BY <1>5, <1>8, AppendCode
<1>16. Continues(c, R, A, g.label, k.code, S, B)
  <2>1. g.label <= g.label /\ g.label \in Nat
    BY <1>1
  <2> QED BY <1>1, <1>5, <1>12, <1>14, <1>15, <2>1, ContinuesTrans
<1>17. Tidy(k)
  <2>1. \A j \in 1 .. Len(t) : t[j].stackObjs = s[j].stackObjs
    BY <1>3, <1>4
  <2>2. Fewer(s, t)
    <3>1. Len(t) <= Len(s)
      BY <1>1, <1>4
    <3> QED BY <1>1, <1>4, <2>1, <3>1, FewerSame
  <2>3. k.id >= g.id /\ k.label >= g.label
    BY <1>1, <1>8
  <2> QED BY <1>8, <2>2, <2>3, TidyFewer DEF Sound
<1>18. Closed(k.code, k.label)
  <2>1. Closed(d, g.label)
    BY <1>1, <1>2, ClosedUnwind DEF Sound, d
  <2>2. i.op \notin Jumps \cup {"label"}
    BY <1>7 DEF Jumps
  <2> QED BY <1>1, <1>5, <1>8, <2>1, <2>2, ClosedAppend
<1>19. Len(k.code) + 1 \notin S
  <2>1. Stops(k.code)
    BY <1>7, <1>15 DEF Stops, Jumps
  <2> QED BY <1>14, <2>1 DEF Flowing
<1>20. Traced(k, n, S, B, h)
  BY <1>4, <1>8, <1>14, <1>17, <1>18 DEF Traced
<1>21. Grows(g, R, A, k, S, B, n - 1)
  <2>1. n - 1 <= Len(s) /\ n - 1 <= Len(k.scopes) /\ g.label <= k.label
    BY <1>1, <1>4, <1>8
  <2> QED BY <1>4, <1>8, <1>16, <2>1 DEF Grows
<1> QED BY <1>19, <1>20, <1>21 DEF k, f

LEMMA ReturnSound ==
  ASSUME NEW g, NEW n, n > 0, NEW R, NEW A, NEW h, Sound(g, n, R, A, h),
         Exact(h) => n = 1 \/ Empty(g.scopes),
         "early" \notin h => Good(add(emitReturnInstructions(g), "ret", NoId), n)
  PROVE  \E S, B : /\ Sound(add(emitReturnInstructions(g), "ret", NoId), n, S, B, h)
                   /\ Grows(g, R, A, add(emitReturnInstructions(g), "ret", NoId), S, B, n - 1)
<1> DEFINE k == add(emitReturnInstructions(g), "ret", NoId)
<1>1. PICK S, B : Traced(k, n, S, B, h) /\ Grows(g, R, A, k, S, B, n - 1) /\ Len(k.code) + 1 \notin S
  BY ReturnTraced
<1>2. "early" \notin h => Good(k, n)
  OBVIOUS
<1> HIDE DEF k
<1>3. Sound(k, n, S, B, h)
  BY <1>1, <1>2 DEF Sound, Traced, AtEnd
<1> QED BY <1>1, <1>3 DEF k

(* The scope of the function is left behind its last return.               *)
LEMMA FinalExit ==
  ASSUME NEW g, NEW R, NEW A, NEW h, Traced(g, 1, R, A, h), Len(g.code) + 1 \notin R
  PROVE  \E S, B : /\ exit(g, NoId).label = g.label
                   /\ Flowing(exit(g, NoId).code, S, B, h) /\ Closed(exit(g, NoId).code, g.label)
                   /\ Len(exit(g, NoId).code) + 1 \notin S
<1> DEFINE c == g.code
           s == g.scopes
           r == emitScopeExitInstructions(s, 1, NoId)
           k == exit(g, NoId)
<1>1. /\ g \in Drafts /\ s \in Seq(Scopes) /\ Len(s) = 1 /\ s[1] \in Scopes
      /\ c \in Seq(Codes) /\ Len(c) \in Nat /\ g.label \in Nat \ {0}
  <2>1. /\ g \in Drafts /\ s \in Seq(Scopes) /\ Len(s) = 1
        /\ c \in Seq(Codes) /\ Len(c) \in Nat /\ g.label \in Nat \ {0}
    BY TidyTypes DEF Traced
  <2> QED BY <2>1
<1>2. Destroying(r)
  BY <1>1, ScopeExitShape
<1>3. ~didSave(s, NoId)
  <2>1. ASSUME didSave(s, NoId) PROVE FALSE
    <3> DEFINE o == s[1].stackObjs
    <3>1. o \in Seq(Nat)
      BY <1>1 DEF Scopes
    <3>2. Last(s) = s[1]
      BY <1>1 DEF Last
    <3>3. NoId \in ToSet(o)
      BY <2>1, <3>2 DEF didSave
    <3> HIDE DEF o
    <3>4. PICK q \in 1 .. Len(o) : o[q] = NoId
      BY <3>1, <3>3, ToSetProps
    <3>5. <<1, q>> \in Places(s) /\ At(s, <<1, q>>) = NoId
      BY <1>1, <3>1, <3>4 DEF Places, At, o
    <3>6. NoId \in NoId + 1 .. g.id - 1
      BY <3>5 DEF Traced, Tidy
    <3> QED BY <3>6, TidyTypes DEF NoId, Traced
  <2> QED BY <2>1
<1>4. k.code = c \o r /\ k.label = g.label
  <2>1. k = [g EXCEPT !.code = @ \o r, !.scopes = Front(@)]
    BY <1>1, <1>3 DEF exit
  <2> HIDE DEF k, r
  <2> QED BY <1>1, <2>1 DEF Drafts
<1> HIDE DEF k, r
<1>5. PICK S, B : FlowUnwound(c, R, A, h, r, S, B)
  <2>1. Unwinds(c, R, A, h, r)
    BY <1>2 DEF Unwinds
  <2> QED BY <2>1, FlowUnwind DEF Traced
<1>6. Closed(k.code, g.label)
  BY <1>1, <1>2, <1>4, ClosedUnwind DEF Traced
<1> QED BY <1>4, <1>5, <1>6 DEF FlowUnwound, k

-----------------------------------------------------------------------------
(* The statements that are open, and what each of them waits for.          *)

LoopKinds == {"while", "do"}

(* The loops among the first k of the open statements, and the number of   *)
(* scopes that are open where the k-th one is left.                        *)
LoopsTo(o, k) == {i \in 1 .. k : o[i].kind \in LoopKinds}
TurnsTo(o, k) == Cardinality(LoopsTo(o, k))
Base(o, k) == k + TurnsTo(o, k)

(* A loop can be continued, and left by the jumps that wait for its end.   *)
LoopOK(g, R, A, h, L, d) ==
  /\ L.outer_scope = d
  /\ \A p \in L.pending_end_label : Waits(g, R, A, p, d, h)
  /\ Begins(g, R, A, L.loop_begin, d)

FrameOK(o, ls, g, R, A, h, k) ==
  /\ o[k].kind \in {"then", "else"} => Waits(g, R, A, o[k].at, Base(o, k), h)
  /\ o[k].kind \in LoopKinds => LoopOK(g, R, A, h, ls[TurnsTo(o, k)], Base(o, k))

FramesOK(o, ls, g, R, A, h, m) == \A k \in 1 .. m : FrameOK(o, ls, g, R, A, h, k)

LEMMA TurnsTypes ==
  ASSUME NEW o, NEW k \in Nat
  PROVE  IsFiniteSet(LoopsTo(o, k)) /\ TurnsTo(o, k) \in Nat /\ Base(o, k) \in Nat
<1>1. IsFiniteSet(1 .. k) /\ LoopsTo(o, k) \in SUBSET (1 .. k)
  BY FS_Interval DEF LoopsTo
<1>2. IsFiniteSet(LoopsTo(o, k)) /\ TurnsTo(o, k) \in Nat
  BY <1>1, FS_Subset, FS_CardinalityType DEF TurnsTo
<1> QED BY <1>2 DEF Base

LEMMA TurnsGrow ==
  ASSUME NEW o, NEW k \in Nat, NEW j \in 0 .. k
  PROVE  /\ TurnsTo(o, j) <= TurnsTo(o, k) /\ Base(o, j) <= Base(o, k)
         /\ j < k /\ o[k].kind \in LoopKinds => TurnsTo(o, j) < TurnsTo(o, k)
<1>1. IsFiniteSet(LoopsTo(o, k)) /\ TurnsTo(o, k) \in Nat /\ IsFiniteSet(LoopsTo(o, j)) /\ TurnsTo(o, j) \in Nat
  BY TurnsTypes
<1>2. LoopsTo(o, j) \in SUBSET LoopsTo(o, k)
  BY DEF LoopsTo
<1>3. TurnsTo(o, j) <= TurnsTo(o, k)
  BY <1>1, <1>2, FS_Subset DEF TurnsTo
<1>4. ASSUME j < k, o[k].kind \in LoopKinds PROVE TurnsTo(o, j) < TurnsTo(o, k)
  <2>1. k \notin LoopsTo(o, j) /\ k \in LoopsTo(o, k)
    BY <1>4 DEF LoopsTo
  <2>2. LoopsTo(o, j) # LoopsTo(o, k)
    BY <2>1
  <2>3. TurnsTo(o, j) # TurnsTo(o, k)
    BY <1>1, <1>2, <2>2, FS_Subset DEF TurnsTo
  <2> QED BY <1>1, <1>3, <2>3
<1> QED BY <1>1, <1>3, <1>4 DEF Base

(* Statements that are the same kind.                                      *)
LEMMA TurnsSame ==
  ASSUME NEW o, NEW p, NEW k \in Nat, \A i \in 1 .. k : p[i].kind = o[i].kind
  PROVE  TurnsTo(p, k) = TurnsTo(o, k) /\ Base(p, k) = Base(o, k)
<1>1. LoopsTo(p, k) = LoopsTo(o, k)
  BY DEF LoopsTo
<1> QED BY <1>1 DEF TurnsTo, Base

LEMMA TurnsNext ==
  ASSUME NEW o, NEW k \in Nat
  PROVE  /\ o[k + 1].kind \notin LoopKinds => TurnsTo(o, k + 1) = TurnsTo(o, k)
         /\ o[k + 1].kind \in LoopKinds => TurnsTo(o, k + 1) = TurnsTo(o, k) + 1
<1>1. IsFiniteSet(LoopsTo(o, k)) /\ \A i : i \in 1 .. k + 1 <=> (i \in 1 .. k \/ i = k + 1)
  BY TurnsTypes
<1>2. k + 1 \notin LoopsTo(o, k)
  BY DEF LoopsTo
<1>3. ASSUME o[k + 1].kind \notin LoopKinds PROVE LoopsTo(o, k + 1) = LoopsTo(o, k)
  BY <1>1, <1>3 DEF LoopsTo
<1>4. ASSUME o[k + 1].kind \in LoopKinds PROVE LoopsTo(o, k + 1) = LoopsTo(o, k) \cup {k + 1}
  BY <1>1, <1>4 DEF LoopsTo
<1>5. o[k + 1].kind \in LoopKinds => TurnsTo(o, k + 1) = TurnsTo(o, k) + 1
  BY <1>1, <1>2, <1>4, FS_AddElement DEF TurnsTo
<1> QED BY <1>3, <1>5 DEF TurnsTo

LEMMA BaseDepth ==
  ASSUME NEW o, Framed(o)
  PROVE  /\ TurnsTo(o, Len(o)) = Turns(o) /\ Base(o, Len(o)) = Depth(o) - 1
         /\ Len(o) \in Nat \ {0} /\ Turns(o) \in Nat /\ Depth(o) \in Nat /\ Depth(o) > 1
<1>1. Len(o) \in Nat \ {0} /\ Turns(o) \in Nat /\ Depth(o) \in Nat /\ Depth(o) > 1
  BY FrameTypes
<1>2. TurnsTo(o, Len(o)) = Turns(o)
  BY DEF TurnsTo, LoopsTo, Turns, LoopFrames, LoopKinds
<1> QED BY <1>1, <1>2 DEF Base, Depth

(* The innermost loop.                                                     *)
LEMMA LastLoop ==
  ASSUME NEW o, Framed(o), Turns(o) > 0
  PROVE  \E k \in 1 .. Len(o) : o[k].kind \in LoopKinds /\ TurnsTo(o, k) = Turns(o)
<1> DEFINE n == Len(o)
<1>1. n \in Nat \ {0} /\ IsFiniteSet(LoopFrames(o))
  BY FrameTypes
<1>2. LoopsTo(o, n) = LoopFrames(o)
  BY DEF LoopsTo, LoopFrames, LoopKinds
<1>3. LoopsTo(o, n) # {}
  BY <1>2, FS_EmptySet DEF Turns
<1>4. LoopsTo(o, n) \in SUBSET (0 .. n)
  BY <1>1 DEF LoopsTo
<1>5. PICK k \in LoopsTo(o, n) : \A i \in LoopsTo(o, n) : i <= k
  BY <1>1, <1>3, <1>4, GreatestOf
<1>6. k \in 1 .. n /\ o[k].kind \in LoopKinds
  BY <1>5 DEF LoopsTo
<1>7. LoopsTo(o, k) = LoopsTo(o, n)
  <2>1. \A i \in LoopsTo(o, n) : i \in LoopsTo(o, k)
    BY <1>1, <1>5, <1>6 DEF LoopsTo
  <2>2. \A i \in LoopsTo(o, k) : i \in LoopsTo(o, n)
    BY <1>1, <1>6 DEF LoopsTo
  <2> QED BY <2>1, <2>2
<1>8. TurnsTo(o, k) = Turns(o)
  BY <1>2, <1>7 DEF TurnsTo, Turns
<1> QED BY <1>6, <1>8

(* What is known of the open statements stays known when the draft grows.  *)
(* A loop may get another jump that waits for its end.                     *)
LoopsKept(ls, new, m, g, R, A, h) ==
  \A j \in 1 .. m :
    /\ new[j].loop_begin = ls[j].loop_begin /\ new[j].outer_scope = ls[j].outer_scope
    /\ \A p \in new[j].pending_end_label :
         p \in ls[j].pending_end_label \/ Waits(g, R, A, p, ls[j].outer_scope, h)

LEMMA FramesKept ==
  ASSUME NEW g \in Drafts, NEW R, NEW A, NEW k \in Drafts, NEW S, NEW B, NEW d \in Nat, Grows(g, R, A, k, S, B, d),
         NEW h, NEW o, NEW p, NEW ls, NEW new, NEW m \in Nat, FramesOK(o, ls, g, R, A, h, m), Base(o, m) <= d,
         \A i \in 1 .. m : p[i].kind = o[i].kind /\ p[i].at = o[i].at,
         LoopsKept(ls, new, TurnsTo(o, m), k, S, B, h)
  PROVE  FramesOK(p, new, k, S, B, h, m)
<1> SUFFICES ASSUME NEW i \in 1 .. m PROVE FrameOK(p, new, k, S, B, h, i)
  BY DEF FramesOK
<1>1. i \in Nat /\ i \in 0 .. m /\ 0 \in 0 .. i
  OBVIOUS
<1>2. TurnsTo(p, i) = TurnsTo(o, i) /\ Base(p, i) = Base(o, i)
  <2>1. \A q \in 1 .. i : p[q].kind = o[q].kind
    BY <1>1
  <2> QED BY <1>1, <2>1, TurnsSame
<1>3. Base(o, i) \in 0 .. d
  <2>1. Base(o, i) <= Base(o, m) /\ Base(o, i) \in Nat /\ Base(o, m) \in Nat
    BY <1>1, TurnsGrow, TurnsTypes
  <2> QED BY <2>1
<1> DEFINE e == Base(o, i)
<1>4. /\ g.code \in Seq(Codes) /\ k.code \in Seq(Codes) /\ g.label \in Nat /\ k.label \in Nat
      /\ Len(g.scopes) \in Nat /\ Len(k.scopes) \in Nat
  BY DraftFields
<1>5. Grows(g, R, A, k, S, B, e)
  BY <1>3, <1>4, GrowsLess
<1> HIDE DEF e
<1>6. p[i].kind = o[i].kind /\ p[i].at = o[i].at
  OBVIOUS
<1>7. FrameOK(o, ls, g, R, A, h, i)
  BY DEF FramesOK
<1>8. ASSUME p[i].kind \in {"then", "else"} PROVE Waits(k, S, B, p[i].at, Base(p, i), h)
  <2>1. Waits(g, R, A, o[i].at, e, h)
    BY <1>6, <1>7, <1>8 DEF FrameOK, e
  <2>2. Waits(k, S, B, o[i].at, e, h)
    BY <1>4, <1>5, <2>1, GrowsWaits
  <2> QED BY <1>2, <1>6, <2>2 DEF e
<1>9. ASSUME p[i].kind \in LoopKinds PROVE LoopOK(k, S, B, h, new[TurnsTo(p, i)], Base(p, i))
  <2> DEFINE j == TurnsTo(o, i)
             L == ls[j]
             N == new[j]
  <2>1. LoopOK(g, R, A, h, L, e)
    BY <1>6, <1>7, <1>9 DEF FrameOK, e
  <2>2. j \in 1 .. TurnsTo(o, m)
    <3>1. TurnsTo(o, 0) < TurnsTo(o, i) /\ TurnsTo(o, i) <= TurnsTo(o, m)
      BY <1>1, <1>6, <1>9, TurnsGrow
    <3>2. TurnsTo(o, 0) \in Nat /\ TurnsTo(o, i) \in Nat /\ TurnsTo(o, m) \in Nat
      BY <1>1, TurnsTypes
    <3> QED BY <3>1, <3>2
  <2>3. /\ N.loop_begin = L.loop_begin /\ N.outer_scope = L.outer_scope
        /\ \A q \in N.pending_end_label :
             q \in L.pending_end_label \/ Waits(k, S, B, q, L.outer_scope, h)
    BY <2>2 DEF LoopsKept
  <2> HIDE DEF L, N
  <2>4. L.outer_scope = e
    BY <2>1 DEF LoopOK
  <2>5. ASSUME NEW q \in N.pending_end_label PROVE Waits(k, S, B, q, e, h)
    <3>1. CASE q \in L.pending_end_label
      <4>1. Waits(g, R, A, q, e, h)
        BY <2>1, <3>1 DEF LoopOK
      <4> QED BY <1>4, <1>5, <4>1, GrowsWaits
    <3>2. CASE q \notin L.pending_end_label
      BY <2>3, <2>4, <3>2
    <3> QED BY <3>1, <3>2
  <2>6. Begins(k, S, B, N.loop_begin, e)
    <3>1. Begins(g, R, A, L.loop_begin, e)
      BY <2>1 DEF LoopOK
    <3>2. Begins(k, S, B, L.loop_begin, e)
      BY <1>4, <1>5, <3>1, GrowsBegins
    <3> QED BY <2>3, <3>2
  <2>7. LoopOK(k, S, B, h, N, e)
    BY <2>3, <2>4, <2>5, <2>6 DEF LoopOK
  <2> QED BY <1>2, <2>7 DEF N, e
<1> QED BY <1>8, <1>9 DEF FrameOK

LEMMA FramesWeaken ==
  ASSUME NEW h, NEW e, h \subseteq e, NEW o, NEW ls, NEW g, NEW R, NEW A, NEW m,
         FramesOK(o, ls, g, R, A, h, m)
  PROVE  FramesOK(o, ls, g, R, A, e, m)
<1>1. \A p, d : Waits(g, R, A, p, d, h) => Waits(g, R, A, p, d, e)
  BY WaitsWeaken
<1> QED BY <1>1 DEF FramesOK, FrameOK, LoopOK

-----------------------------------------------------------------------------
(* The invariant.  While a function is written, its code has notes that    *)
(* agree with the open scopes and statements; while it runs, the notes say *)
(* what is alive: at least that, unless a variable has no initializer, and *)
(* no more, unless an early exit left objects that the code it goes on     *)
(* with takes for alive.                                                   *)

Notes(R, A, h) ==
  /\ Sound(Draft, Depth(open), R, A, h)
  /\ FramesOK(open, m_lsStack, Draft, R, A, h, Len(open))

FlowWriting ==
  /\ phase = "compile" /\ pc = 1 /\ valued = {}
  /\ Framed(open)
  /\ m_lsStack \in Seq(Loops) /\ Len(m_lsStack) = Turns(open)
  /\ \E R, A : Notes(R, A, history)

RunningNotes(R, A) ==
  /\ Flowing(m_instructions, R, A, history)
  /\ Closed(m_instructions, m_nextLabelId)
  /\ Len(m_instructions) + 1 \notin R
  /\ pc \in R
  /\ "empty" \notin history => valued \subseteq A[pc]
  /\ Exact(history) => A[pc] \subseteq valued

FlowRunning == phase = "run" /\ m_nextLabelId \in Nat /\ \E R, A : RunningNotes(R, A)

FlowInv == "conditional" \in history \/ FlowWriting \/ FlowRunning

LEMMA WritingNotes ==
  ASSUME FlowWriting, NEW h, history \subseteq h
  PROVE  \E R, A : Notes(R, A, h)
<1>1. PICK R, A : Notes(R, A, history)
  BY DEF FlowWriting
<1>2. Sound(Draft, Depth(open), R, A, h)
  BY <1>1, SoundWeaken DEF Notes
<1>3. FramesOK(open, m_lsStack, Draft, R, A, h, Len(open))
  BY <1>1, FramesWeaken DEF Notes
<1> QED BY <1>2, <1>3 DEF Notes

LEMMA WritingTypes ==
  ASSUME FlowWriting
  PROVE  /\ Framed(open) /\ Top = open[Len(open)] /\ Top \in Frames
         /\ Len(open) \in Nat \ {0} /\ Turns(open) \in Nat
         /\ Depth(open) \in Nat \ {0} /\ Depth(open) > 1
         /\ Base(open, Len(open)) = Depth(open) - 1 /\ TurnsTo(open, Len(open)) = Turns(open)
         /\ Draft \in Drafts
         /\ Draft.scopes = m_scopes /\ Draft.code = m_instructions
         /\ Draft.label = m_nextLabelId /\ Draft.id = m_nextAllocId
<1>1. Framed(open)
  BY DEF FlowWriting
<1>2. /\ Len(open) \in Nat \ {0} /\ open[Len(open)] \in Frames
      /\ Depth(open) \in Nat /\ Depth(open) > 1 /\ Turns(open) \in Nat
  BY <1>1, FrameTypes
<1>3. Top = open[Len(open)]
  BY DEF Top, Last
<1>4. Base(open, Len(open)) = Depth(open) - 1 /\ TurnsTo(open, Len(open)) = Turns(open)
  BY <1>1, BaseDepth
<1>5. Draft \in Drafts
  <2>1. \E R, A : Notes(R, A, history)
    BY DEF FlowWriting
  <2> QED BY <2>1, SoundTypes DEF Notes
<1>6. /\ Draft.scopes = m_scopes /\ Draft.code = m_instructions
      /\ Draft.label = m_nextLabelId /\ Draft.id = m_nextAllocId
  BY DEF Draft
<1> QED BY <1>1, <1>2, <1>3, <1>4, <1>5, <1>6

LEMMA FrontFrames ==
  ASSUME NEW o \in Seq(Frames), Len(o) > 0
  PROVE  Len(Front(o)) = Len(o) - 1 /\ \A i \in 1 .. Len(o) - 1 : Front(o)[i] = o[i]
<1> DEFINE n == Len(o)
           p == Front(o)
<1>1. n \in Nat \ {0}
  OBVIOUS
<1>2. 1 \in 1 .. n + 1 /\ n - 1 \in 0 .. n /\ 1 <= (n - 1) + 1 /\ (n - 1) - 1 + 1 = n - 1
  BY <1>1
<1>3. /\ Len(SubSeq(o, 1, n - 1)) = (n - 1) - 1 + 1
      /\ \A j \in 1 .. (n - 1) - 1 + 1 : SubSeq(o, 1, n - 1)[j] = o[1 + j - 1]
  BY <1>2, SubSeqProps
<1>4. p = SubSeq(o, 1, n - 1)
  BY DEF Front
<1> HIDE DEF n, p
<1>5. \A j \in 1 .. n - 1 : 1 + j - 1 = j
  BY <1>1
<1>6. Len(p) = n - 1 /\ \A i \in 1 .. n - 1 : p[i] = o[i]
  BY ONLY <1>2, <1>3, <1>4, <1>5
<1> QED BY <1>6 DEF n, p

LEMMA FlowNext ==
  ASSUME FlowWriting, NEW g, Becomes(g), Framed(open'),
         m_lsStack' \in Seq(Loops), Len(m_lsStack') = Turns(open'),
         NEW S, NEW B, Sound(g, Depth(open'), S, B, history'),
         FramesOK(open', m_lsStack', g, S, B, history', Len(open')),
         phase' = phase, pc' = pc, valued' = valued
  PROVE  FlowWriting'
<1>1. Draft' = g
  <2>1. g \in Drafts
    BY SoundTypes
  <2> QED BY <2>1, BecomesDraft
<1>2. Notes(S, B, history)'
  BY <1>1 DEF Notes
<1>3. phase' = "compile" /\ pc' = 1 /\ valued' = {}
  BY DEF FlowWriting
<1>4. (\E R, A : Notes(R, A, history))'
  BY <1>2
<1> QED BY <1>3, <1>4 DEF FlowWriting

(* A statement that is complete.                                           *)
LEMMA FlowSimple ==
  ASSUME FlowWriting, NEW R, NEW A, Notes(R, A, history'), NEW g, Becomes(g),
         NEW S, NEW B, Sound(g, Depth(open), S, B, history'), Grows(Draft, R, A, g, S, B, Depth(open) - 1),
         open' = Filled, m_lsStack' \in Seq(Loops), Len(m_lsStack') = Len(m_lsStack),
         LoopsKept(m_lsStack, m_lsStack', Turns(open), g, S, B, history'),
         phase' = phase, pc' = pc, valued' = valued
  PROVE  FlowWriting'
<1>1. /\ Framed(open) /\ Len(open) \in Nat /\ Draft \in Drafts /\ Depth(open) - 1 \in Nat
      /\ Base(open, Len(open)) = Depth(open) - 1 /\ TurnsTo(open, Len(open)) = Turns(open)
  BY WritingTypes
<1>2. Framed(open') /\ Len(open') = Len(open) /\ Turns(open') = Turns(open) /\ Depth(open') = Depth(open)
  BY <1>1, FilledFrames DEF Filled
<1>3. \A i \in 1 .. Len(open) : open'[i].kind = open[i].kind /\ open'[i].at = open[i].at
  <2> DEFINE n == Len(open)
             x == [open[n] EXCEPT !.full = TRUE]
  <2>1. open \in Seq(Frames) /\ open[n] \in Frames
    BY <1>1, FrameTypes DEF Framed
  <2>2. open' = [open EXCEPT ![n] = x]
    BY DEF Filled
  <2>3. x.kind = open[n].kind /\ x.at = open[n].at
    BY <2>1 DEF Frames
  <2> HIDE DEF x
  <2> QED BY <2>1, <2>2, <2>3
<1>4. FramesOK(open', m_lsStack', g, S, B, history', Len(open))
  <2>1. g \in Drafts
    BY SoundTypes
  <2>2. Base(open, Len(open)) <= Depth(open) - 1
    BY <1>1
  <2>3. FramesOK(open, m_lsStack, Draft, R, A, history', Len(open))
    BY DEF Notes
  <2>4. LoopsKept(m_lsStack, m_lsStack', TurnsTo(open, Len(open)), g, S, B, history')
    BY <1>1
  <2> HIDE DEF Notes
  <2> QED BY <1>1, <1>3, <2>1, <2>2, <2>3, <2>4, FramesKept
<1>5. Len(m_lsStack') = Turns(open')
  BY <1>2 DEF FlowWriting
<1> QED BY <1>2, <1>4, <1>5, FlowNext

(* The loops stay as they are.                                             *)
LEMMA SameLoops ==
  ASSUME NEW ls, NEW new, NEW m, \A j \in 1 .. m : new[j] = ls[j], NEW g, NEW R, NEW A, NEW h
  PROVE  LoopsKept(ls, new, m, g, R, A, h)
BY DEF LoopsKept

(* A statement that is opened.                                             *)
LEMMA FlowOpens ==
  ASSUME FlowWriting, NEW R, NEW A, Notes(R, A, history'), NEW g, Becomes(g),
         NEW kind \in {"then", "else", "chosen", "block", "while", "do"}, NEW at \in Nat,
         NEW S, NEW B, Sound(g, Depth(open'), S, B, history'), Grows(Draft, R, A, g, S, B, Depth(open) - 1),
         open' = Append(Filled, Frame(kind, at)),
         m_lsStack' \in Seq(Loops), Len(m_lsStack') = Turns(open'),
         \A j \in 1 .. Turns(open) : m_lsStack'[j] = m_lsStack[j],
         kind \in {"then", "else"} => Waits(g, S, B, at, Depth(open), history'),
         kind \in LoopKinds => LoopOK(g, S, B, history', m_lsStack'[Turns(open) + 1], Depth(open) + 1),
         phase' = phase, pc' = pc, valued' = valued
  PROVE  FlowWriting'
<1> DEFINE n == Len(open)
           f == Filled
           x == Frame(kind, at)
<1>1. /\ Framed(open) /\ n \in Nat \ {0} /\ Draft \in Drafts /\ Depth(open) - 1 \in Nat /\ Depth(open) \in Nat
      /\ Base(open, n) = Depth(open) - 1 /\ TurnsTo(open, n) = Turns(open) /\ Turns(open) \in Nat
  BY WritingTypes
<1>2. Framed(f) /\ Len(f) = n
  BY <1>1, FilledFrames DEF Filled
<1>3. \A i \in 1 .. n : f[i].kind = open[i].kind /\ f[i].at = open[i].at
  <2> DEFINE y == [open[n] EXCEPT !.full = TRUE]
  <2>1. open \in Seq(Frames) /\ open[n] \in Frames
    BY <1>1, FrameTypes DEF Framed
  <2>2. f = [open EXCEPT ![n] = y]
    BY DEF Filled
  <2>3. y.kind = open[n].kind /\ y.at = open[n].at
    BY <2>1 DEF Frames
  <2> HIDE DEF y, f
  <2> QED BY <2>1, <2>2, <2>3
<1>4. Framed(open')
  BY <1>2, OpenedFrames
<1> HIDE DEF f
<1>5. x \in Frames /\ x.kind = kind /\ x.at = at
  BY DEF Frame, Frames
<1> HIDE DEF x
<1>6. open' = Append(f, x) /\ f \in Seq(Frames)
  BY <1>2 DEF f, x, Framed
<1>7. Len(open') = n + 1 /\ open'[n + 1] = x /\ \A i \in 1 .. n : open'[i] = f[i]
  BY <1>2, <1>5, <1>6
<1>8. \A i \in 1 .. n : open'[i].kind = open[i].kind /\ open'[i].at = open[i].at
  BY <1>3, <1>7
<1>9. FramesOK(open', m_lsStack', g, S, B, history', n)
  <2>1. g \in Drafts
    BY SoundTypes
  <2>2. Base(open, n) <= Depth(open) - 1 /\ n \in Nat
    BY <1>1
  <2>3. FramesOK(open, m_lsStack, Draft, R, A, history', n)
    BY DEF Notes
  <2>4. LoopsKept(m_lsStack, m_lsStack', TurnsTo(open, n), g, S, B, history')
    BY <1>1, SameLoops
  <2> HIDE DEF n
  <2>5. Grows(Draft, R, A, g, S, B, Depth(open) - 1)
    OBVIOUS
  <2> QED BY ONLY <1>1, <1>8, <2>1, <2>2, <2>3, <2>4, <2>5, FramesKept
<1>10. TurnsTo(open', n) = Turns(open)
  <2>1. n \in Nat
    BY <1>1
  <2> HIDE DEF n
  <2> QED BY <1>1, <1>8, <2>1, TurnsSame
<1>11. /\ kind \notin LoopKinds => TurnsTo(open', n + 1) = Turns(open) /\ Base(open', n + 1) = Depth(open)
       /\ kind \in LoopKinds => TurnsTo(open', n + 1) = Turns(open) + 1 /\ Base(open', n + 1) = Depth(open) + 1
  <2>1. /\ kind \notin LoopKinds => TurnsTo(open', n + 1) = Turns(open)
        /\ kind \in LoopKinds => TurnsTo(open', n + 1) = Turns(open) + 1
    <3>1. n \in Nat /\ open'[n + 1].kind = kind
      BY <1>1, <1>5, <1>7
    <3> HIDE DEF n
    <3> QED BY <1>10, <3>1, TurnsNext
  <2>2. Depth(open) = 1 + n + Turns(open)
    BY DEF Depth
  <2>3. Base(open', n + 1) = (n + 1) + TurnsTo(open', n + 1)
    BY DEF Base
  <2> DEFINE t == TurnsTo(open', n + 1)
             b == Base(open', n + 1)
             u == Turns(open)
             e == Depth(open)
  <2>4. /\ kind \notin LoopKinds => t = u
        /\ kind \in LoopKinds => t = u + 1
        /\ e = 1 + n + u /\ b = (n + 1) + t /\ n \in Nat /\ u \in Nat
    BY <1>1, <2>1, <2>2, <2>3
  <2> HIDE DEF n, t, b, u, e
  <2>5. /\ kind \notin LoopKinds => t = u /\ b = e
        /\ kind \in LoopKinds => t = u + 1 /\ b = e + 1
    BY ONLY <2>4
  <2> QED BY <2>5 DEF t, b, u, e
<1>12. FrameOK(open', m_lsStack', g, S, B, history', n + 1)
  BY <1>5, <1>7, <1>11 DEF FrameOK, LoopKinds
<1>13. FramesOK(open', m_lsStack', g, S, B, history', Len(open'))
  <2>1. \A i \in 1 .. n + 1 : i \in 1 .. n \/ i = n + 1
    BY <1>1
  <2> QED BY <1>7, <1>9, <1>12, <2>1 DEF FramesOK
<1> QED BY <1>4, <1>13, FlowNext

(* A statement that is closed.                                             *)
LEMMA FlowCloses ==
  ASSUME FlowWriting, NEW R, NEW A, Notes(R, A, history'), NEW g, Becomes(g), Top.kind # "function",
         NEW S, NEW B, Sound(g, Depth(open'), S, B, history'), Grows(Draft, R, A, g, S, B, Depth(open') - 1),
         open' = Front(open), m_lsStack' \in Seq(Loops), Len(m_lsStack') = Turns(open'),
         \A j \in 1 .. Turns(open') : m_lsStack'[j] = m_lsStack[j],
         phase' = phase, pc' = pc, valued' = valued
  PROVE  FlowWriting'
<1> DEFINE n == Len(open)
<1>1. /\ Framed(open) /\ n \in Nat \ {0} /\ Draft \in Drafts /\ Top = open[n] /\ open \in Seq(Frames)
  BY WritingTypes DEF Framed
<1>2. Framed(open')
  BY <1>1, ClosedFrames
<1>3. Len(open') = n - 1 /\ \A i \in 1 .. n - 1 : open'[i] = open[i]
  <2>1. Len(open) > 0
    BY <1>1
  <2> QED BY <1>1, <2>1, FrontFrames
<1>4. /\ TurnsTo(open', n - 1) = Turns(open') /\ Base(open', n - 1) = Depth(open') - 1
      /\ Turns(open') \in Nat /\ Depth(open') - 1 \in Nat
  BY <1>2, <1>3, BaseDepth
<1>5. FramesOK(open', m_lsStack', g, S, B, history', n - 1)
  <2> DEFINE m == n - 1
  <2>1. g \in Drafts /\ m \in Nat
    BY <1>1, SoundTypes
  <2>2. \A i \in 1 .. m : open'[i].kind = open[i].kind /\ open'[i].at = open[i].at
    BY <1>3
  <2>3. FramesOK(open, m_lsStack, Draft, R, A, history', m)
    BY <1>1 DEF Notes, FramesOK
  <2> HIDE DEF m
  <2>4. TurnsTo(open', m) = TurnsTo(open, m) /\ Base(open', m) = Base(open, m)
    BY <2>1, <2>2, TurnsSame
  <2>5. TurnsTo(open, m) = Turns(open') /\ Base(open, m) <= Depth(open') - 1
    BY <1>4, <2>4 DEF m
  <2>6. LoopsKept(m_lsStack, m_lsStack', TurnsTo(open, m), g, S, B, history')
    BY <2>5, SameLoops
  <2>7. FramesOK(open', m_lsStack', g, S, B, history', m)
    BY <1>1, <1>4, <2>1, <2>2, <2>3, <2>5, <2>6, FramesKept
  <2> QED BY <2>7 DEF m
<1>6. FramesOK(open', m_lsStack', g, S, B, history', Len(open'))
  BY <1>3, <1>5
<1> QED BY <1>2, <1>6, FlowNext

-----------------------------------------------------------------------------
(* Statements                                                              *)

LEMMA SimpleStep ==
  ASSUME FlowWriting, NEW g, Becomes(g), history \subseteq history', Simple, Compiling,
         \A R, A : Sound(Draft, Depth(open), R, A, history') =>
                     Leads(Draft, R, A, g, Depth(open), Depth(open) - 1, history')
  PROVE  FlowWriting'
<1>1. PICK R, A : Notes(R, A, history')
  BY WritingNotes
<1>2. PICK S, B : /\ Sound(g, Depth(open), S, B, history')
                  /\ Grows(Draft, R, A, g, S, B, Depth(open) - 1)
  BY <1>1 DEF Notes, Leads
<1>3. /\ open' = Filled /\ m_lsStack' = m_lsStack
      /\ phase' = phase /\ pc' = pc /\ valued' = valued
  BY DEF Simple, Compiling, runVars
<1>4. LoopsKept(m_lsStack, m_lsStack', Turns(open), g, S, B, history')
  BY <1>3, SameLoops
<1>5. m_lsStack' \in Seq(Loops) /\ Len(m_lsStack') = Len(m_lsStack)
  BY <1>3 DEF FlowWriting
<1> QED BY <1>1, <1>2, <1>3, <1>4, <1>5, FlowSimple

LEMMA ExpressionFlow ==
  ASSUME FlowWriting, Expression
  PROVE  FlowWriting'
<1>1. Becomes(temporary(Draft)) /\ Simple /\ Compiling /\ history \subseteq history'
  BY DEF Expression
<1>2. ASSUME NEW R, NEW A, Sound(Draft, Depth(open), R, A, history')
      PROVE  Leads(Draft, R, A, temporary(Draft), Depth(open), Depth(open) - 1, history')
  <2>1. Leads(Draft, R, A, temporary(Draft), Depth(open), Depth(open), history')
    BY <1>2, TemporaryLeads
  <2>2. Depth(open) \in Nat /\ Depth(open) - 1 \in 0 .. Depth(open)
    BY WritingTypes
  <2> QED BY <1>2, <2>1, <2>2, LeadsLess
<1> QED BY <1>1, <1>2, SimpleStep

LEMMA DeclareFlow ==
  ASSUME FlowWriting, Declare
  PROVE  FlowWriting'
<1>1. PICK temp \in BOOLEAN : Becomes(variable(Draft, temp))
  BY DEF Declare
<1>2. Simple /\ Compiling /\ history \subseteq history'
  BY DEF Declare
<1>3. ASSUME NEW R, NEW A, Sound(Draft, Depth(open), R, A, history')
      PROVE  Leads(Draft, R, A, variable(Draft, temp), Depth(open), Depth(open) - 1, history')
  <2>1. Depth(open) > 0
    BY WritingTypes
  <2> QED BY <1>3, <2>1, VariableLeads
<1> QED BY <1>1, <1>2, <1>3, SimpleStep

LEMMA DeclareEmptyFlow ==
  ASSUME FlowWriting, DeclareEmpty
  PROVE  FlowWriting'
<1> DEFINE g == [add(Draft, "construct", Draft.id) EXCEPT !.id = @ + 1]
<1>1. Becomes(g)
  BY WritingTypes DEF DeclareEmpty
<1>2. Simple /\ Compiling /\ history \subseteq history' /\ "empty" \in history'
  BY DEF DeclareEmpty
<1>3. ASSUME NEW R, NEW A, Sound(Draft, Depth(open), R, A, history')
      PROVE  Leads(Draft, R, A, g, Depth(open), Depth(open) - 1, history')
  <2>1. Leads(Draft, R, A, g, Depth(open), Depth(open), history')
    BY <1>2, <1>3, EmptyLeads
  <2>2. Depth(open) \in Nat /\ Depth(open) - 1 \in 0 .. Depth(open)
    BY WritingTypes
  <2> HIDE DEF g
  <2> QED BY <1>3, <2>1, <2>2, LeadsLess
<1> HIDE DEF g
<1> QED BY <1>1, <1>2, <1>3, SimpleStep

(* The objects of all scopes.                                              *)
LEMMA LiveBelow ==
  ASSUME NEW s \in Seq(Scopes), NEW id \in Live(s, 1)
  PROVE  id \in Nat /\ id \in Below(s, Len(s))
<1>1. PICK i \in 1 .. Len(s) : id \in ToSet(s[i].stackObjs)
  BY DEF Live
<1> DEFINE o == s[i].stackObjs
<1>2. o \in Seq(Nat)
  <2>1. s[i] \in Scopes
    OBVIOUS
  <2> QED BY <2>1 DEF Scopes
<1>3. \E k \in 1 .. Len(o) : o[k] = id
  <2>1. id \in ToSet(o)
    BY <1>1
  <2> HIDE DEF o
  <2> QED BY <1>2, <2>1, ToSetProps
<1>4. id \in Nat
  BY <1>2, <1>3
<1> QED BY <1>3, <1>4 DEF Below, Within

LEMMA UseFlow ==
  ASSUME FlowWriting, Use
  PROVE  FlowWriting'
<1>1. PICK id \in Live(m_scopes, 1) : Becomes(add(Draft, "use", id))
  BY DEF Use
<1>2. Simple /\ Compiling /\ history \subseteq history'
  BY DEF Use
<1>3. ASSUME NEW R, NEW A, Sound(Draft, Depth(open), R, A, history')
      PROVE  Leads(Draft, R, A, add(Draft, "use", id), Depth(open), Depth(open) - 1, history')
  <2>1. Draft.scopes \in Seq(Scopes) /\ Len(Draft.scopes) = Depth(open) /\ Draft.scopes = m_scopes
    BY <1>3, SoundTypes, WritingTypes
  <2>2. id \in Nat /\ id \in Below(Draft.scopes, Depth(open))
    BY <2>1, LiveBelow
  <2>3. Leads(Draft, R, A, add(Draft, "use", id), Depth(open), Depth(open), history')
    <3> DEFINE op == "use"
    <3>1. op \in {"use", "reserve"}
      OBVIOUS
    <3>2. Leads(Draft, R, A, add(Draft, op, id), Depth(open), Depth(open), history')
      BY <1>3, <2>2, <3>1, AddLeads
    <3> QED BY <3>2
  <2>4. Depth(open) \in Nat /\ Depth(open) - 1 \in 0 .. Depth(open)
    BY WritingTypes
  <2> QED BY <1>3, <2>3, <2>4, LeadsLess
<1> QED BY <1>1, <1>2, <1>3, SimpleStep

(* A body that is entered.                                                 *)
LEMMA OpenStep ==
  ASSUME FlowWriting, NEW R, NEW A, Notes(R, A, history'), NEW g, Becomes(g),
         NEW kind \in {"then", "else", "chosen", "block"}, NEW at \in Nat,
         NEW S, NEW B, Sound(g, Depth(open) + 1, S, B, history'), Grows(Draft, R, A, g, S, B, Depth(open) - 1),
         Opens(Frame(kind, at)), m_lsStack' = m_lsStack, Compiling,
         kind \in {"then", "else"} => Waits(g, S, B, at, Depth(open), history')
  PROVE  FlowWriting'
<1>1. open' = Append(Filled, Frame(kind, at)) /\ phase' = phase /\ pc' = pc /\ valued' = valued
  BY DEF Opens, Compiling, runVars
<1>2. Framed(Filled) /\ Turns(Filled) = Turns(open) /\ Depth(Filled) = Depth(open)
  BY FilledFrames DEF FlowWriting, Filled
<1>3. kind \in {"then", "else", "chosen", "block", "while", "do"} /\ kind \notin {"while", "do"}
  OBVIOUS
<1>4. Turns(open') = Turns(open) /\ Depth(open') = Depth(open) + 1
  <2> DEFINE p == Append(Filled, Frame(kind, at))
  <2>1. Turns(p) = Turns(Filled) /\ Depth(p) = Depth(Filled) + 1
    BY <1>2, <1>3, OpenedFrames
  <2> QED BY <1>1, <1>2, <2>1
<1>5. m_lsStack' \in Seq(Loops) /\ Len(m_lsStack') = Turns(open')
  BY <1>4 DEF FlowWriting
<1>6. kind \notin LoopKinds
  BY DEF LoopKinds
<1>7. Sound(g, Depth(open'), S, B, history')
  BY <1>4
<1>8. \A j \in 1 .. Turns(open) : m_lsStack'[j] = m_lsStack[j]
  OBVIOUS
<1> QED BY <1>1, <1>3, <1>5, <1>6, <1>7, <1>8, FlowOpens

LEMMA EnterFlow ==
  ASSUME FlowWriting, NEW kind \in {"chosen", "block"}, Becomes(enter(Draft)), Opens(Frame(kind, 0)),
         m_lsStack' = m_lsStack, Compiling, history \subseteq history'
  PROVE  FlowWriting'
<1>1. PICK R, A : Notes(R, A, history')
  BY WritingNotes
<1>2. Depth(open) \in Nat /\ Depth(open) - 1 \in 0 .. Depth(open)
  BY WritingTypes
<1>3. Leads(Draft, R, A, enter(Draft), Depth(open) + 1, Depth(open) - 1, history')
  <2>1. Sound(Draft, Depth(open), R, A, history')
    BY <1>1 DEF Notes
  <2>2. Leads(Draft, R, A, enter(Draft), Depth(open) + 1, Depth(open), history')
    BY <2>1, EnterLeads
  <2> QED BY <1>2, <2>1, <2>2, LeadsLess
<1>4. PICK S, B : /\ Sound(enter(Draft), Depth(open) + 1, S, B, history')
                  /\ Grows(Draft, R, A, enter(Draft), S, B, Depth(open) - 1)
  BY <1>3 DEF Leads
<1>5. kind \in {"then", "else", "chosen", "block"} /\ kind \notin {"then", "else"} /\ 0 \in Nat
  OBVIOUS
<1> QED BY <1>1, <1>4, <1>5, OpenStep

LEMMA IfKnownFlow ==
  ASSUME FlowWriting, IfKnown
  PROVE  FlowWriting'
<1>1. /\ Becomes(enter(Draft)) /\ Opens(Frame("chosen", 0)) /\ m_lsStack' = m_lsStack /\ Compiling
      /\ history \subseteq history'
  BY DEF IfKnown
<1> QED BY <1>1, EnterFlow

LEMMA BlockFlow ==
  ASSUME FlowWriting, Block
  PROVE  FlowWriting'
<1>1. /\ Becomes(enter(Draft)) /\ Opens(Frame("block", 0)) /\ m_lsStack' = m_lsStack /\ Compiling
      /\ history \subseteq history'
  BY DEF Block
<1> QED BY <1>1, EnterFlow

LEMMA IfFlow ==
  ASSUME FlowWriting, If
  PROVE  FlowWriting'
<1> DEFINE n == Depth(open)
<1>1. PICK temp \in BOOLEAN :
        LET g == exit(Maybe(constructed, temp, enter(Draft)), NoId)
        IN  /\ Becomes(enter(label(addJump(g, "branch", <<g.label>>))))
            /\ Opens(Frame("then", Len(g.code) + 1))
  BY DEF If
<1>2. m_lsStack' = m_lsStack /\ Compiling /\ history \subseteq history'
  BY DEF If
<1> DEFINE g == exit(Maybe(constructed, temp, enter(Draft)), NoId)
           k == label(addJump(g, "branch", <<g.label>>))
           m == enter(k)
<1>3. Becomes(m) /\ Opens(Frame("then", Len(g.code) + 1))
  BY <1>1
<1>4. PICK R, A : Notes(R, A, history')
  BY <1>2, WritingNotes
<1>5. n \in Nat /\ n - 1 \in 0 .. n /\ n \in 0 .. n
  BY WritingTypes
<1>6. Leads(Draft, R, A, g, n, n, history')
  <2>1. Sound(Draft, n, R, A, history')
    BY <1>4 DEF Notes
  <2>2. Leads(Draft, R, A, Maybe(constructed, temp, enter(Draft)), n + 1, n, history')
    BY <2>1, MaybeLeads
  <2> QED BY <2>1, <2>2, ScopeLeads
<1> HIDE DEF g
<1>7. PICK R1, A1 : Sound(g, n, R1, A1, history') /\ Grows(Draft, R, A, g, R1, A1, n)
  BY <1>6 DEF Leads
<1>8. PICK R2, A2 : /\ Sound(k, n, R2, A2, history') /\ Grows(g, R1, A1, k, R2, A2, n)
                    /\ Waits(k, R2, A2, Len(g.code) + 1, n, history')
  BY <1>7, BranchSound
<1> HIDE DEF k
<1>9. PICK S, B : Sound(m, n + 1, S, B, history') /\ Grows(k, R2, A2, m, S, B, n)
  BY <1>8, EnterLeads DEF Leads
<1> HIDE DEF m
<1>10. /\ Draft \in Drafts /\ g \in Drafts /\ k \in Drafts /\ m \in Drafts
       /\ Draft.code \in Seq(Codes) /\ g.code \in Seq(Codes) /\ k.code \in Seq(Codes) /\ m.code \in Seq(Codes)
       /\ Draft.label \in Nat /\ g.label \in Nat /\ k.label \in Nat /\ m.label \in Nat
       /\ Len(Draft.scopes) \in Nat /\ Len(m.scopes) \in Nat /\ Len(g.code) \in Nat
  <2>1. Draft \in Drafts /\ g \in Drafts /\ k \in Drafts /\ m \in Drafts
    BY <1>7, <1>8, <1>9, SoundTypes, WritingTypes
  <2> QED BY <2>1, DraftFields
<1>11. Grows(Draft, R, A, k, R2, A2, n)
  BY <1>5, <1>7, <1>8, <1>10, GrowsTrans
<1>12. Grows(Draft, R, A, m, S, B, n)
  BY <1>5, <1>9, <1>10, <1>11, GrowsTrans
<1>13. Grows(Draft, R, A, m, S, B, n - 1)
  BY <1>5, <1>10, <1>12, GrowsLess
<1>14. Waits(m, S, B, Len(g.code) + 1, n, history')
  BY <1>8, <1>9, <1>10, GrowsWaits
<1>15. Len(g.code) + 1 \in Nat /\ "then" \in {"then", "else", "chosen", "block"}
  BY <1>10
<1> QED BY <1>2, <1>3, <1>4, <1>9, <1>13, <1>14, <1>15, OpenStep

(* What is known of the statement that is open.                            *)
LEMMA TopNotes ==
  ASSUME FlowWriting, NEW R, NEW A, NEW h, Notes(R, A, h)
  PROVE  /\ Top.kind \in {"then", "else"} => Waits(Draft, R, A, Top.at, Depth(open) - 1, h)
         /\ Top.kind \in LoopKinds => LoopOK(Draft, R, A, h, m_lsStack[Turns(open)], Depth(open) - 1)
<1>1. /\ Len(open) \in Nat \ {0} /\ Top = open[Len(open)]
      /\ Base(open, Len(open)) = Depth(open) - 1 /\ TurnsTo(open, Len(open)) = Turns(open)
  BY WritingTypes
<1>2. FrameOK(open, m_lsStack, Draft, R, A, h, Len(open))
  BY <1>1 DEF Notes, FramesOK
<1> QED BY <1>1, <1>2 DEF FrameOK

(* The scope of a body is left.                                            *)
LEMMA BodyLeft ==
  ASSUME FlowWriting, Top.kind # "function", NEW R, NEW A, NEW h, Notes(R, A, h)
  PROVE  /\ Depth(open) > 2 /\ Depth(open) \in Nat
         /\ Leads(Draft, R, A, exit(Draft, NoId), Depth(open) - 1, Depth(open) - 1, h)
<1> DEFINE n == Depth(open)
<1>1. n \in Nat /\ n > 2 /\ Sound(Draft, n, R, A, h)
  <2>1. Framed(open) /\ Depth(open) \in Nat
    BY WritingTypes
  <2>2. Depth(open) > 2
    BY <2>1, FrameTypes DEF Top, Last
  <2> QED BY <2>1, <2>2 DEF Notes
<1> HIDE DEF n
<1>2. n > 0 /\ NoId \in Nat /\ n - 1 \in 0 .. n - 1
  BY <1>1 DEF NoId
<1>3. Leads(Draft, R, A, exit(Draft, NoId), n - 1, n - 1, h)
  BY <1>1, <1>2, ExitLeads
<1> QED BY <1>1, <1>3 DEF n

LEMMA CloseStep ==
  ASSUME FlowWriting, NEW R, NEW A, Notes(R, A, history'), NEW g, Becomes(g),
         Top.kind \notin {"function", "while", "do"},
         NEW S, NEW B, Sound(g, Depth(open) - 1, S, B, history'),
         Grows(Draft, R, A, g, S, B, Depth(open) - 1),
         open' = Front(open), m_lsStack' = m_lsStack, Compiling
  PROVE  FlowWriting'
<1>1. Framed(open') /\ Turns(open') = Turns(open) /\ Depth(open') = Depth(open) - 1
  BY ClosedFrames DEF FlowWriting, Top, Last
<1>2. phase' = phase /\ pc' = pc /\ valued' = valued
  BY DEF Compiling, runVars
<1>3. Depth(open) \in Nat /\ Depth(open) - 1 \in Nat /\ Depth(open') - 1 \in 0 .. Depth(open) - 1
  BY <1>1, WritingTypes
<1>4. Draft \in Drafts /\ Len(Draft.scopes) \in Nat /\ Len(g.scopes) \in Nat
  <2>1. Draft \in Drafts /\ g \in Drafts
    BY WritingTypes, SoundTypes
  <2> QED BY <2>1, DraftFields
<1>5. Grows(Draft, R, A, g, S, B, Depth(open') - 1)
  BY <1>3, <1>4, GrowsLess
<1>6. Sound(g, Depth(open'), S, B, history')
  BY <1>1
<1>7. m_lsStack' \in Seq(Loops) /\ Len(m_lsStack') = Turns(open')
  BY <1>1 DEF FlowWriting
<1>8. Top.kind # "function" /\ \A j \in 1 .. Turns(open') : m_lsStack'[j] = m_lsStack[j]
  OBVIOUS
<1> QED BY <1>2, <1>5, <1>6, <1>7, <1>8, FlowCloses

LEMMA EndIfFlow ==
  ASSUME FlowWriting, EndThen \/ EndElse
  PROVE  FlowWriting'
<1> DEFINE n == Depth(open)
           g == exit(Draft, NoId)
           k == label(targets(g, {Top.at}, g.label))
<1>1. /\ Top.kind \in {"then", "else"} /\ Becomes(k) /\ open' = Front(open)
      /\ m_lsStack' = m_lsStack /\ Compiling /\ history' = history
  BY DEF EndThen, EndElse, Closes
<1>2. PICK R, A : Notes(R, A, history')
  BY <1>1, WritingNotes
<1>3. Top.kind # "function" /\ Top.kind \notin {"function", "while", "do"}
  BY <1>1
<1>4. n \in Nat /\ n - 1 \in Nat /\ Leads(Draft, R, A, g, n - 1, n - 1, history')
  BY <1>2, <1>3, BodyLeft
<1> HIDE DEF g
<1>5. PICK S, B : Sound(g, n - 1, S, B, history') /\ Grows(Draft, R, A, g, S, B, n - 1)
  BY <1>4 DEF Leads
<1>6. /\ Draft \in Drafts /\ g \in Drafts
      /\ Draft.code \in Seq(Codes) /\ g.code \in Seq(Codes) /\ Draft.label \in Nat /\ g.label \in Nat
  <2>1. Draft \in Drafts /\ g \in Drafts
    BY <1>5, SoundTypes, WritingTypes
  <2> QED BY <2>1, DraftFields
<1>7. Waits(g, S, B, Top.at, n - 1, history')
  BY <1>1, <1>2, <1>5, <1>6, TopNotes, GrowsWaits
<1>8. PICK T, C : Sound(k, n - 1, T, C, history') /\ Grows(g, S, B, k, T, C, n - 1)
  <2> DEFINE at == {Top.at}
  <2>1. \A p \in at : Waits(g, S, B, p, n - 1, history')
    BY <1>7
  <2> HIDE DEF at
  <2>2. \E T, C : /\ Sound(label(targets(g, at, g.label)), n - 1, T, C, history')
                  /\ Grows(g, S, B, label(targets(g, at, g.label)), T, C, n - 1)
    BY <1>5, <2>1, LabelSound
  <2> QED BY <2>2 DEF at
<1> HIDE DEF k
<1>9. k.code \in Seq(Codes) /\ k.label \in Nat
  BY <1>8, SoundTypes
<1>10. Grows(Draft, R, A, k, T, C, n - 1)
  BY <1>4, <1>5, <1>6, <1>8, <1>9, GrowsTrans
<1> QED BY <1>1, <1>2, <1>3, <1>8, <1>10, CloseStep

LEMMA EndBodyFlow ==
  ASSUME FlowWriting, EndChosen \/ EndBlock
  PROVE  FlowWriting'
<1>1. /\ Top.kind \in {"chosen", "block"} /\ Becomes(exit(Draft, NoId)) /\ open' = Front(open)
      /\ m_lsStack' = m_lsStack /\ Compiling /\ history' = history
  BY DEF EndChosen, EndBlock, Closes
<1>2. PICK R, A : Notes(R, A, history')
  BY <1>1, WritingNotes
<1>3. Top.kind # "function" /\ Top.kind \notin {"function", "while", "do"}
  BY <1>1
<1>4. PICK S, B : /\ Sound(exit(Draft, NoId), Depth(open) - 1, S, B, history')
                  /\ Grows(Draft, R, A, exit(Draft, NoId), S, B, Depth(open) - 1)
  BY <1>2, <1>3, BodyLeft DEF Leads
<1> QED BY <1>1, <1>2, <1>3, <1>4, CloseStep

LEMMA ElseFlow ==
  ASSUME FlowWriting, Else
  PROVE  FlowWriting'
<1> DEFINE n == Depth(open)
           e == exit(Draft, NoId)
           g == addJump(e, "jump", <<>>)
           k == label(targets(g, {Top.at}, g.label))
           m == enter(k)
           p == Append(Front(open), Frame("else", Len(g.code)))
<1>1. /\ Top.kind = "then" /\ Becomes(m) /\ open' = p /\ m_lsStack' = m_lsStack /\ history' = history
      /\ phase' = phase /\ pc' = pc /\ valued' = valued
  BY DEF Else, Closes, Compiling, runVars
<1>2. PICK R, A : Notes(R, A, history')
  BY <1>1, WritingNotes
<1>3. n \in Nat /\ n - 1 \in Nat /\ Leads(Draft, R, A, e, n - 1, n - 1, history')
  BY <1>1, <1>2, BodyLeft
<1> HIDE DEF e
<1>4. PICK R1, A1 : Sound(e, n - 1, R1, A1, history') /\ Grows(Draft, R, A, e, R1, A1, n - 1)
  BY <1>3 DEF Leads
<1>5. /\ Sound(g, n - 1, R1, A1, history') /\ Grows(e, R1, A1, g, R1, A1, n - 1)
      /\ Waits(g, R1, A1, Len(e.code) + 1, n - 1, history')
  BY <1>4, JumpLaterSound DEF Jumps
<1>6. /\ Draft \in Drafts /\ e \in Drafts /\ g \in Drafts
      /\ Draft.code \in Seq(Codes) /\ e.code \in Seq(Codes) /\ g.code \in Seq(Codes)
      /\ Draft.label \in Nat /\ e.label \in Nat /\ g.label \in Nat
  <2>1. Draft \in Drafts /\ e \in Drafts /\ g \in Drafts
    BY <1>4, <1>5, SoundTypes, WritingTypes
  <2> QED BY <2>1, DraftFields
<1>7. Len(g.code) = Len(e.code) + 1 /\ Len(g.code) \in Nat
  <2>1. g.code = Append(e.code, Instruction("jump", NoId, <<>>))
    BY <1>6 DEF addJump, Drafts
  <2> QED BY <1>6, <2>1
<1> HIDE DEF g
<1>8. Grows(Draft, R, A, g, R1, A1, n - 1)
  BY <1>3, <1>4, <1>5, <1>6, GrowsTrans
<1>9. Waits(g, R1, A1, Top.at, n - 1, history') /\ Waits(g, R1, A1, Len(g.code), n - 1, history')
  <2>1. Waits(Draft, R, A, Top.at, n - 1, history')
    BY <1>1, <1>2, TopNotes
  <2>2. Waits(g, R1, A1, Top.at, n - 1, history')
    BY <1>6, <1>8, <2>1, GrowsWaits
  <2> QED BY <1>5, <1>7, <2>2
<1>10. PICK R2, A2 : Sound(k, n - 1, R2, A2, history') /\ Grows(g, R1, A1, k, R2, A2, n - 1)
  <2> DEFINE at == {Top.at}
  <2>1. \A q \in at : Waits(g, R1, A1, q, n - 1, history')
    BY <1>9
  <2> HIDE DEF at
  <2>2. \E T, C : /\ Sound(label(targets(g, at, g.label)), n - 1, T, C, history')
                  /\ Grows(g, R1, A1, label(targets(g, at, g.label)), T, C, n - 1)
    BY <1>5, <2>1, LabelSound
  <2> QED BY <2>2 DEF at
<1> HIDE DEF k
<1>11. (n - 1) + 1 = n
  BY <1>3
<1>12. PICK S, B : Sound(m, n, S, B, history') /\ Grows(k, R2, A2, m, S, B, n - 1)
  <2>1. Leads(k, R2, A2, m, (n - 1) + 1, n - 1, history')
    BY <1>10, EnterLeads
  <2> QED BY <1>11, <2>1 DEF Leads
<1> HIDE DEF m
<1>13. k.code \in Seq(Codes) /\ k.label \in Nat /\ m.code \in Seq(Codes) /\ m.label \in Nat /\ m \in Drafts
  BY <1>10, <1>12, SoundTypes
<1>14. Grows(g, R1, A1, m, S, B, n - 1)
  BY <1>3, <1>6, <1>10, <1>12, <1>13, GrowsTrans
<1>15. Grows(Draft, R, A, m, S, B, n - 1)
  BY <1>3, <1>6, <1>8, <1>13, <1>14, GrowsTrans
<1>16. Waits(m, S, B, Len(g.code), n - 1, history')
  BY <1>6, <1>9, <1>13, <1>14, GrowsWaits
<1>17. Framed(Front(open)) /\ Turns(Front(open)) = Turns(open) /\ Depth(Front(open)) = n - 1
  BY <1>1, ClosedFrames DEF FlowWriting, Top, Last
<1>18. "else" \in {"then", "else", "chosen", "block", "while", "do"} /\ "else" \notin {"while", "do"}
  OBVIOUS
<1>19. Framed(p) /\ Turns(p) = Turns(Front(open)) /\ Depth(p) = Depth(Front(open)) + 1
  BY <1>7, <1>17, <1>18, OpenedFrames
<1> DEFINE f == Frame("else", Len(g.code))
           j == Len(open) - 1
<1>20. /\ open \in Seq(Frames) /\ Len(open) \in Nat \ {0} /\ Len(Front(open)) = j /\ j \in Nat
       /\ \A i \in 1 .. j : Front(open)[i] = open[i]
  <2>1. open \in Seq(Frames) /\ Len(open) \in Nat \ {0} /\ Len(open) > 0
    BY WritingTypes DEF Framed
  <2> QED BY <2>1, FrontFrames
<1>21. Front(open) \in Seq(Frames) /\ f \in Frames /\ f.kind = "else" /\ f.at = Len(g.code)
  BY <1>7, <1>17 DEF Framed, Frame, Frames
<1> HIDE DEF f
<1>22. /\ Len(p) = j + 1 /\ p[j + 1] = f /\ \A i \in 1 .. j : p[i] = open[i]
  <2> DEFINE o == Front(open)
  <2>1. o \in Seq(Frames) /\ p = Append(o, f) /\ Len(o) = j
    BY <1>20, <1>21 DEF f
  <2> HIDE DEF o, p
  <2>2. Len(p) = j + 1 /\ p[j + 1] = f /\ \A i \in 1 .. j : p[i] = o[i]
    BY <1>20, <1>21, <2>1
  <2> QED BY <1>20, <2>2 DEF o
<1> HIDE DEF p
<1>23. FramesOK(p, m_lsStack, m, S, B, history', j)
  <2>1. FramesOK(open, m_lsStack, Draft, R, A, history', j)
    BY <1>2, <1>20 DEF Notes, FramesOK
  <2>2. Base(open, j) <= n - 1
    <3>1. Base(open, j) <= Base(open, Len(open)) /\ Base(open, Len(open)) = n - 1
      <4>1. j \in 0 .. Len(open)
        BY <1>20
      <4> QED BY <1>20, <4>1, TurnsGrow, WritingTypes
    <3> QED BY <3>1
  <2>3. \A i \in 1 .. j : p[i].kind = open[i].kind /\ p[i].at = open[i].at
    BY <1>22
  <2>4. LoopsKept(m_lsStack, m_lsStack, TurnsTo(open, j), m, S, B, history')
    BY SameLoops
  <2> HIDE DEF j, n
  <2>5. Draft \in Drafts /\ m \in Drafts /\ n - 1 \in Nat /\ j \in Nat
    BY <1>3, <1>6, <1>13, <1>20
  <2> QED BY ONLY <1>15, <2>1, <2>2, <2>3, <2>4, <2>5, FramesKept
<1>24. FrameOK(p, m_lsStack, m, S, B, history', j + 1)
  <2>1. p[j + 1].kind = "else" /\ p[j + 1].at = Len(g.code) /\ p[j + 1].kind \notin LoopKinds
    BY <1>21, <1>22 DEF LoopKinds
  <2>2. Base(p, j + 1) = n - 1
    <3>1. Base(p, Len(p)) = Depth(p) - 1
      BY <1>19, BaseDepth
    <3> QED BY <1>11, <1>17, <1>19, <1>22, <3>1
  <2> QED BY <1>16, <2>1, <2>2 DEF FrameOK
<1>25. FramesOK(p, m_lsStack, m, S, B, history', Len(p))
  <2>1. \A i \in 1 .. j + 1 : i \in 1 .. j \/ i = j + 1
    BY <1>20
  <2> HIDE DEF j
  <2>2. Len(p) = j + 1
    BY <1>22
  <2> QED BY <1>23, <1>24, <2>1, <2>2 DEF FramesOK
<1>26. Framed(open') /\ m_lsStack' \in Seq(Loops) /\ Len(m_lsStack') = Turns(open')
  BY <1>1, <1>17, <1>19 DEF FlowWriting
<1>27. Sound(m, Depth(open'), S, B, history')
  BY <1>1, <1>11, <1>12, <1>17, <1>19
<1>28. FramesOK(open', m_lsStack', m, S, B, history', Len(open'))
  BY <1>1, <1>25
<1> QED BY <1>1, <1>26, <1>27, <1>28, FlowNext

(* The head of a loop: its scope, the variable of its initializer and the  *)
(* label it is continued at.                                               *)
LEMMA LoopHead ==
  ASSUME NEW g, NEW n, NEW R, NEW A, NEW h, Sound(g, n, R, A, h), NEW f, Leads(g, R, A, f, n + 1, n, h)
  PROVE  \E S, B : /\ Sound(label(f), n + 1, S, B, h) /\ Grows(g, R, A, label(f), S, B, n)
                   /\ Begins(label(f), S, B, label(f).label - 1, n + 1)
                   /\ label(f).label - 1 \in Nat /\ Len(label(f).scopes) = n + 1
<1> DEFINE s == label(f)
<1>1. PICK R1, A1 : Sound(f, n + 1, R1, A1, h) /\ Grows(g, R, A, f, R1, A1, n)
  BY DEF Leads
<1>2. f \in Drafts /\ f.code \in Seq(Codes) /\ f.label \in Nat /\ f.scopes \in Seq(Scopes)
  BY <1>1, SoundTypes
<1>3. g \in Drafts /\ g.code \in Seq(Codes) /\ g.label \in Nat /\ n \in Nat /\ Len(g.scopes) \in Nat
  BY SoundTypes
<1>4. s = label(targets(f, {}, f.label))
  BY <1>2, LabelAlone
<1>5. PICK S, B : /\ Sound(s, n + 1, S, B, h) /\ Grows(f, R1, A1, s, S, B, n + 1)
                  /\ Begins(s, S, B, f.label, n + 1)
  <2> DEFINE at == {}
  <2>1. \A p \in at : Waits(f, R1, A1, p, n + 1, h)
    OBVIOUS
  <2>2. s = label(targets(f, at, f.label))
    BY <1>4
  <2> HIDE DEF at, s
  <2>3. \E S, B : /\ Sound(label(targets(f, at, f.label)), n + 1, S, B, h)
                  /\ Grows(f, R1, A1, label(targets(f, at, f.label)), S, B, n + 1)
                  /\ Begins(label(targets(f, at, f.label)), S, B, f.label, n + 1)
    BY <1>1, <2>1, LabelSound
  <2> QED BY <2>2, <2>3
<1>6. s.label = f.label + 1
  <2> DEFINE at == {}
  <2>1. label(targets(f, at, f.label)).label = f.label + 1
    BY <1>2, LabelDraft
  <2> QED BY <1>4, <2>1
<1> HIDE DEF s
<1>7. s.label - 1 = f.label /\ s.label \in Nat
  BY <1>2, <1>6
<1>8. s \in Drafts /\ s.code \in Seq(Codes) /\ Len(s.scopes) = n + 1 /\ Len(f.scopes) = n + 1
  BY <1>1, <1>5, SoundTypes
<1>9. Grows(f, R1, A1, s, S, B, n)
  <2>1. n + 1 \in Nat /\ n \in 0 .. n + 1 /\ Len(s.scopes) \in Nat /\ Len(f.scopes) \in Nat
    BY <1>3, <1>8
  <2> QED BY <1>5, <2>1, GrowsLess
<1>10. Grows(g, R, A, s, S, B, n)
  BY <1>1, <1>2, <1>3, <1>7, <1>8, <1>9, GrowsTrans
<1>11. Begins(s, S, B, s.label - 1, n + 1) /\ s.label - 1 \in Nat
  BY <1>2, <1>5, <1>7
<1> QED BY <1>5, <1>8, <1>10, <1>11 DEF s

(* Its condition, unless that is behind the body.                          *)
LEMMA LoopCondition ==
  ASSUME NEW s, NEW n, NEW R, NEW A, NEW h, Sound(s, n, R, A, h), NEW deferred \in BOOLEAN
  PROVE  LET cond == exit(enter(s), NoId)
             body == IF deferred THEN s ELSE label(addJump(cond, "branch", <<cond.label>>))
             pending == IF deferred THEN {} ELSE {Len(cond.code) + 1}
         IN  /\ Len(cond.code) + 1 \in Nat
             /\ \E S, B : /\ Sound(body, n, S, B, h) /\ Grows(s, R, A, body, S, B, n)
                          /\ \A p \in pending : Waits(body, S, B, p, n, h)
<1> DEFINE cond == exit(enter(s), NoId)
           body == IF deferred THEN s ELSE label(addJump(cond, "branch", <<cond.label>>))
           pending == IF deferred THEN {} ELSE {Len(cond.code) + 1}
<1>1. Leads(s, R, A, cond, n, n, h)
  <2>1. Leads(s, R, A, enter(s), n + 1, n, h)
    BY EnterLeads
  <2> QED BY <2>1, ScopeLeads
<1>2. s \in Drafts /\ s.code \in Seq(Codes) /\ s.label \in Nat /\ n \in Nat /\ Len(s.scopes) = n
  BY SoundTypes
<1>3. PICK R1, A1 : Sound(cond, n, R1, A1, h) /\ Grows(s, R, A, cond, R1, A1, n)
  BY <1>1 DEF Leads
<1>4. cond \in Drafts /\ cond.code \in Seq(Codes) /\ cond.label \in Nat /\ Len(cond.code) \in Nat
  BY <1>3, SoundTypes
<1>5. CASE deferred
  <2>1. body = s /\ pending = {}
    BY <1>5
  <2>2. Grows(s, R, A, s, R, A, n)
    BY <1>2, GrowsSelf
  <2> HIDE DEF cond, body, pending
  <2>3. Sound(body, n, R, A, h) /\ Grows(s, R, A, body, R, A, n)
        /\ \A p \in pending : Waits(body, R, A, p, n, h)
    BY <2>1, <2>2
  <2>4. Len(cond.code) + 1 \in Nat
    BY <1>4
  <2> QED BY <2>3, <2>4 DEF cond, body, pending
<1>6. CASE ~deferred
  <2> DEFINE t == label(addJump(cond, "branch", <<cond.label>>))
  <2>1. body = t /\ pending = {Len(cond.code) + 1}
    BY <1>6
  <2> HIDE DEF cond
  <2>2. PICK S, B : /\ Sound(t, n, S, B, h) /\ Grows(cond, R1, A1, t, S, B, n)
                    /\ Waits(t, S, B, Len(cond.code) + 1, n, h)
    BY <1>3, BranchSound
  <2> HIDE DEF t, body, pending
  <2>3. t.code \in Seq(Codes) /\ t.label \in Nat
    BY <2>2, SoundTypes
  <2>4. Grows(s, R, A, t, S, B, n)
    BY <1>2, <1>3, <1>4, <2>2, <2>3, GrowsTrans
  <2>5. Sound(body, n, S, B, h) /\ Grows(s, R, A, body, S, B, n)
        /\ \A p \in pending : Waits(body, S, B, p, n, h)
    BY <2>1, <2>2, <2>4
  <2>6. Len(cond.code) + 1 \in Nat
    BY <1>4
  <2> QED BY <2>5, <2>6 DEF cond, body, pending
<1> QED BY <1>5, <1>6

LEMMA LoopFlow ==
  ASSUME FlowWriting, Loop
  PROVE  FlowWriting'
<1> DEFINE Init0(init) == Maybe(LAMBDA g : variable(g, FALSE), init, enter(Draft))
           Start(init) == label(Init0(init))
           Cond(init) == exit(enter(Start(init)), NoId)
           Body(init, deferred) ==
             IF deferred THEN Start(init)
             ELSE label(addJump(Cond(init), "branch", <<Cond(init).label>>))
           Pending(init, deferred) == IF deferred THEN {} ELSE {Len(Cond(init).code) + 1}
           LoopOf(init, deferred) ==
             [loop_begin |-> Start(init).label - 1, outer_scope |-> Len(Start(init).scopes),
              pending_end_label |-> Pending(init, deferred)]
<1>1. PICK init \in BOOLEAN, deferred \in BOOLEAN :
        /\ Becomes(enter(Body(init, deferred)))
        /\ m_lsStack' = Append(m_lsStack, LoopOf(init, deferred))
        /\ Opens(Frame(IF deferred THEN "do" ELSE "while", 0))
  BY DEF Loop
<1> DEFINE n == Depth(open)
           f == Init0(init)
           s == Start(init)
           cond == Cond(init)
           body == Body(init, deferred)
           pending == Pending(init, deferred)
           kind == IF deferred THEN "do" ELSE "while"
           l == LoopOf(init, deferred)
           m == enter(body)
<1>2. n \in Nat /\ n + 1 \in Nat /\ n - 1 \in 0 .. n /\ n \in 0 .. n + 1 /\ n + 1 > 0
      /\ (n + 1) - 1 = n /\ (n + 1) + 1 = n + 2
  BY WritingTypes
<1> HIDE DEF n
<1>3. history' = history /\ phase' = phase /\ pc' = pc /\ valued' = valued
  BY DEF Loop, Compiling, runVars
<1>4. PICK R, A : Notes(R, A, history')
  BY <1>3, WritingNotes
<1>5. Sound(Draft, n, R, A, history')
  BY <1>4 DEF Notes, n
<1>6. Leads(Draft, R, A, f, n + 1, n, history')
  <2>1. Leads(Draft, R, A, enter(Draft), n + 1, n, history')
    BY <1>5, EnterLeads
  <2>2. CASE init
    <3>1. ASSUME NEW S, NEW B, Sound(enter(Draft), n + 1, S, B, history')
          PROVE  Leads(enter(Draft), S, B, variable(enter(Draft), FALSE), n + 1, n, history')
      <4>1. FALSE \in BOOLEAN
        OBVIOUS
      <4>2. Leads(enter(Draft), S, B, variable(enter(Draft), FALSE), n + 1, (n + 1) - 1, history')
        BY <1>2, <3>1, <4>1, VariableLeads
      <4> QED BY <1>2, <4>2
    <3>2. Leads(Draft, R, A, variable(enter(Draft), FALSE), n + 1, n, history')
      BY <1>2, <1>5, <2>1, <3>1, LeadsTrans
    <3> QED BY <2>2, <3>2 DEF Maybe
  <2>3. CASE ~init
    BY <2>1, <2>3 DEF Maybe
  <2> QED BY <2>2, <2>3
<1>7. s = label(f)
  OBVIOUS
<1> HIDE DEF f, Init0
<1>8. PICK R1, A1 : /\ Sound(s, n + 1, R1, A1, history') /\ Grows(Draft, R, A, s, R1, A1, n)
                    /\ Begins(s, R1, A1, s.label - 1, n + 1)
                    /\ s.label - 1 \in Nat /\ Len(s.scopes) = n + 1
  BY <1>5, <1>6, <1>7, LoopHead
<1>9. cond = exit(enter(s), NoId)
  OBVIOUS
<1>10. body = IF deferred THEN s ELSE label(addJump(cond, "branch", <<cond.label>>))
  OBVIOUS
<1>11. pending = IF deferred THEN {} ELSE {Len(cond.code) + 1}
  OBVIOUS
<1>12. l = [loop_begin |-> s.label - 1, outer_scope |-> Len(s.scopes), pending_end_label |-> pending]
  OBVIOUS
<1>13. /\ Becomes(m) /\ m_lsStack' = Append(m_lsStack, l)
       /\ open' = Append(Filled, Frame(kind, 0))
  BY <1>1 DEF Opens
<1> HIDE DEF s, cond, body, pending, l, Start, Cond, Body, Pending, LoopOf
<1>14. /\ Len(cond.code) + 1 \in Nat
       /\ \E S, B : /\ Sound(body, n + 1, S, B, history') /\ Grows(s, R1, A1, body, S, B, n + 1)
                    /\ \A p \in pending : Waits(body, S, B, p, n + 1, history')
  BY <1>8, <1>9, <1>10, <1>11, LoopCondition
<1>15. PICK R2, A2 : /\ Sound(body, n + 1, R2, A2, history') /\ Grows(s, R1, A1, body, R2, A2, n + 1)
                     /\ \A p \in pending : Waits(body, R2, A2, p, n + 1, history')
  BY <1>14
<1>16. PICK S, B : Sound(m, n + 2, S, B, history') /\ Grows(body, R2, A2, m, S, B, n + 1)
  <2>1. Leads(body, R2, A2, m, (n + 1) + 1, n + 1, history')
    BY <1>15, EnterLeads
  <2> QED BY <1>2, <2>1 DEF Leads
<1> HIDE DEF m
<1>17. /\ Draft \in Drafts /\ s \in Drafts /\ body \in Drafts /\ m \in Drafts
       /\ Draft.code \in Seq(Codes) /\ s.code \in Seq(Codes) /\ body.code \in Seq(Codes) /\ m.code \in Seq(Codes)
       /\ Draft.label \in Nat /\ s.label \in Nat /\ body.label \in Nat /\ m.label \in Nat
       /\ Len(Draft.scopes) \in Nat /\ Len(s.scopes) \in Nat /\ Len(m.scopes) \in Nat
  <2>1. Draft \in Drafts /\ s \in Drafts /\ body \in Drafts /\ m \in Drafts
    BY <1>5, <1>8, <1>15, <1>16, SoundTypes
  <2> QED BY <2>1, DraftFields
<1>18. Grows(s, R1, A1, m, S, B, n + 1)
  BY <1>2, <1>15, <1>16, <1>17, GrowsTrans
<1>19. Grows(Draft, R, A, m, S, B, n - 1)
  <2>1. Grows(s, R1, A1, m, S, B, n)
    BY <1>2, <1>17, <1>18, GrowsLess
  <2>2. Grows(Draft, R, A, m, S, B, n)
    BY <1>2, <1>8, <1>17, <2>1, GrowsTrans
  <2> QED BY <1>2, <1>17, <2>2, GrowsLess
<1>20. LoopOK(m, S, B, history', l, n + 1)
  <2>1. l.outer_scope = n + 1 /\ l.pending_end_label = pending /\ l.loop_begin = s.label - 1
    BY <1>8, <1>12
  <2>2. Begins(m, S, B, l.loop_begin, n + 1)
    BY <1>8, <1>17, <1>18, <2>1, GrowsBegins
  <2>3. ASSUME NEW p \in pending PROVE Waits(m, S, B, p, n + 1, history')
    BY <1>15, <1>16, <1>17, GrowsWaits
  <2> QED BY <2>1, <2>2, <2>3 DEF LoopOK
<1>21. l \in Loops
  <2>1. pending \in SUBSET Nat
    BY <1>11, <1>14
  <2> QED BY <1>2, <1>8, <1>12, <2>1 DEF Loops
<1>22. Framed(Filled) /\ Turns(Filled) = Turns(open) /\ Depth(Filled) = n
  BY FilledFrames DEF FlowWriting, Filled, n
<1>23. kind \in {"then", "else", "chosen", "block", "while", "do"} /\ kind \in {"while", "do"}
       /\ kind \in LoopKinds /\ kind \notin {"then", "else"} /\ 0 \in Nat
  BY DEF LoopKinds
<1> HIDE DEF kind
<1>24. Turns(open') = Turns(open) + 1 /\ Depth(open') = n + 2
  <2> DEFINE p == Append(Filled, Frame(kind, 0))
  <2>1. Turns(p) = Turns(Filled) + 1 /\ Depth(p) = Depth(Filled) + 2
    BY <1>22, <1>23, OpenedFrames
  <2> QED BY <1>13, <1>22, <2>1
<1>25. /\ m_lsStack' \in Seq(Loops) /\ Len(m_lsStack') = Turns(open')
       /\ m_lsStack'[Turns(open) + 1] = l /\ \A j \in 1 .. Turns(open) : m_lsStack'[j] = m_lsStack[j]
  <2>1. m_lsStack \in Seq(Loops) /\ Len(m_lsStack) = Turns(open)
    BY DEF FlowWriting
  <2> DEFINE t == Turns(open)
             ls == m_lsStack
             new == Append(ls, l)
  <2>2. ls \in Seq(Loops) /\ Len(ls) = t /\ t \in Nat /\ m_lsStack' = new /\ Turns(open') = t + 1
    BY <1>13, <1>24, <2>1
  <2> HIDE DEF t, ls
  <2>3. new \in Seq(Loops) /\ Len(new) = t + 1
    BY <1>21, <2>2
  <2>4. new[t + 1] = l /\ \A j \in 1 .. t : new[j] = ls[j]
    BY <1>21, <2>2
  <2> HIDE DEF new
  <2>5. m_lsStack' = new /\ Turns(open') = t + 1
    BY <2>2
  <2> QED BY <2>3, <2>4, <2>5 DEF t, ls
<1>26. Sound(m, Depth(open'), S, B, history')
  BY <1>16, <1>24
<1>27. LoopOK(m, S, B, history', m_lsStack'[Turns(open) + 1], Depth(open) + 1)
  BY <1>20, <1>25 DEF n
<1>28. Grows(Draft, R, A, m, S, B, Depth(open) - 1)
  BY <1>19 DEF n
<1> QED BY <1>3, <1>4, <1>13, <1>23, <1>25, <1>26, <1>27, <1>28, FlowOpens

(* The end label of a loop, where its scope is left.                       *)
LEMMA EndedSound ==
  ASSUME NEW g, NEW n, NEW R, NEW A, NEW h, Sound(g, n, R, A, h), n > 0,
         NEW pending, \A p \in pending : Waits(g, R, A, p, n, h)
  PROVE  Leads(g, R, A, Ended(g, pending), n - 1, n - 1, h)
<1> DEFINE k == label(targets(g, pending, g.label))
<1>1. PICK S, B : Sound(k, n, S, B, h) /\ Grows(g, R, A, k, S, B, n)
  BY LabelSound
<1>2. Ended(g, pending) = exit(k, NoId)
  BY DEF Ended
<1> HIDE DEF k
<1>3. n \in Nat /\ n - 1 \in 0 .. n /\ n - 1 \in 0 .. n - 1 /\ n - 1 \in Nat /\ NoId \in Nat /\ NoId = NoId
  BY SoundTypes DEF NoId
<1>4. Leads(k, S, B, exit(k, NoId), n - 1, n - 1, h)
  BY <1>1, <1>3, ExitLeads
<1>5. PICK T, C : Sound(exit(k, NoId), n - 1, T, C, h) /\ Grows(k, S, B, exit(k, NoId), T, C, n - 1)
  BY <1>4 DEF Leads
<1>6. /\ g.code \in Seq(Codes) /\ g.label \in Nat /\ k.code \in Seq(Codes) /\ k.label \in Nat
      /\ Len(g.scopes) \in Nat /\ Len(k.scopes) \in Nat
      /\ exit(k, NoId).code \in Seq(Codes) /\ exit(k, NoId).label \in Nat
  BY <1>1, <1>5, SoundTypes
<1>7. Grows(g, R, A, k, S, B, n - 1)
  BY <1>1, <1>3, <1>6, GrowsLess
<1>8. Grows(g, R, A, exit(k, NoId), T, C, n - 1)
  BY <1>3, <1>5, <1>6, <1>7, GrowsTrans
<1> QED BY <1>2, <1>5, <1>8 DEF Leads

(* A loop is closed.                                                       *)
LEMMA LoopClosed ==
  ASSUME FlowWriting, NEW R, NEW A, Notes(R, A, history'), NEW g, Becomes(g), Top.kind \in LoopKinds,
         Leads(Draft, R, A, g, Depth(open) - 2, Depth(open) - 2, history'),
         open' = Front(open), m_lsStack' = Front(m_lsStack), Compiling
  PROVE  FlowWriting'
<1>1. Top.kind # "function" /\ Top.kind \in {"while", "do"}
  BY DEF LoopKinds
<1>2. Framed(open') /\ Turns(open') = Turns(open) - 1 /\ Depth(open') = Depth(open) - 2 /\ Turns(open) > 0
  <2>1. open[Len(open)].kind \in {"while", "do"} /\ open[Len(open)].kind # "function" /\ Framed(open)
    BY <1>1 DEF FlowWriting, Top, Last
  <2> QED BY <1>1, <2>1, FrameTypes, ClosedFrames
<1>3. Depth(open) > 2 /\ Turns(open) \in Nat /\ Depth(open) \in Nat /\ Depth(open') \in Nat /\ Depth(open') > 1
  BY <1>2, BaseDepth, WritingTypes
<1>4. /\ m_lsStack' \in Seq(Loops) /\ Len(m_lsStack') = Turns(open')
      /\ \A j \in 1 .. Turns(open') : m_lsStack'[j] = m_lsStack[j]
  <2> DEFINE t == Turns(open)
             ls == m_lsStack
  <2>1. ls \in Seq(Loops) /\ Len(ls) = t /\ t \in Nat /\ t > 0
    BY <1>2, <1>3 DEF FlowWriting
  <2> HIDE DEF t, ls
  <2>2. Front(ls) \in Seq(Loops) /\ Len(Front(ls)) = t - 1 /\ \A j \in 1 .. t - 1 : Front(ls)[j] = ls[j]
    BY <2>1 DEF Front
  <2>3. m_lsStack' = Front(ls) /\ Turns(open') = t - 1
    BY <1>2 DEF t, ls
  <2> QED BY <2>2, <2>3 DEF ls
<1>5. PICK S, B : /\ Sound(g, Depth(open'), S, B, history')
                  /\ Grows(Draft, R, A, g, S, B, Depth(open'))
  BY <1>2 DEF Leads
<1>6. Len(Draft.scopes) \in Nat /\ Len(g.scopes) \in Nat
  <2>1. Draft \in Drafts /\ g \in Drafts
    BY <1>5, WritingTypes, SoundTypes
  <2> QED BY <2>1, DraftFields
<1>7. Grows(Draft, R, A, g, S, B, Depth(open') - 1)
  <2>1. Depth(open') - 1 \in 0 .. Depth(open')
    BY <1>3
  <2> QED BY <1>3, <1>5, <1>6, <2>1, GrowsLess
<1>8. phase' = phase /\ pc' = pc /\ valued' = valued
  BY DEF Compiling, runVars
<1> QED BY <1>1, <1>4, <1>5, <1>7, <1>8, FlowCloses

(* The jump back to the loop, and its end.                                 *)
LEMMA LoopRest ==
  ASSUME NEW g, NEW n, NEW R, NEW A, NEW h, Sound(g, n, R, A, h), n > 0, NEW op \in Jumps,
         NEW L \in Loops, LoopOK(g, R, A, h, L, n), NEW pending,
         pending \subseteq L.pending_end_label \cup {Len(g.code) + 1}
  PROVE  Leads(g, R, A, Ended(addJump(g, op, <<L.loop_begin>>), pending), n - 1, n - 1, h)
<1> DEFINE l == L.loop_begin
           k == addJump(g, op, <<l>>)
<1>1. l \in Nat /\ Begins(g, R, A, l, n)
  BY DEF LoopOK, Loops
<1> HIDE DEF l
<1>2. /\ Sound(k, n, R, A, h) /\ Grows(g, R, A, k, R, A, n)
      /\ Waits(k, R, A, Len(g.code) + 1, n, h)
  BY <1>1, JumpBackSound
<1> HIDE DEF k
<1>3. /\ g.code \in Seq(Codes) /\ g.label \in Nat /\ k.code \in Seq(Codes) /\ k.label \in Nat
      /\ Len(g.scopes) \in Nat /\ Len(k.scopes) \in Nat /\ n \in Nat /\ n - 1 \in Nat /\ n - 1 \in 0 .. n
  BY <1>2, SoundTypes
<1>4. ASSUME NEW p \in pending PROVE Waits(k, R, A, p, n, h)
  <2>1. CASE p = Len(g.code) + 1
    BY <1>2, <2>1
  <2>2. CASE p \in L.pending_end_label
    <3>1. Waits(g, R, A, p, n, h)
      BY <2>2 DEF LoopOK
    <3> QED BY <1>2, <1>3, <3>1, GrowsWaits
  <2> QED BY <2>1, <2>2
<1>5. Leads(k, R, A, Ended(k, pending), n - 1, n - 1, h)
  BY <1>2, <1>4, EndedSound
<1> DEFINE m == Ended(k, pending)
<1>6. PICK S, B : Sound(m, n - 1, S, B, h) /\ Grows(k, R, A, m, S, B, n - 1)
  BY <1>5 DEF Leads
<1> HIDE DEF m
<1>7. m.code \in Seq(Codes) /\ m.label \in Nat
  BY <1>6, SoundTypes
<1>8. Grows(g, R, A, k, R, A, n - 1)
  BY <1>2, <1>3, GrowsLess
<1>9. Grows(g, R, A, m, S, B, n - 1)
  BY <1>3, <1>6, <1>7, <1>8, GrowsTrans
<1>10. Leads(g, R, A, m, n - 1, n - 1, h)
  BY <1>6, <1>9 DEF Leads
<1> QED BY <1>10 DEF m, k, l

(* A loop stays as it is while the draft grows.                            *)
LEMMA LoopGrows ==
  ASSUME NEW g, NEW R, NEW A, NEW k, NEW S, NEW B, NEW d, Grows(g, R, A, k, S, B, d),
         g.code \in Seq(Codes), k.code \in Seq(Codes), g.label \in Nat, k.label \in Nat,
         NEW h, NEW L, LoopOK(g, R, A, h, L, d)
  PROVE  LoopOK(k, S, B, h, L, d)
<1>1. Begins(k, S, B, L.loop_begin, d)
  BY GrowsBegins DEF LoopOK
<1>2. ASSUME NEW p \in L.pending_end_label PROVE Waits(k, S, B, p, d, h)
  BY GrowsWaits DEF LoopOK
<1> QED BY <1>1, <1>2 DEF LoopOK

LEMMA EndLoopFlow ==
  ASSUME FlowWriting, EndWhile \/ EndDo
  PROVE  FlowWriting'
<1> DEFINE n == Depth(open) - 1
           L == Last(m_lsStack)
           body == exit(Draft, NoId)
<1>1. /\ Top.kind \in LoopKinds /\ Top.kind # "function"
      /\ m_lsStack' = Front(m_lsStack) /\ open' = Front(open) /\ Compiling /\ history' = history
  BY DEF EndWhile, EndDo, Closes, LoopKinds
<1>2. PICK R, A : Notes(R, A, history')
  BY <1>1, WritingNotes
<1>3. /\ n \in Nat /\ n > 0 /\ n - 1 = Depth(open) - 2 /\ n \in 0 .. n + 1 /\ n + 1 \in Nat
      /\ Leads(Draft, R, A, body, n, n, history')
  <2>1. Depth(open) > 2 /\ Depth(open) \in Nat /\ Leads(Draft, R, A, body, n, n, history')
    BY <1>1, <1>2, BodyLeft
  <2> QED BY <2>1
<1>4. L \in Loops /\ LoopOK(Draft, R, A, history', L, n)
  <2>1. m_lsStack \in Seq(Loops) /\ Len(m_lsStack) = Turns(open) /\ Turns(open) > 0
    <3>1. open[Len(open)].kind \in {"while", "do"} /\ Framed(open)
      BY <1>1 DEF FlowWriting, Top, Last, LoopKinds
    <3>2. Turns(open) > 0
      BY <3>1, FrameTypes
    <3> QED BY <3>2 DEF FlowWriting
  <2>2. L = m_lsStack[Turns(open)] /\ L \in Loops
    BY <2>1 DEF Last
  <2> QED BY <1>1, <1>2, <2>2, TopNotes
<1>5. L = Last(m_lsStack)
  OBVIOUS
<1> HIDE DEF n, L, body
<1>6. PICK R1, A1 : Sound(body, n, R1, A1, history') /\ Grows(Draft, R, A, body, R1, A1, n)
  BY <1>3 DEF Leads
(* The rest of the loop is behind some code that ends where the body does. *)
<1> DEFINE Ends(g) ==
             \E c, op, pending :
               /\ Leads(body, R1, A1, c, n, n, history') /\ op \in Jumps
               /\ pending \subseteq L.pending_end_label \cup {Len(c.code) + 1}
               /\ g = Ended(addJump(c, op, <<L.loop_begin>>), pending)
<1>7. ASSUME NEW g, Ends(g)
      PROVE  Leads(Draft, R, A, g, n - 1, n - 1, history')
  <2>1. PICK c, op, pending :
               /\ Leads(body, R1, A1, c, n, n, history') /\ op \in Jumps
               /\ pending \subseteq L.pending_end_label \cup {Len(c.code) + 1}
               /\ g = Ended(addJump(c, op, <<L.loop_begin>>), pending)
    BY <1>7
  <2>2. PICK R2, A2 : Sound(c, n, R2, A2, history') /\ Grows(body, R1, A1, c, R2, A2, n)
    BY <2>1 DEF Leads
  <2>3. /\ Draft.code \in Seq(Codes) /\ Draft.label \in Nat /\ Len(Draft.scopes) \in Nat
        /\ body.code \in Seq(Codes) /\ body.label \in Nat
        /\ c.code \in Seq(Codes) /\ c.label \in Nat /\ Len(c.scopes) \in Nat
    <3>1. Draft \in Drafts /\ body \in Drafts /\ c \in Drafts
      BY <1>6, <2>2, SoundTypes, WritingTypes
    <3> QED BY <3>1, DraftFields
  <2>4. Grows(Draft, R, A, c, R2, A2, n)
    BY <1>3, <1>6, <2>2, <2>3, GrowsTrans
  <2>5. LoopOK(c, R2, A2, history', L, n)
    BY <1>4, <2>3, <2>4, LoopGrows
  <2>6. Leads(c, R2, A2, g, n - 1, n - 1, history')
    BY <1>3, <1>4, <2>1, <2>2, <2>5, LoopRest
  <2>7. PICK S, B : Sound(g, n - 1, S, B, history') /\ Grows(c, R2, A2, g, S, B, n - 1)
    BY <2>6 DEF Leads
  <2>8. g.code \in Seq(Codes) /\ g.label \in Nat
    BY <2>7, SoundTypes
  <2>9. n - 1 \in Nat /\ n - 1 \in 0 .. n
    BY <1>3
  <2>10. Grows(Draft, R, A, c, R2, A2, n - 1)
    BY <1>3, <2>3, <2>4, <2>9, GrowsLess
  <2>11. Grows(Draft, R, A, g, S, B, n - 1)
    BY <2>3, <2>7, <2>8, <2>9, <2>10, GrowsTrans
  <2> QED BY <2>7, <2>11 DEF Leads
<1>8. Leads(body, R1, A1, enter(body), n + 1, n, history')
  BY <1>6, EnterLeads
<1>9. \E g : Becomes(g) /\ Ends(g)
  <2>1. CASE EndWhile
    <3> DEFINE Next0(modifier) == Maybe(LAMBDA g : exit(temporary(enter(g)), NoId), modifier, body)
    <3>1. PICK modifier \in BOOLEAN :
            Becomes(Ended(addJump(Next0(modifier), "jump", <<L.loop_begin>>), L.pending_end_label))
      BY <2>1 DEF EndWhile, L, body
    <3>2. Leads(body, R1, A1, Next0(modifier), n, n, history')
      <4>1. CASE modifier
        <5>1. ASSUME NEW S, NEW B, Sound(enter(body), n + 1, S, B, history')
              PROVE  Leads(enter(body), S, B, temporary(enter(body)), n + 1, n, history')
          <6>1. Leads(enter(body), S, B, temporary(enter(body)), n + 1, n + 1, history')
            BY <5>1, TemporaryLeads
          <6> QED BY <1>3, <5>1, <6>1, LeadsLess
        <5>2. Leads(body, R1, A1, temporary(enter(body)), n + 1, n, history')
          BY <1>3, <1>6, <1>8, <5>1, LeadsTrans
        <5>3. Leads(body, R1, A1, exit(temporary(enter(body)), NoId), n, n, history')
          BY <1>6, <5>2, ScopeLeads
        <5> QED BY <4>1, <5>3 DEF Maybe
      <4>2. CASE ~modifier
        <5>1. Next0(modifier) = body
          BY <4>2 DEF Maybe
        <5>2. body \in Drafts /\ Len(body.scopes) = n
          BY <1>6, SoundTypes
        <5>3. Grows(body, R1, A1, body, R1, A1, n)
          BY <5>2, GrowsSelf
        <5>4. Leads(body, R1, A1, body, n, n, history')
          BY <1>6, <5>3 DEF Leads
        <5> QED BY <5>1, <5>4
      <4> QED BY <4>1, <4>2
    <3>3. "jump" \in Jumps
      BY DEF Jumps
    <3> DEFINE c == Next0(modifier)
               p == L.pending_end_label
               g == Ended(addJump(c, "jump", <<L.loop_begin>>), p)
    <3>4. Becomes(g) /\ Leads(body, R1, A1, c, n, n, history')
      BY <3>1, <3>2
    <3>5. p \subseteq L.pending_end_label \cup {Len(c.code) + 1}
      OBVIOUS
    <3> HIDE DEF Next0, p
    <3>6. Ends(g)
      BY <3>3, <3>4, <3>5
    <3> QED BY <3>4, <3>6
  <2>2. CASE EndDo
    <3> DEFINE c == exit(enter(body), NoId)
               p == L.pending_end_label \cup {Len(c.code) + 1}
               g == Ended(addJump(c, "branch", <<L.loop_begin>>), p)
    <3>1. Becomes(g)
      BY <2>2 DEF EndDo, L, body
    <3>2. Leads(body, R1, A1, c, n, n, history')
      BY <1>6, <1>8, ScopeLeads
    <3>3. "branch" \in Jumps
      BY DEF Jumps
    <3>4. p \subseteq L.pending_end_label \cup {Len(c.code) + 1}
      OBVIOUS
    <3> HIDE DEF c, p
    <3>5. Ends(g)
      BY <3>2, <3>3, <3>4
    <3> QED BY <3>1, <3>5
  <2> QED BY <1>1, <2>1, <2>2
<1>10. PICK g : Becomes(g) /\ Ends(g)
  BY <1>9
<1>11. Leads(Draft, R, A, g, Depth(open) - 2, Depth(open) - 2, history')
  <2>1. Leads(Draft, R, A, g, n - 1, n - 1, history')
    BY <1>7, <1>10
  <2> QED BY <1>3, <2>1
<1> QED BY <1>1, <1>2, <1>10, <1>11, LoopClosed

(* Without early exits the invariant of the drafts holds.                  *)
LEMMA WritingHolds ==
  ASSUME FlowWriting, "early" \notin history
  PROVE  Writing
BY DEF FlowWriting, Notes, Sound, Writing

(* The innermost loop, when it is left early.                              *)
LEMMA LeftNotes ==
  ASSUME FlowWriting, NEW R, NEW A, Notes(R, A, history'), m_lsStack # <<>>, LeftLoop
  PROVE  LET L == Last(m_lsStack)
             m == L.outer_scope
         IN  /\ L \in Loops /\ L = m_lsStack[Turns(open)] /\ Turns(open) > 0 /\ Len(m_lsStack) = Turns(open)
             /\ m \in 1 .. Depth(open) - 1
             /\ LoopOK(Draft, R, A, history', L, m)
             /\ Left(Draft) = LeftTo(Draft, m)
             /\ "initializer" \notin history' => Len(Draft.scopes[m].stackObjs) = 0
             /\ "early" \notin history' => Good(Left(Draft), Depth(open))
<1> DEFINE L == Last(m_lsStack)
           m == L.outer_scope
<1>1. /\ m_lsStack \in Seq(Loops) /\ Len(m_lsStack) = Turns(open) /\ Turns(open) > 0
      /\ L = m_lsStack[Turns(open)] /\ L \in Loops
  <2>1. m_lsStack \in Seq(Loops) /\ Len(m_lsStack) = Turns(open)
    BY DEF FlowWriting
  <2>2. Len(m_lsStack) > 0
    BY <2>1
  <2>3. L = m_lsStack[Turns(open)]
    BY <2>1 DEF Last
  <2>4. L \in Loops
    BY <2>1, <2>2, <2>3
  <2> QED BY <2>1, <2>2, <2>3, <2>4
<1>2. Framed(open) /\ Base(open, Len(open)) = Depth(open) - 1 /\ Len(open) \in Nat /\ Depth(open) \in Nat
  BY WritingTypes
<1>3. PICK k \in 1 .. Len(open) : open[k].kind \in LoopKinds /\ TurnsTo(open, k) = Turns(open)
  BY <1>1, <1>2, LastLoop
<1>4. FrameOK(open, m_lsStack, Draft, R, A, history', k)
  BY <1>3 DEF Notes, FramesOK
<1>5. LoopOK(Draft, R, A, history', L, Base(open, k))
  BY <1>1, <1>3, <1>4 DEF FrameOK
<1>6. m = Base(open, k)
  BY <1>5 DEF LoopOK
<1>7. m \in 1 .. Depth(open) - 1
  <2>1. k \in Nat /\ k \in 0 .. Len(open) /\ k >= 1
    BY <1>2
  <2>2. Base(open, k) <= Base(open, Len(open)) /\ Base(open, k) \in Nat /\ TurnsTo(open, k) \in Nat
    BY <1>2, <2>1, TurnsGrow, TurnsTypes
  <2>3. Base(open, k) >= 1
    BY <2>1, <2>2 DEF Base
  <2> QED BY <1>2, <1>6, <2>2, <2>3
<1>8. Left(Draft) = LeftTo(Draft, m)
  BY DEF Left, LeftTo, Draft
<1>9. "initializer" \notin history' => Len(Draft.scopes[m].stackObjs) = 0
  <2> SUFFICES ASSUME "initializer" \notin history' PROVE Len(Draft.scopes[m].stackObjs) = 0
    OBVIOUS
  <2> DEFINE objs == m_scopes[m].stackObjs
  <2>1. ToSet(objs) = {}
    BY DEF LeftLoop
  <2> HIDE DEF m
  <2>2. Draft.scopes = m_scopes /\ Draft.scopes \in Seq(Scopes) /\ Len(Draft.scopes) = Depth(open)
    BY WritingTypes, SoundTypes DEF Notes
  <2>3. m_scopes[m] \in Scopes
    BY <1>2, <1>7, <2>2
  <2>4. objs \in Seq(Nat)
    BY <2>3 DEF Scopes
  <2> HIDE DEF objs
  <2>5. \A i \in DOMAIN objs : objs[i] \in ToSet(objs)
    BY DEF ToSet
  <2>6. Len(objs) = 0
    <3>1. DOMAIN objs = 1 .. Len(objs) /\ Len(objs) \in Nat
      BY <2>4
    <3>2. ASSUME Len(objs) > 0 PROVE FALSE
      <4>1. 1 \in DOMAIN objs
        BY <3>1, <3>2
      <4>2. objs[1] \in ToSet(objs)
        BY <2>5, <4>1
      <4> QED BY <2>1, <4>2
    <3> QED BY <3>1, <3>2
  <2> QED BY <2>2, <2>6 DEF objs
<1>10. "early" \notin history' => Good(Left(Draft), Depth(open))
  <2> SUFFICES ASSUME "early" \notin history' PROVE Good(Left(Draft), Depth(open))
    OBVIOUS
  <2>1. "early" \notin history
    BY DEF LeftLoop
  <2> QED BY <2>1, WritingHolds, LeftGood
<1> QED BY <1>1, <1>5, <1>6, <1>7, <1>8, <1>9, <1>10

(* What jumping out of the loop makes of the draft.                        *)
LEMMA LeftLeads ==
  ASSUME FlowWriting, NEW R, NEW A, Notes(R, A, history'), m_lsStack # <<>>, LeftLoop,
         NEW to, to = <<>> \/ to = <<Last(m_lsStack).loop_begin>>
  PROVE  \E S, B :
           /\ Sound(addJump(Left(Draft), "jump", to), Depth(open), S, B, history')
           /\ Grows(Draft, R, A, addJump(Left(Draft), "jump", to), S, B, Depth(open) - 1)
           /\ Waits(addJump(Left(Draft), "jump", to), S, B, Len(addJump(Left(Draft), "jump", to).code),
                    Last(m_lsStack).outer_scope, history')
<1> DEFINE L == Last(m_lsStack)
           m == L.outer_scope
           n == Depth(open)
           g == addJump(LeftTo(Draft, m), "jump", to)
<1>1. /\ L \in Loops /\ m \in 1 .. n - 1 /\ LoopOK(Draft, R, A, history', L, m)
      /\ Left(Draft) = LeftTo(Draft, m)
      /\ "initializer" \notin history' => Len(Draft.scopes[m].stackObjs) = 0
      /\ "early" \notin history' => Good(Left(Draft), n)
  BY LeftNotes
<1>2. n \in Nat /\ Sound(Draft, n, R, A, history') /\ n - 1 \in 0 .. n /\ m \in 1 .. n
  <2>1. n \in Nat /\ n > 1
    BY WritingTypes
  <2> QED BY <1>1, <2>1 DEF Notes
<1>3. L.loop_begin \in Nat /\ Begins(Draft, R, A, L.loop_begin, m)
  BY <1>1 DEF LoopOK, Loops
<1>4. to = <<>> \/ to = <<L.loop_begin>>
  OBVIOUS
<1> HIDE DEF L, m, n
<1>5. to \in Seq(Nat) /\ \A j \in 1 .. Len(to) : Begins(Draft, R, A, to[j], m)
  <2>1. CASE to = <<>>
    BY <2>1
  <2>2. CASE to = <<L.loop_begin>>
    <3> DEFINE b == L.loop_begin
    <3>1. b \in Nat /\ Begins(Draft, R, A, b, m) /\ to = <<b>>
      BY <1>3, <2>2
    <3> HIDE DEF b
    <3>2. to \in Seq(Nat) /\ Len(to) = 1 /\ to[1] = b
      BY <3>1
    <3>3. \A j \in 1 .. Len(to) : to[j] = b
      BY <3>2
    <3> QED BY <3>1, <3>2, <3>3
  <2> QED BY <1>4, <2>1, <2>2
<1>6. "early" \notin history' => Good(g, n)
  <2> SUFFICES ASSUME "early" \notin history' PROVE Good(g, n)
    OBVIOUS
  <2>1. Good(LeftTo(Draft, m), n)
    BY <1>1
  <2> DEFINE k == LeftTo(Draft, m)
  <2> HIDE DEF k
  <2>2. CASE to = <<>>
    <3>1. Good(addJump(k, "jump", <<>>), n)
      BY <2>1, JumpLater DEF k
    <3> QED BY <2>2, <3>1 DEF k
  <2>3. CASE to = <<L.loop_begin>>
    <3>1. Good(addJump(k, "jump", <<L.loop_begin>>), n)
      BY <1>3, <2>1, JumpTo DEF k
    <3> QED BY <2>3, <3>1 DEF k
  <2> QED BY <1>4, <2>2, <2>3
<1>7. PICK S, B : /\ Sound(g, n, S, B, history') /\ Grows(Draft, R, A, g, S, B, n)
                  /\ Waits(g, S, B, Len(g.code), m, history')
  BY <1>1, <1>2, <1>5, <1>6, LeftSound
<1> HIDE DEF g
<1>8. Len(Draft.scopes) \in Nat /\ Len(g.scopes) \in Nat
  <2>1. Draft \in Drafts /\ g \in Drafts
    BY <1>2, <1>7, SoundTypes
  <2> QED BY <2>1, DraftFields
<1>9. Grows(Draft, R, A, g, S, B, n - 1)
  BY <1>2, <1>7, <1>8, GrowsLess
<1>10. g = addJump(Left(Draft), "jump", to)
  BY <1>1 DEF g
<1> QED BY <1>7, <1>9, <1>10 DEF n, m, L

LEMMA ContinueFlow ==
  ASSUME FlowWriting, Continue
  PROVE  FlowWriting'
<1> DEFINE to == <<Last(m_lsStack).loop_begin>>
           g == addJump(Left(Draft), "jump", to)
<1>1. /\ m_lsStack # <<>> /\ LeftLoop /\ Becomes(g) /\ open' = Filled /\ m_lsStack' = m_lsStack
      /\ phase' = phase /\ pc' = pc /\ valued' = valued
  BY DEF Continue, Simple, Compiling, runVars
<1>2. history \subseteq history'
  BY <1>1 DEF LeftLoop
<1>3. PICK R, A : Notes(R, A, history')
  BY <1>2, WritingNotes
<1>4. to = <<Last(m_lsStack).loop_begin>>
  OBVIOUS
<1> HIDE DEF to
<1>5. PICK S, B : /\ Sound(g, Depth(open), S, B, history')
                  /\ Grows(Draft, R, A, g, S, B, Depth(open) - 1)
  BY <1>1, <1>3, <1>4, LeftLeads
<1> HIDE DEF g
<1>6. LoopsKept(m_lsStack, m_lsStack', Turns(open), g, S, B, history')
  BY <1>1, SameLoops
<1>7. m_lsStack' \in Seq(Loops) /\ Len(m_lsStack') = Len(m_lsStack)
  BY <1>1 DEF FlowWriting
<1> QED BY <1>1, <1>3, <1>5, <1>6, <1>7, FlowSimple

LEMMA BreakFlow ==
  ASSUME FlowWriting, Break
  PROVE  FlowWriting'
<1> DEFINE to == <<>>
           g == addJump(Left(Draft), "jump", to)
           t == Turns(open)
           ls == m_lsStack
           k == Len(m_lsStack)
           l == [m_lsStack[k] EXCEPT !.pending_end_label = @ \cup {Len(g.code)}]
<1>1. /\ m_lsStack # <<>> /\ LeftLoop /\ Becomes(g) /\ open' = Filled
      /\ m_lsStack' = [m_lsStack EXCEPT ![k] = l]
      /\ phase' = phase /\ pc' = pc /\ valued' = valued
  BY DEF Break, Compiling, runVars
<1>2. history \subseteq history'
  BY <1>1 DEF LeftLoop
<1>3. PICK R, A : Notes(R, A, history')
  BY <1>2, WritingNotes
<1>4. to = <<>>
  OBVIOUS
<1> HIDE DEF to
<1>5. PICK S, B : /\ Sound(g, Depth(open), S, B, history')
                  /\ Grows(Draft, R, A, g, S, B, Depth(open) - 1)
                  /\ Waits(g, S, B, Len(g.code), Last(m_lsStack).outer_scope, history')
  BY <1>1, <1>3, <1>4, LeftLeads
<1> HIDE DEF g
<1>6. Len(g.code) \in Nat
  BY <1>5, SoundTypes
<1>7. /\ Last(m_lsStack) = ls[t] /\ ls[t] \in Loops /\ k = t /\ t \in Nat /\ t > 0 /\ Len(ls) = t
      /\ ls \in Seq(Loops)
  <2>1. /\ Last(m_lsStack) \in Loops /\ Last(m_lsStack) = m_lsStack[Turns(open)]
        /\ Turns(open) > 0 /\ Len(m_lsStack) = Turns(open)
    BY <1>1, <1>3, LeftNotes
  <2>2. Turns(open) \in Nat /\ m_lsStack \in Seq(Loops)
    BY WritingTypes DEF FlowWriting
  <2> QED BY <2>1, <2>2
<1>8. l = [ls[t] EXCEPT !.pending_end_label = @ \cup {Len(g.code)}] /\ m_lsStack' = [ls EXCEPT ![t] = l]
  BY <1>1, <1>7
<1>9. Waits(g, S, B, Len(g.code), ls[t].outer_scope, history')
  BY <1>5, <1>7
<1> HIDE DEF l, k
<1>10. /\ l \in Loops /\ l.loop_begin = ls[t].loop_begin /\ l.outer_scope = ls[t].outer_scope
       /\ l.pending_end_label = ls[t].pending_end_label \cup {Len(g.code)}
  <2> DEFINE x == ls[t]
             q == Len(g.code)
  <2>1. x \in Loops /\ q \in Nat /\ l = [x EXCEPT !.pending_end_label = @ \cup {q}]
    BY <1>6, <1>7, <1>8
  <2> HIDE DEF x, q
  <2>2. /\ l \in Loops /\ l.loop_begin = x.loop_begin /\ l.outer_scope = x.outer_scope
        /\ l.pending_end_label = x.pending_end_label \cup {q}
    BY <2>1 DEF Loops
  <2> QED BY <2>2 DEF x, q
<1> HIDE DEF t, ls
<1>11. /\ m_lsStack' \in Seq(Loops) /\ Len(m_lsStack') = t /\ m_lsStack'[t] = l
       /\ \A j \in 1 .. t : j # t => m_lsStack'[j] = ls[j]
  <2> DEFINE new == [ls EXCEPT ![t] = l]
  <2>1. new \in Seq(Loops) /\ Len(new) = t /\ new[t] = l
        /\ \A j \in 1 .. t : j # t => new[j] = ls[j]
    BY <1>7, <1>10
  <2> HIDE DEF new
  <2>2. m_lsStack' = new
    BY <1>8 DEF new
  <2> QED BY <2>1, <2>2
<1>12. LoopsKept(ls, m_lsStack', t, g, S, B, history')
  <2> SUFFICES ASSUME NEW j \in 1 .. t
               PROVE  /\ m_lsStack'[j].loop_begin = ls[j].loop_begin
                      /\ m_lsStack'[j].outer_scope = ls[j].outer_scope
                      /\ \A p \in m_lsStack'[j].pending_end_label :
                           \/ p \in ls[j].pending_end_label
                           \/ Waits(g, S, B, p, ls[j].outer_scope, history')
    BY DEF LoopsKept
  <2>1. CASE j = t
    BY <1>9, <1>10, <1>11, <2>1
  <2>2. CASE j # t
    BY <1>11, <2>2
  <2> QED BY <2>1, <2>2
<1>13. LoopsKept(m_lsStack, m_lsStack', Turns(open), g, S, B, history')
  BY <1>12 DEF ls, t
<1>14. m_lsStack' \in Seq(Loops) /\ Len(m_lsStack') = Len(m_lsStack)
  BY <1>7, <1>11 DEF ls
<1> QED BY <1>1, <1>3, <1>5, <1>13, <1>14, FlowSimple

LEMMA ReturnFlow ==
  ASSUME FlowWriting, Return
  PROVE  FlowWriting'
<1> DEFINE n == Depth(open)
           g == emitReturnInstructions(Draft)
           k == add(g, "ret", NoId)
<1>1. Becomes(k) /\ Simple /\ Compiling
  BY DEF Return
<1>2. /\ history \subseteq history'
      /\ "return" \notin history' \/ "early" \notin history' => Live(m_scopes, 1) = {}
  BY DEF Return
<1>3. /\ n \in Nat \ {0} /\ n > 0 /\ Draft \in Drafts /\ Draft.scopes = m_scopes
      /\ m_scopes \in Seq(Scopes)
  <2>1. n \in Nat \ {0} /\ Draft \in Drafts /\ Draft.scopes = m_scopes
    BY WritingTypes
  <2> QED BY <2>1, DraftFields
<1>4. ASSUME NEW R, NEW A, Sound(Draft, n, R, A, history')
      PROVE  Leads(Draft, R, A, k, n, n - 1, history')
  <2>1. Len(m_scopes) = n
    BY <1>3, <1>4, SoundTypes
  <2>2. ASSUME Live(m_scopes, 1) = {} PROVE \A i \in 1 .. n : Len(Draft.scopes[i].stackObjs) = 0
    <3>1. 1 \in Nat \ {0}
      OBVIOUS
    <3> QED BY <1>3, <2>1, <2>2, <3>1, NothingLive
  <2>3. Exact(history') => n = 1 \/ Empty(Draft.scopes)
    BY <1>2, <1>3, <2>1, <2>2 DEF Exact, Empty
  <2>4. "early" \notin history' => Good(k, n)
    <3> SUFFICES ASSUME "early" \notin history' PROVE Good(k, n)
      OBVIOUS
    <3>1. Good(Draft, n) /\ \A i \in 1 .. n : Len(Draft.scopes[i].stackObjs) = 0
      BY <1>2, <1>4, <2>2 DEF Sound
    <3>2. Good(g, n)
      BY <1>3, <3>1, ReturnGood
    <3> HIDE DEF g
    <3>3. "ret" \in Ops \ {"free"} /\ NoId \in Nat
      BY DEF Ops, NoId
    <3> QED BY <3>2, <3>3, AddGood
  <2>5. \E S, B : Sound(k, n, S, B, history') /\ Grows(Draft, R, A, k, S, B, n - 1)
    <3> HIDE DEF n
    <3> QED BY <1>3, <1>4, <2>3, <2>4, ReturnSound
  <2> QED BY <2>5 DEF Leads
<1> HIDE DEF k
<1> QED BY <1>1, <1>2, <1>4, SimpleStep

(* The function is complete: nothing is alive where it begins to run, and  *)
(* the end of its code is not reached.                                     *)
LEMMA EndFunctionFlow ==
  ASSUME FlowWriting, EndFunction
  PROVE  FlowRunning'
<1> DEFINE block == exit(Draft, NoId)
           returned == add(emitReturnInstructions(block), "ret", NoId)
           closed == IF block.code # <<>> /\ Last(block.code).op = "ret" THEN block ELSE returned
           k == exit(closed, NoId)
<1>1. /\ Top.kind = "function" /\ Becomes(k) /\ phase' = "run" /\ history' = history
      /\ pc' = pc /\ valued' = valued
  BY DEF EndFunction, Closes, runVars
<1>2. pc = 1 /\ valued = {}
  BY DEF FlowWriting
<1>3. PICK R, A : Notes(R, A, history)
  BY DEF FlowWriting
<1>4. Sound(Draft, 2, R, A, history)
  <2>1. Depth(open) = 2
    BY <1>1, WritingTypes, FrameTypes
  <2> QED BY <1>3, <2>1 DEF Notes
<1>5. PICK R1, A1 : Sound(block, 1, R1, A1, history)
  <2> DEFINE n == 2
  <2>1. n > 0 /\ NoId \in Nat /\ n - 1 \in 0 .. n - 1 /\ n - 1 = 1 /\ Sound(Draft, n, R, A, history)
    BY <1>4 DEF NoId
  <2> HIDE DEF n
  <2>2. Leads(Draft, R, A, block, n - 1, n - 1, history)
    BY <2>1, ExitLeads
  <2>3. Leads(Draft, R, A, block, 1, 1, history)
    BY <2>1, <2>2
  <2> QED BY <2>3 DEF Leads
<1> HIDE DEF block
<1>6. \E S, B : Traced(closed, 1, S, B, history) /\ Len(closed.code) + 1 \notin S
  <2>1. CASE block.code # <<>> /\ Last(block.code).op = "ret"
    <3>1. block.code \in Seq(Codes) /\ Len(block.code) \in Nat
      BY <1>5, SoundTypes
    <3>2. Stops(block.code)
      BY <2>1, <3>1 DEF Stops, Last
    <3>3. Len(block.code) + 1 \notin R1
      BY <1>5, <3>2 DEF Sound, Flowing
    <3>4. Traced(block, 1, R1, A1, history)
      BY <1>5 DEF Sound, Traced
    <3>5. closed = block
      BY <2>1
    <3> HIDE DEF closed
    <3> QED BY <3>3, <3>4, <3>5
  <2>2. CASE ~(block.code # <<>> /\ Last(block.code).op = "ret")
    <3>1. \E S, B : Traced(returned, 1, S, B, history) /\ Len(returned.code) + 1 \notin S
      <4> DEFINE n == 1
      <4>1. n > 0 /\ n = 1 /\ Sound(block, n, R1, A1, history)
        BY <1>5
      <4> HIDE DEF n
      <4>2. \E S, B : Traced(returned, n, S, B, history) /\ Len(returned.code) + 1 \notin S
        BY <4>1, ReturnTraced
      <4> QED BY <4>1, <4>2
    <3>2. closed = returned
      BY <2>2
    <3> HIDE DEF closed, returned
    <3> QED BY <3>1, <3>2
  <2> QED BY <2>1, <2>2
<1> HIDE DEF closed
<1>7. PICK S, B : Traced(closed, 1, S, B, history) /\ Len(closed.code) + 1 \notin S
  BY <1>6
<1>8. PICK T, C : /\ k.label = closed.label /\ Flowing(k.code, T, C, history)
                  /\ Closed(k.code, closed.label) /\ Len(k.code) + 1 \notin T
  BY <1>7, FinalExit
<1>9. closed.label \in Nat
  BY <1>7, TidyTypes DEF Traced
<1> HIDE DEF k
<1>10. m_instructions' = k.code /\ m_nextLabelId' = closed.label
  BY <1>1, <1>8 DEF Becomes
<1>11. 1 \in T /\ C[1] = {}
  BY <1>8 DEF Flowing
<1>12. RunningNotes(T, C)'
  BY <1>1, <1>2, <1>8, <1>10, <1>11 DEF RunningNotes
<1> QED BY <1>1, <1>9, <1>10, <1>12 DEF FlowRunning

LEMMA FlowInit ==
  ASSUME Init
  PROVE  FlowWriting
<1> DEFINE R == {1}
           A == [i \in Nat |-> {}]
           frame == Frame("function", 0)
<1>1. Writing
  BY InitInvariant
<1>2. /\ m_instructions = <<>> /\ m_nextLabelId = 1 /\ open = <<frame>> /\ history = {}
      /\ phase = "compile" /\ pc = 1 /\ valued = {} /\ m_scopes = [i \in 1 .. 2 |-> [stackObjs |-> <<>>, didReturn |-> FALSE]]
  BY DEF Init
<1>3. Len(open) = 1 /\ open[1].kind = "function" /\ open[Len(open)].kind = "function"
  BY <1>2 DEF Frame
<1>4. Depth(open) = 2 /\ Good(Draft, 2)
  <2>1. Framed(open)
    BY <1>1 DEF Writing
  <2> QED BY <1>1, <1>3, <2>1, FrameTypes DEF Writing
<1> HIDE DEF frame
<1>5. /\ Draft \in Drafts /\ Draft.code = <<>> /\ Draft.label = 1 /\ Draft.scopes = m_scopes
      /\ Draft.id > NoId /\ Len(Draft.scopes) = 2
  BY <1>2, <1>4 DEF Good, Draft
<1>6. Tidy(Draft)
  BY <1>4, <1>5 DEF Good, Tidy, Distinct
<1>7. Below(m_scopes, 2) = {} /\ ~Returned(m_scopes, 2)
  <2>1. \A i \in 1 .. 2 : m_scopes[i].stackObjs = <<>> /\ m_scopes[i].didReturn = FALSE
    BY <1>2
  <2>2. Len(<<>>) = 0
    OBVIOUS
  <2>3. \A i \in 1 .. 2 : Len(m_scopes[i].stackObjs) = 0
    BY <2>1, <2>2
  <2>4. Below(m_scopes, 2) = {}
    BY <2>3 DEF Below, Within
  <2>5. ~Returned(m_scopes, 2)
    BY <2>1 DEF Returned
  <2> QED BY <2>4, <2>5
<1>8. Flowing(Draft.code, R, A, history)
  <2> DEFINE c == Draft.code
  <2>1. c \in Seq(Codes) /\ Len(c) = 0
    BY <1>5
  <2> HIDE DEF c
  <2>2. /\ R \in SUBSET (1 .. Len(c) + 1) /\ A \in [Nat -> SUBSET Nat] /\ 1 \in R /\ A[1] = {}
        /\ \A a \in R : a = 1
    BY <2>1
  <2> HIDE DEF R, A
  <2>3. \A a \in R : AliveHeld(c, A, history, a)
    BY <2>2 DEF AliveHeld
  <2>4. \A a \in R : a \in 1 .. Len(c) => Flow(c, R, A, history, a)
    BY <2>1
  <2>5. ~Stops(c)
    BY <2>1 DEF Stops
  <2> QED BY <2>1, <2>2, <2>3, <2>4, <2>5 DEF Flowing, c
<1>9. Closed(Draft.code, Draft.label)
  BY <1>5 DEF Closed
<1>10. AtEnd(Draft, 2, R, A)
  BY <1>5, <1>7 DEF AtEnd
<1> HIDE DEF R, A
<1>11. Sound(Draft, 2, R, A, history)
  BY <1>4, <1>5, <1>6, <1>8, <1>9, <1>10 DEF Sound
<1>12. FramesOK(open, m_lsStack, Draft, R, A, history, Len(open))
  <2>1. "function" \notin {"then", "else"} /\ "function" \notin LoopKinds
    BY DEF LoopKinds
  <2>2. \A k \in 1 .. Len(open) : k = 1
    BY <1>3
  <2> QED BY <1>3, <2>1, <2>2 DEF FramesOK, FrameOK
<1>13. Notes(R, A, history)
  BY <1>4, <1>11, <1>12 DEF Notes
<1> QED BY <1>1, <1>2, <1>13 DEF FlowWriting, Writing

-----------------------------------------------------------------------------
(* The function runs                                                       *)

LEMMA RunningTypes ==
  ASSUME NEW R, NEW A, RunningNotes(R, A)
  PROVE  /\ m_instructions \in Seq(Codes) /\ Len(m_instructions) \in Nat
         /\ pc \in 1 .. Len(m_instructions) /\ m_instructions[pc] \in Codes
         /\ Flow(m_instructions, R, A, history, pc) /\ AliveHeld(m_instructions, A, history, pc)
<1> DEFINE c == m_instructions
<1>1. c \in Seq(Codes) /\ Len(c) \in Nat /\ pc \in R /\ R \in SUBSET (1 .. Len(c) + 1) /\ Len(c) + 1 \notin R
  BY DEF RunningNotes, Flowing
<1>2. pc \in 1 .. Len(c)
  BY <1>1
<1>3. c[pc] \in Codes
  BY <1>1, <1>2
<1> QED BY <1>1, <1>2, <1>3 DEF RunningNotes, Flowing

(* An instruction that does not jump.                                      *)
LEMMA NextInstruction ==
  ASSUME NEW R, NEW A, RunningNotes(R, A), UNCHANGED <<compileVars, phase>>,
         m_instructions[pc].op \notin Jumps \cup {"ret"}, pc' = pc + 1,
         "empty" \notin history => valued' \subseteq A[pc + 1],
         Exact(history) => A[pc + 1] \subseteq valued'
  PROVE  RunningNotes(R, A)'
<1>1. m_instructions' = m_instructions /\ m_nextLabelId' = m_nextLabelId /\ history' = history
  BY DEF compileVars
<1>2. pc' \in R
  BY RunningTypes DEF Flow
<1> QED BY <1>1, <1>2 DEF RunningNotes

LEMMA StepFlow ==
  ASSUME NEW R, NEW A, RunningNotes(R, A), Step, UNCHANGED <<compileVars, phase>>
  PROVE  RunningNotes(R, A)'
<1> DEFINE i == m_instructions[pc]
<1>1. i.op \in {"alloc", "free", "label", "use", "reserve"} /\ pc' = pc + 1 /\ valued' = valued
  BY DEF Step, Running
<1>2. i.op \notin Jumps \cup {"ret"} /\ i.op # "construct" /\ i.op # "dtor"
  BY <1>1 DEF Jumps
<1>3. A[pc + 1] = A[pc]
  BY <1>2, RunningTypes DEF Flow, Follows, After
<1> QED BY <1>1, <1>2, <1>3, NextInstruction DEF RunningNotes

LEMMA ConstructFlow ==
  ASSUME NEW R, NEW A, RunningNotes(R, A), Construct, UNCHANGED <<compileVars, phase>>
  PROVE  RunningNotes(R, A)'
<1> DEFINE i == m_instructions[pc]
<1>1. i.op \in {"construct", "resolve"} /\ pc' = pc + 1 /\ valued' = valued \cup {i.id}
  BY DEF Construct, Running
<1>2. i.op = "construct" /\ i.op \notin Jumps \cup {"ret"}
  BY <1>1, RunningTypes DEF Flow, Jumps
<1>3. A[pc + 1] = A[pc] \cup {i.id} \/ ("empty" \in history /\ A[pc + 1] = A[pc])
  BY <1>2, RunningTypes DEF Flow, Follows, After
<1> HIDE DEF i
<1>4. /\ "empty" \notin history => valued \subseteq A[pc]
      /\ Exact(history) => A[pc] \subseteq valued
  BY DEF RunningNotes
<1>5. /\ "empty" \notin history => valued' \subseteq A[pc + 1]
      /\ Exact(history) => A[pc + 1] \subseteq valued'
  BY <1>1, <1>3, <1>4
<1> QED BY <1>1, <1>2, <1>5, NextInstruction DEF i

LEMMA DestroyFlow ==
  ASSUME NEW R, NEW A, RunningNotes(R, A), Destroy, UNCHANGED <<compileVars, phase>>
  PROVE  RunningNotes(R, A)'
<1> DEFINE i == m_instructions[pc]
<1>1. i.op = "dtor" /\ pc' = pc + 1 /\ valued' = valued \ {i.id}
  BY DEF Destroy, Running
<1>2. i.op \notin Jumps \cup {"ret"}
  BY <1>1 DEF Jumps
<1>3. A[pc + 1] = A[pc] \ {i.id}
  BY <1>1, <1>2, RunningTypes DEF Flow, Follows, After
<1> HIDE DEF i
<1>4. /\ "empty" \notin history => valued \subseteq A[pc]
      /\ Exact(history) => A[pc] \subseteq valued
  BY DEF RunningNotes
<1>5. /\ "empty" \notin history => valued' \subseteq A[pc + 1]
      /\ Exact(history) => A[pc + 1] \subseteq valued'
  BY <1>1, <1>3, <1>4
<1> QED BY <1>1, <1>2, <1>5, NextInstruction DEF i

(* Every label of the code that is a target is somewhere.                  *)
LEMMA JumpFlow ==
  ASSUME NEW R, NEW A, RunningNotes(R, A), Jump, UNCHANGED <<compileVars, phase>>
  PROVE  RunningNotes(R, A)'
<1> DEFINE c == m_instructions
           i == c[pc]
<1>1. /\ i.op \in Jumps /\ valued' = valued
      /\ \E n \in DOMAIN i.to : pc' = LabelAddr(i.to[n])
  BY DEF Jump, Running, Jumps
<1>2. PICK n \in DOMAIN i.to : pc' = LabelAddr(i.to[n])
  BY <1>1
<1> DEFINE l == i.to[n]
<1>3. /\ c \in Seq(Codes) /\ Len(c) \in Nat /\ pc \in 1 .. Len(c) /\ i \in Codes
      /\ Flow(c, R, A, history, pc)
  BY RunningTypes
<1>4. n \in 1 .. Len(i.to)
  <2>1. i.to \in Seq(Nat)
    BY <1>3 DEF Codes
  <2> QED BY <2>1
<1>5. l \in 1 .. m_nextLabelId - 1
  BY <1>1, <1>3, <1>4 DEF RunningNotes, Closed
<1>6. \E b \in 1 .. Len(c) : IsLabel(c[b], l)
  BY <1>5 DEF RunningNotes, Closed
<1>7. LabelAddr(l) \in 1 .. Len(c) /\ IsLabel(c[LabelAddr(l)], l)
  <2>1. DOMAIN m_instructions = 1 .. Len(c)
    BY <1>3
  <2>2. \E b \in DOMAIN m_instructions : m_instructions[b].op = "label" /\ m_instructions[b].to = <<l>>
    BY <1>6, <2>1 DEF IsLabel
  <2> HIDE DEF l
  <2>3. /\ LabelAddr(l) \in DOMAIN m_instructions
        /\ m_instructions[LabelAddr(l)].op = "label" /\ m_instructions[LabelAddr(l)].to = <<l>>
    BY <2>2 DEF LabelAddr
  <2> QED BY <2>1, <2>3 DEF IsLabel
<1>8. pc' \in R /\ Carries(A[pc], A[pc'], history)
  BY <1>1, <1>2, <1>3, <1>4, <1>7 DEF Flow
<1>9. m_instructions' = m_instructions /\ m_nextLabelId' = m_nextLabelId /\ history' = history
  BY DEF compileVars
<1>10. /\ "empty" \notin history => valued' \subseteq A[pc']
       /\ Exact(history) => A[pc'] \subseteq valued'
  <2>1. /\ "empty" \notin history => valued \subseteq A[pc]
        /\ Exact(history) => A[pc] \subseteq valued
    BY DEF RunningNotes
  <2> QED BY <1>1, <1>8, <2>1 DEF Carries
<1> QED BY <1>8, <1>9, <1>10 DEF RunningNotes

LEMMA RunFlow ==
  ASSUME FlowRunning, Run
  PROVE  FlowRunning'
<1>1. PICK R, A : RunningNotes(R, A)
  BY DEF FlowRunning
<1>2. UNCHANGED <<compileVars, phase>> /\ (Step \/ Construct \/ Destroy \/ Jump)
  BY DEF Run
<1>3. RunningNotes(R, A)'
  BY <1>1, <1>2, StepFlow, ConstructFlow, DestroyFlow, JumpFlow
<1>4. phase' = "run" /\ m_nextLabelId' \in Nat
  BY <1>2 DEF FlowRunning, compileVars
<1> QED BY <1>3, <1>4 DEF FlowRunning

-----------------------------------------------------------------------------
(* The theorems                                                            *)

LEMMA CompileFlow ==
  ASSUME FlowWriting, Compile
  PROVE  FlowInv'
<1>1. CASE Expression
  BY <1>1, ExpressionFlow DEF FlowInv
<1>2. CASE Declare
  BY <1>2, DeclareFlow DEF FlowInv
<1>3. CASE DeclareEmpty
  BY <1>3, DeclareEmptyFlow DEF FlowInv
<1>4. CASE Use
  BY <1>4, UseFlow DEF FlowInv
<1>5. CASE Conditional
  BY <1>5 DEF Conditional, FlowInv
<1>6. CASE If
  BY <1>6, IfFlow DEF FlowInv
<1>7. CASE IfKnown
  BY <1>7, IfKnownFlow DEF FlowInv
<1>8. CASE EndThen \/ EndElse
  BY <1>8, EndIfFlow DEF FlowInv
<1>9. CASE Else
  BY <1>9, ElseFlow DEF FlowInv
<1>10. CASE EndChosen \/ EndBlock
  BY <1>10, EndBodyFlow DEF FlowInv
<1>11. CASE Block
  BY <1>11, BlockFlow DEF FlowInv
<1>12. CASE Loop
  BY <1>12, LoopFlow DEF FlowInv
<1>13. CASE EndWhile \/ EndDo
  BY <1>13, EndLoopFlow DEF FlowInv
<1>14. CASE Continue
  BY <1>14, ContinueFlow DEF FlowInv
<1>15. CASE Break
  BY <1>15, BreakFlow DEF FlowInv
<1>16. CASE Return
  BY <1>16, ReturnFlow DEF FlowInv
<1>17. CASE EndFunction
  BY <1>17, EndFunctionFlow DEF FlowInv
<1> QED BY <1>1, <1>2, <1>3, <1>4, <1>5, <1>6, <1>7, <1>8, <1>9, <1>10, <1>11, <1>12, <1>13, <1>14,
           <1>15, <1>16, <1>17 DEF Compile

(* Nor of the conditional expressions.                                     *)
LEMMA ConditionalsKept ==
  ASSUME Next, "conditional" \in history
  PROVE  "conditional" \in history'
<1>1. CASE Compile
  BY <1>1 DEF Compile, Expression, Declare, DeclareEmpty, Use, Conditional, If, IfKnown, EndThen, Else,
    EndElse, EndChosen, Block, EndBlock, Loop, EndWhile, EndDo, Continue, Break, Return, EndFunction,
    Closes, LeftLoop
<1>2. CASE Run
  BY <1>2 DEF Run, compileVars
<1> QED BY <1>1, <1>2 DEF Next

LEMMA FlowKeeps ==
  ASSUME FlowInv, [Next]_vars
  PROVE  FlowInv'
<1>1. CASE UNCHANGED vars
  BY <1>1 DEF FlowInv, FlowWriting, Notes, FlowRunning, RunningNotes, Draft, vars, compileVars, runVars
<1>2. CASE Next
  <2>1. CASE "conditional" \in history
    BY <1>2, <2>1, ConditionalsKept DEF FlowInv
  <2>2. CASE FlowWriting
    <3>1. CASE Compile
      BY <2>2, <3>1, CompileFlow
    <3>2. ~Run
      BY <2>2 DEF FlowWriting, Run, Step, Construct, Destroy, Jump, Running
    <3> QED BY <1>2, <3>1, <3>2 DEF Next
  <2>3. CASE FlowRunning
    <3>1. CASE Run
      BY <2>3, <3>1, RunFlow DEF FlowInv
    <3>2. ~Compile
      BY <2>3, CompileFirst DEF FlowRunning
    <3> QED BY <1>2, <3>1, <3>2 DEF Next
  <2> QED BY <2>1, <2>2, <2>3 DEF FlowInv
<1> QED BY <1>1, <1>2

(* The code of every function has notes of what may be reached and what is *)
(* alive there that agree with it, while it is compiled and as it runs,    *)
(* but for conditional expressions.                                        *)
THEOREM FlowInvariant == Spec => []FlowInv
<1>1. Init => FlowInv
  BY FlowInit DEF FlowInv
<1>2. FlowInv /\ [Next]_vars => FlowInv'
  BY FlowKeeps
<1> QED BY <1>1, <1>2, PTL DEF Spec

(* While a function runs, every object that is alive has a slot that was   *)
(* not freed in text order, so StackManager gives its bytes to nothing     *)
(* else, but for early exits that left objects behind, conditional         *)
(* expressions and variables without an initializer.                       *)
THEOREM LivesHeld == Spec => []LiveHeldApart
<1>1. ASSUME FlowInv PROVE LiveHeldApart
  <2> SUFFICES ASSUME "early" \notin history, "conditional" \notin history, "empty" \notin history,
                      phase = "run", NEW id \in valued
               PROVE  id \in HeldBefore(pc)
    BY DEF LiveHeldApart, LiveHeld
  <2>1. PICK R, A : RunningNotes(R, A)
    BY <1>1 DEF FlowInv, FlowWriting, FlowRunning
  <2>2. /\ m_instructions \in Seq(Codes) /\ pc \in 1 .. Len(m_instructions)
        /\ AliveHeld(m_instructions, A, history, pc)
    BY <2>1, RunningTypes
  <2>3. id \in A[pc]
    BY <2>1 DEF RunningNotes
  <2>4. HeldAt(m_instructions, pc, id)
    BY <2>2, <2>3 DEF AliveHeld
  <2> QED BY <2>2, <2>4, HeldAtBefore
<1> QED BY <1>1, FlowInvariant, PTL

(* What a function destroys or reads is alive, whichever way its branches  *)
(* go, but for returns from scopes with objects, early exits of loops that *)
(* declare an object in their initializer, and conditional expressions.    *)
THEOREM UsesAreValued == Spec => []UsesValuedApart
<1>1. ASSUME FlowInv PROVE UsesValuedApart
  <2> SUFFICES ASSUME Exact(history), "conditional" \notin history, Running({"dtor", "use"})
               PROVE  m_instructions[pc].id \in valued
    BY DEF UsesValuedApart, UsesValued, Exact
  <2>1. PICK R, A : RunningNotes(R, A)
    BY <1>1 DEF FlowInv, FlowWriting, FlowRunning, Running
  <2>2. m_instructions[pc].id \in A[pc]
    BY <2>1, RunningTypes DEF Flow, Running
  <2> QED BY <2>1, <2>2 DEF RunningNotes
<1> QED BY <1>1, FlowInvariant, PTL

(* When a function returns no object is alive, whatever early exits there  *)
(* were, but for conditional expressions and variables without an          *)
(* initializer.                                                            *)
THEOREM NothingIsLeaked == Spec => []NothingLeakedApart
<1>1. ASSUME FlowInv PROVE NothingLeakedApart
  <2> SUFFICES ASSUME "conditional" \notin history, "empty" \notin history, Running({"ret"})
               PROVE  valued = {}
    BY DEF NothingLeakedApart, NothingLeaked
  <2>1. PICK R, A : RunningNotes(R, A)
    BY <1>1 DEF FlowInv, FlowWriting, FlowRunning, Running
  <2>2. A[pc] = {}
    BY <2>1, RunningTypes DEF Flow, Running
  <2> QED BY <2>1, <2>2 DEF RunningNotes
<1> QED BY <1>1, FlowInvariant, PTL

=============================================================================
