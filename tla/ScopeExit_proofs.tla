--------------------------- MODULE ScopeExit_proofs ---------------------------
(***************************************************************************)
(* Proofs about the scopes of a function: whatever statements it is made   *)
(* of, every slot that its code frees is held in text order, unless an     *)
(* early exit left objects behind.                                         *)
(*                                                                         *)
(* The argument is about drafts: an object of an open scope holds its      *)
(* slot at the end of the code written so far, and no object is in two     *)
(* places.  What the statements do to a draft is made of a few operations  *)
(* that keep this; the code that leaves a scope is a fold, reasoned about  *)
(* as an induction over the objects of the scope.                          *)
(***************************************************************************)
EXTENDS ScopeExit, SequenceLemmas

Ops == {"alloc", "construct", "dtor", "free", "use", "reserve", "resolve", "label", "branch", "jump",
        "ret"}
Codes == [op : Ops, id : Nat, to : Seq(Nat)]
Scopes == [stackObjs : Seq(Nat), didReturn : BOOLEAN]
Drafts == [scopes : Seq(Scopes), code : Seq(Codes), label : Nat, id : Nat]

(* The slot id is held before the instruction at a of the code c.          *)
HeldAt(c, a, id) ==
  \E b \in 1 .. a - 1 :
    /\ c[b].op = "alloc" /\ c[b].id = id
    /\ \A d \in b + 1 .. a - 1 : ~(c[d].op = "free" /\ c[d].id = id)

Held(c, id) == HeldAt(c, Len(c) + 1, id)

FreesOK(c) == \A a \in 1 .. Len(c) : c[a].op = "free" => HeldAt(c, a, c[a].id)

(* The positions of the objects in the scopes s, and what is at one.       *)
Places(s) == {p \in Nat \X Nat : p[1] \in 1 .. Len(s) /\ p[2] \in 1 .. Len(s[p[1]].stackObjs)}
At(s, p) == s[p[1]].stackObjs[p[2]]

Good(g, n) ==
  /\ g \in Drafts
  /\ g.id > NoId
  /\ Len(g.scopes) = n
  /\ FreesOK(g.code)
  /\ \A p \in Places(g.scopes) : At(g.scopes, p) \in NoId + 1 .. g.id - 1 /\ Held(g.code, At(g.scopes, p))
  /\ \A p, q \in Places(g.scopes) : At(g.scopes, p) = At(g.scopes, q) => p = q

-----------------------------------------------------------------------------
(* Code                                                                    *)

LEMMA InstructionTypes ==
  ASSUME NEW op \in Ops, NEW id \in Nat, NEW to \in Seq(Nat)
  PROVE  /\ Instruction(op, id, to) \in Codes
         /\ Instruction(op, id, to).op = op /\ Instruction(op, id, to).id = id
BY DEF Instruction, Codes

LEMMA PlainTypes ==
  ASSUME NEW op \in Ops, NEW id \in Nat
  PROVE  /\ Instruction(op, id, <<>>) \in Codes
         /\ Instruction(op, id, <<>>).op = op /\ Instruction(op, id, <<>>).id = id
<1> DEFINE to == <<>>
<1>1. to \in Seq(Nat)
  OBVIOUS
<1> HIDE DEF to
<1>2. /\ Instruction(op, id, to) \in Codes
      /\ Instruction(op, id, to).op = op /\ Instruction(op, id, to).id = id
  BY <1>1, InstructionTypes
<1> QED BY <1>2 DEF to

(* What one more instruction does to the slots held.                       *)
LEMMA HeldAppend ==
  ASSUME NEW c \in Seq(Codes), NEW i \in Codes, FreesOK(c),
         i.op = "free" => Held(c, i.id)
  PROVE  /\ Append(c, i) \in Seq(Codes)
         /\ FreesOK(Append(c, i))
         /\ \A id : Held(c, id) /\ ~(i.op = "free" /\ i.id = id) => Held(Append(c, i), id)
         /\ i.op = "alloc" => Held(Append(c, i), i.id)
<1> DEFINE d == Append(c, i)
<1>1. /\ d \in Seq(Codes) /\ Len(d) = Len(c) + 1 /\ Len(c) \in Nat
      /\ \A a \in 1 .. Len(c) : d[a] = c[a]
      /\ d[Len(c) + 1] = i
  OBVIOUS
<1> HIDE DEF d
<1>2. ASSUME NEW a \in 1 .. Len(c) + 1, NEW id PROVE HeldAt(d, a, id) <=> HeldAt(c, a, id)
  <2>1. \A b \in 1 .. a - 1 : d[b] = c[b]
    BY <1>1
  <2> QED BY <1>1, <2>1 DEF HeldAt
<1>3. FreesOK(d)
  <2> SUFFICES ASSUME NEW a \in 1 .. Len(d), d[a].op = "free" PROVE HeldAt(d, a, d[a].id)
    BY DEF FreesOK
  <2>1. CASE a \in 1 .. Len(c)
    <3>1. d[a] = c[a] /\ HeldAt(c, a, c[a].id)
      BY <1>1, <2>1 DEF FreesOK
    <3> QED BY <1>1, <1>2, <3>1
  <2>2. CASE a = Len(c) + 1
    BY <1>1, <1>2, <2>2 DEF Held
  <2> QED BY <1>1, <2>1, <2>2
<1>4. ASSUME NEW id, Held(c, id), ~(i.op = "free" /\ i.id = id) PROVE Held(d, id)
  <2>1. PICK b \in 1 .. Len(c) : /\ c[b].op = "alloc" /\ c[b].id = id
                                 /\ \A k \in b + 1 .. Len(c) : ~(c[k].op = "free" /\ c[k].id = id)
    BY <1>4, <1>1 DEF Held, HeldAt
  <2>2. \A k \in b + 1 .. Len(c) + 1 : ~(d[k].op = "free" /\ d[k].id = id)
    BY <1>1, <1>4, <2>1
  <2> QED BY <1>1, <2>1, <2>2 DEF Held, HeldAt
<1>5. ASSUME i.op = "alloc" PROVE Held(d, i.id)
  BY <1>1, <1>5 DEF Held, HeldAt
<1> QED BY <1>1, <1>3, <1>4, <1>5 DEF d

(* The targets of jumps do not matter.                                     *)
LEMMA HeldSame ==
  ASSUME NEW c \in Seq(Codes), NEW d \in Seq(Codes), Len(d) = Len(c),
         \A a \in 1 .. Len(c) : d[a].op = c[a].op /\ d[a].id = c[a].id,
         FreesOK(c)
  PROVE  FreesOK(d) /\ \A id : Held(c, id) => Held(d, id)
<1>1. ASSUME NEW a \in 1 .. Len(c) + 1, NEW id, HeldAt(c, a, id) PROVE HeldAt(d, a, id)
  <2>1. PICK b \in 1 .. a - 1 : /\ c[b].op = "alloc" /\ c[b].id = id
                                /\ \A k \in b + 1 .. a - 1 : ~(c[k].op = "free" /\ c[k].id = id)
    BY <1>1 DEF HeldAt
  <2>2. b \in 1 .. Len(c) /\ \A k \in b + 1 .. a - 1 : k \in 1 .. Len(c)
    OBVIOUS
  <2>3. d[b].op = "alloc" /\ d[b].id = id
    BY <2>1, <2>2
  <2>4. \A k \in b + 1 .. a - 1 : ~(d[k].op = "free" /\ d[k].id = id)
    BY <2>1, <2>2
  <2> QED BY <2>3, <2>4 DEF HeldAt
<1> QED BY <1>1 DEF FreesOK, Held

-----------------------------------------------------------------------------
(* The code that destroys objects                                          *)

(* After r is appended to the code c, every slot it frees is held, and the *)
(* slots held before are held but those of ids.                            *)
Leaves(c, r, ids) ==
  /\ r \in Seq(Codes)
  /\ FreesOK(c \o r)
  /\ \A id : Held(c, id) /\ id \notin ids => Held(c \o r, id)

LEMMA LeavesNothing ==
  ASSUME NEW c \in Seq(Codes), FreesOK(c), NEW ids
  PROVE  Leaves(c, <<>>, ids)
<1>1. c \o <<>> = c /\ <<>> \in Seq(Codes)
  BY ConcatEmptySeq
<1> QED BY <1>1 DEF Leaves

Destroys(id) == <<Instruction("dtor", id, <<>>), Instruction("free", id, <<>>)>>

(* One more object is destroyed.                                           *)
LEMMA LeavesOneMore ==
  ASSUME NEW c \in Seq(Codes), NEW r, NEW ids, Leaves(c, r, ids),
         NEW id \in Nat, Held(c, id), id \notin ids
  PROVE  Leaves(c, r \o Destroys(id), ids \cup {id})
<1> DEFINE e == c \o r
           x == Instruction("dtor", id, <<>>)
           y == Instruction("free", id, <<>>)
<1>1. e \in Seq(Codes) /\ FreesOK(e) /\ r \in Seq(Codes) /\ Held(e, id)
  BY ConcatProperties DEF Leaves
<1>2. x \in Codes /\ y \in Codes /\ x.op = "dtor" /\ x.id = id /\ y.op = "free" /\ y.id = id
  <2>1. "dtor" \in Ops /\ "free" \in Ops
    BY DEF Ops
  <2> QED BY <2>1, PlainTypes, Zenon
<1>3. /\ Destroys(id) = <<x, y>>
      /\ <<x, y>> \in Seq(Codes)
  BY <1>2 DEF Destroys
<1> HIDE DEF e, x, y
<1>4. /\ Append(e, x) \in Seq(Codes) /\ FreesOK(Append(e, x))
      /\ \A k : Held(e, k) => Held(Append(e, x), k)
  BY <1>1, <1>2, HeldAppend
<1>5. /\ FreesOK(Append(Append(e, x), y))
      /\ \A k : Held(Append(e, x), k) /\ k # id => Held(Append(Append(e, x), y), k)
  BY <1>1, <1>2, <1>4, HeldAppend
<1>6. Append(Append(e, x), y) = e \o <<x, y>>
  BY <1>1, <1>2
<1>7. e \o <<x, y>> = c \o (r \o <<x, y>>) /\ r \o <<x, y>> \in Seq(Codes)
  BY <1>1, <1>3, ConcatAssociative, ConcatProperties DEF e
<1>8. \A k : Held(c, k) /\ k \notin ids \cup {id} => Held(c \o (r \o <<x, y>>), k)
  BY <1>4, <1>5, <1>6, <1>7 DEF Leaves, e
<1> QED BY <1>3, <1>5, <1>6, <1>7, <1>8 DEF Leaves

(* DestroyCode folds over the objects, the last one first.                 *)
LEMMA DestroyCodeJoined ==
  ASSUME NEW objs \in Seq(Nat), NEW save
  PROVE  JoinedBack(Codes, Len(objs),
                    [i \in 1 .. Len(objs) |-> IF objs[i] = save THEN <<>> ELSE Destroys(objs[i])],
                    DestroyCode(objs, save))
<1> DEFINE n == Len(objs)
           K == [i \in 1 .. n |-> IF objs[i] = save THEN <<>> ELSE Destroys(objs[i])]
           Iter(f) == f = [s \in SUBSET (1 .. n) |->
             IF s = {} THEN <<>>
             ELSE IF objs[Min(s)] = save THEN f[s \ {Min(s)}]
                  ELSE f[s \ {Min(s)}] \o Destroys(objs[Min(s)])]
           f == CHOOSE f : Iter(f)
<1>1. n \in Nat /\ DOMAIN objs = 1 .. n /\ \A i \in 1 .. n : objs[i] \in Nat
  OBVIOUS
<1>2. K \in [1 .. n -> Seq(Codes)]
  <2>1. ASSUME NEW id \in Nat PROVE Destroys(id) \in Seq(Codes)
    <3>1. Instruction("dtor", id, <<>>) \in Codes /\ Instruction("free", id, <<>>) \in Codes
      <4>1. "dtor" \in Ops /\ "free" \in Ops
        BY DEF Ops
      <4> QED BY <4>1, PlainTypes, Zenon
    <3> QED BY <3>1 DEF Destroys
  <2>2. <<>> \in Seq(Codes)
    OBVIOUS
  <2> QED BY <1>1, <2>1, <2>2
<1>3. \A s \in SUBSET (1 .. n) : s # {} => Min(s) \in 1 .. n /\ s \ {Min(s)} \in SUBSET (1 .. n)
  BY <1>1, MinMaxIn
<1>4. \E g : Iter(g)
  <2>0. PICK g \in [SUBSET (1 .. n) -> Seq(Codes)] : IsBackFold(g, n, K)
    <3> HIDE DEF K, n
    <3> QED BY <1>1, <1>2, BackExists
  <2>1. \A s \in SUBSET (1 .. n) : g[s] = IF s = {} THEN <<>> ELSE g[s \ {Min(s)}] \o K[Min(s)]
    BY <2>0 DEF IsBackFold
  <2>2. ASSUME NEW s \in SUBSET (1 .. n)
        PROVE  g[s] = IF s = {} THEN <<>>
                      ELSE IF objs[Min(s)] = save THEN g[s \ {Min(s)}]
                           ELSE g[s \ {Min(s)}] \o Destroys(objs[Min(s)])
    <3>1. CASE s = {}
      BY <2>1, <3>1
    <3>2. CASE s # {}
      <4>1. Min(s) \in 1 .. n /\ g[s \ {Min(s)}] \in Seq(Codes)
        BY <1>3, <2>0, <3>2
      <4>2. g[s \ {Min(s)}] \o <<>> = g[s \ {Min(s)}]
        BY <4>1, ConcatEmptySeq
      <4> QED BY <2>1, <3>2, <4>1, <4>2
    <3> QED BY <3>1, <3>2
  <2>3. g = [s \in SUBSET (1 .. n) |-> g[s]]
    BY <2>0
  <2>4. Iter(g)
    BY <2>2, <2>3
  <2> QED BY <2>4
<1>5. DestroyCode(objs, save) = f[1 .. n]
  BY <1>1 DEF DestroyCode, FoldRight, MapThenFoldSet, Destroys
<1>6. Iter(f)
  BY <1>4
<1>7. f[{}] = <<>>
  <2>1. {} \in SUBSET (1 .. n)
    OBVIOUS
  <2> QED BY <1>6, <2>1
<1>8. ASSUME NEW s \in SUBSET (1 .. n), s # {}, f[s \ {Min(s)}] \in Seq(Codes)
      PROVE  f[s] = f[s \ {Min(s)}] \o K[Min(s)]
  <2>1. Min(s) \in 1 .. n
    BY <1>3, <1>8
  <2>2. f[s] = IF objs[Min(s)] = save THEN f[s \ {Min(s)}]
               ELSE f[s \ {Min(s)}] \o Destroys(objs[Min(s)])
    BY <1>6, <1>8
  <2>3. f[s \ {Min(s)}] \o <<>> = f[s \ {Min(s)}]
    BY <1>8, ConcatEmptySeq
  <2> QED BY <2>1, <2>2, <2>3
<1> HIDE DEF f, K, Iter
<1>9. JoinedBack(Codes, n, K, f[1 .. n])
  BY <1>1, <1>2, <1>7, <1>8, BackIsJoined
<1> QED BY <1>5, <1>9 DEF K

LEMMA JoinedIn ==
  ASSUME NEW S, NEW n \in Nat, NEW K, NEW r, JoinedBack(S, n, K, r)
  PROVE  r \in Seq(S)
BY DEF JoinedBack

(* All objects of a scope but the saved one are destroyed.                 *)
LEMMA DestroyLeaves ==
  ASSUME NEW c \in Seq(Codes), FreesOK(c), NEW objs \in Seq(Nat), NEW save,
         \A k \in 1 .. Len(objs) : Held(c, objs[k]),
         \A k, l \in 1 .. Len(objs) : objs[k] = objs[l] => k = l
  PROVE  Leaves(c, DestroyCode(objs, save), {objs[k] : k \in 1 .. Len(objs)} \ {save})
<1> DEFINE n == Len(objs)
           K == [i \in 1 .. n |-> IF objs[i] = save THEN <<>> ELSE Destroys(objs[i])]
           From(i) == {objs[k] : k \in i .. n} \ {save}
<1>1. n \in Nat /\ \A i \in 1 .. n : objs[i] \in Nat
  OBVIOUS
<1>2. JoinedBack(Codes, n, K, DestroyCode(objs, save))
  BY DestroyCodeJoined
<1>3. \A i \in 1 .. n : K[i] = IF objs[i] = save THEN <<>> ELSE Destroys(objs[i])
  OBVIOUS
<1> HIDE DEF K
<1>4. PICK w \in [1 .. n + 1 -> Seq(Codes)] :
        /\ w[n + 1] = <<>>
        /\ \A i \in 1 .. n : w[i] = w[i + 1] \o K[i]
        /\ DestroyCode(objs, save) = w[1]
  BY <1>2 DEF JoinedBack
<1> DEFINE T == {i \in 1 .. n + 1 : Leaves(c, w[i], From(i))}
<1>5. n + 1 \in T
  <2>1. Leaves(c, <<>>, From(n + 1))
    BY LeavesNothing
  <2>2. n + 1 \in 1 .. n + 1
    BY <1>1
  <2> QED BY <1>4, <2>1, <2>2
<1>6. ASSUME NEW i \in 1 .. (n + 1) - 1, i + 1 \in T PROVE i \in T
  <2>1. i \in 1 .. n /\ i \in 1 .. n + 1 /\ Leaves(c, w[i + 1], From(i + 1))
    BY <1>1, <1>6
  <2>2. w[i] = w[i + 1] \o K[i] /\ w[i + 1] \in Seq(Codes)
    <3>1. i + 1 \in 1 .. n + 1
      BY <1>1
    <3> QED BY <1>4, <2>1, <3>1
  <2>3. \A k \in i .. n : k = i \/ k \in i + 1 .. n
    BY <1>1
  <2>4. CASE objs[i] = save
    <3>1. w[i + 1] \o <<>> = w[i + 1]
      BY <2>2, ConcatEmptySeq
    <3>2. w[i] = w[i + 1]
      BY <1>3, <2>1, <2>2, <2>4, <3>1
    <3>3. From(i) = From(i + 1)
      BY <1>1, <2>1, <2>3, <2>4
    <3> QED BY <2>1, <3>2, <3>3
  <2>5. CASE objs[i] # save
    <3>1. From(i) = From(i + 1) \cup {objs[i]}
      <4>1. \A k \in i + 1 .. n : k \in i .. n
        BY <2>1, <1>1
      <4>2. i \in i .. n
        BY <2>1, <1>1
      <4> QED BY <4>1, <4>2, <2>3, <2>5
    <3>2. objs[i] \notin From(i + 1)
      <4>1. \A k \in i + 1 .. n : k \in 1 .. n /\ k # i
        BY <2>1, <1>1
      <4> QED BY <2>1, <4>1
    <3>3. Leaves(c, w[i + 1] \o Destroys(objs[i]), From(i + 1) \cup {objs[i]})
      <4>1. Held(c, objs[i]) /\ objs[i] \in Nat
        BY <2>1, <1>1
      <4> HIDE DEF From
      <4> QED BY <4>1, <2>1, <3>2, LeavesOneMore
    <3>4. w[i] = w[i + 1] \o Destroys(objs[i])
      BY <1>3, <2>1, <2>2, <2>5
    <3> QED BY <2>1, <3>1, <3>3, <3>4
  <2> QED BY <2>4, <2>5
<1>7. 1 .. n + 1 \subseteq T
  <2> HIDE DEF T
  <2>1. \A i \in 1 .. (n + 1) - 1 : i + 1 \in T => i \in T
    BY <1>6
  <2>2. 1 \in Int /\ n + 1 \in Int
    BY <1>1
  <2> QED BY ONLY <1>5, <2>1, <2>2, DownInduction
<1>8. 1 \in T
  BY <1>1, <1>7
<1> QED BY <1>4, <1>8

(* A scope without objects is left without code.                           *)
LEMMA DestroyNothing ==
  ASSUME NEW objs \in Seq(Nat), Len(objs) = 0, NEW save
  PROVE  DestroyCode(objs, save) = <<>>
<1> DEFINE n == Len(objs)
           K == [i \in 1 .. n |-> IF objs[i] = save THEN <<>> ELSE Destroys(objs[i])]
<1>1. JoinedBack(Codes, n, K, DestroyCode(objs, save))
  BY DestroyCodeJoined
<1>2. DOMAIN K = {} /\ n \in Nat
  OBVIOUS
<1>3. K \in [1 .. n -> Seq(Codes)] /\ \A i \in 1 .. n : K[i] = <<>>
  BY <1>2
<1> HIDE DEF K, n
<1> QED BY <1>1, <1>2, <1>3, BackOfNothing

(* The code that leaves the scopes from the n-th on, innermost first.      *)
LEMMA ScopeExitJoined ==
  ASSUME NEW scopes \in Seq(Scopes), NEW m \in Nat \ {0}, NEW save, ~scopes[m].didReturn
  PROVE  LET sub == SubSeq(scopes, m, Len(scopes))
         IN  JoinedBack(Codes, Len(sub),
                        [i \in 1 .. Len(sub) |-> DestroyCode(sub[i].stackObjs, save)],
                        emitScopeExitInstructions(scopes, m, save))
<1> DEFINE sub == SubSeq(scopes, m, Len(scopes))
           n == Len(sub)
           K == [i \in 1 .. n |-> DestroyCode(sub[i].stackObjs, save)]
           Iter(f) == f = [s \in SUBSET (1 .. n) |->
             IF s = {} THEN <<>> ELSE f[s \ {Min(s)}] \o DestroyCode(sub[Min(s)].stackObjs, save)]
           f == CHOOSE f : Iter(f)
<1>1. sub \in Seq(Scopes)
  BY SubSeqProperties
<1>2. n \in Nat /\ DOMAIN sub = 1 .. n /\ \A i \in 1 .. n : sub[i] \in Scopes
  BY <1>1
<1> HIDE DEF sub
<1>3. K \in [1 .. n -> Seq(Codes)]
  <2>1. ASSUME NEW i \in 1 .. n PROVE DestroyCode(sub[i].stackObjs, save) \in Seq(Codes)
    <3>1. sub[i].stackObjs \in Seq(Nat)
      BY <1>2 DEF Scopes
    <3>2. Len(sub[i].stackObjs) \in Nat
      BY <3>1
    <3> QED BY <3>1, <3>2, DestroyCodeJoined, JoinedIn
  <2> QED BY <2>1
<1>4. \A s \in SUBSET (1 .. n) : s # {} => Min(s) \in 1 .. n /\ s \ {Min(s)} \in SUBSET (1 .. n)
  BY <1>2, MinMaxIn
<1>5. \E g : Iter(g)
  <2>0. PICK g \in [SUBSET (1 .. n) -> Seq(Codes)] : IsBackFold(g, n, K)
    <3> HIDE DEF K, n
    <3> QED BY <1>2, <1>3, BackExists
  <2>1. \A s \in SUBSET (1 .. n) : g[s] = IF s = {} THEN <<>> ELSE g[s \ {Min(s)}] \o K[Min(s)]
    BY <2>0 DEF IsBackFold
  <2>2. \A s \in SUBSET (1 .. n) :
          g[s] = IF s = {} THEN <<>> ELSE g[s \ {Min(s)}] \o DestroyCode(sub[Min(s)].stackObjs, save)
    BY <2>1, <1>4
  <2>3. g = [s \in SUBSET (1 .. n) |-> g[s]]
    BY <2>0
  <2>4. Iter(g)
    BY <2>2, <2>3
  <2> QED BY <2>4
<1>6. emitScopeExitInstructions(scopes, m, save) = f[1 .. n]
  BY <1>2 DEF emitScopeExitInstructions, FoldRight, MapThenFoldSet, sub
<1>7. Iter(f)
  BY <1>5
<1>8. f[{}] = <<>>
  <2>1. {} \in SUBSET (1 .. n)
    OBVIOUS
  <2> QED BY <1>7, <2>1
<1>9. ASSUME NEW s \in SUBSET (1 .. n), s # {}, f[s \ {Min(s)}] \in Seq(Codes)
      PROVE  f[s] = f[s \ {Min(s)}] \o K[Min(s)]
  <2>1. Min(s) \in 1 .. n
    BY <1>4, <1>9
  <2>2. f[s] = f[s \ {Min(s)}] \o DestroyCode(sub[Min(s)].stackObjs, save)
    BY <1>7, <1>9
  <2> QED BY <2>1, <2>2
<1> HIDE DEF f, K, Iter
<1>10. JoinedBack(Codes, n, K, f[1 .. n])
  BY <1>2, <1>3, <1>8, <1>9, BackIsJoined
<1> QED BY <1>6, <1>10 DEF K, sub

LEMMA ScopeExitTypes ==
  ASSUME NEW scopes \in Seq(Scopes), NEW m \in Nat \ {0}, NEW save
  PROVE  emitScopeExitInstructions(scopes, m, save) \in Seq(Codes)
<1>1. CASE scopes[m].didReturn
  <2>1. emitScopeExitInstructions(scopes, m, save) = <<>>
    BY <1>1 DEF emitScopeExitInstructions
  <2>2. <<>> \in Seq(Codes)
    OBVIOUS
  <2> QED BY <2>1, <2>2
<1>2. CASE ~scopes[m].didReturn
  <2> DEFINE sub == SubSeq(scopes, m, Len(scopes))
             K == [i \in 1 .. Len(sub) |-> DestroyCode(sub[i].stackObjs, save)]
  <2>1. JoinedBack(Codes, Len(sub), K, emitScopeExitInstructions(scopes, m, save))
    BY <1>2, ScopeExitJoined
  <2>2. sub \in Seq(Scopes)
    BY SubSeqProperties
  <2>3. Len(sub) \in Nat
    BY <2>2
  <2> HIDE DEF sub, K
  <2> QED BY <2>1, <2>3, JoinedIn
<1> QED BY <1>1, <1>2

(* The innermost scope has only itself to leave.                           *)
LEMMA LastScopeExit ==
  ASSUME NEW scopes \in Seq(Scopes), scopes # <<>>, NEW save, ~scopes[Len(scopes)].didReturn
  PROVE  emitScopeExitInstructions(scopes, Len(scopes), save) =
           DestroyCode(scopes[Len(scopes)].stackObjs, save)
<1> DEFINE m == Len(scopes)
           sub == SubSeq(scopes, m, Len(scopes))
           K == [i \in 1 .. Len(sub) |-> DestroyCode(sub[i].stackObjs, save)]
<1>1. m \in Nat \ {0}
  OBVIOUS
<1>2. Len(sub) = 1 /\ sub[1] = scopes[m]
  BY <1>1, SubSeqProperties
<1>3. JoinedBack(Codes, Len(sub), K, emitScopeExitInstructions(scopes, m, save))
  BY <1>1, ScopeExitJoined
<1>4. DestroyCode(scopes[m].stackObjs, save) \in Seq(Codes)
  <2>1. scopes[m] \in Scopes
    BY <1>1
  <2>2. scopes[m].stackObjs \in Seq(Nat)
    BY <2>1 DEF Scopes
  <2>3. Len(scopes[m].stackObjs) \in Nat
    BY <2>2
  <2> QED BY <2>2, <2>3, DestroyCodeJoined, JoinedIn
<1>5. K \in [1 .. 1 -> Seq(Codes)] /\ K[1] = DestroyCode(scopes[m].stackObjs, save)
  BY <1>2, <1>4
<1> HIDE DEF K, sub
<1>6. JoinedBack(Codes, 1, K, emitScopeExitInstructions(scopes, m, save))
  BY <1>2, <1>3
<1> QED BY <1>5, <1>6, BackOfOne

(* Scopes without objects are left without code.                           *)
LEMMA EmptyScopesExit ==
  ASSUME NEW scopes \in Seq(Scopes), NEW m \in Nat \ {0}, NEW save,
         \A i \in m .. Len(scopes) : Len(scopes[i].stackObjs) = 0
  PROVE  emitScopeExitInstructions(scopes, m, save) = <<>>
<1>1. CASE scopes[m].didReturn
  BY <1>1 DEF emitScopeExitInstructions
<1>2. CASE ~scopes[m].didReturn
  <2> DEFINE sub == SubSeq(scopes, m, Len(scopes))
             n == Len(sub)
             K == [i \in 1 .. n |-> DestroyCode(sub[i].stackObjs, save)]
  <2>1. JoinedBack(Codes, n, K, emitScopeExitInstructions(scopes, m, save))
    BY <1>2, ScopeExitJoined
  <2>2. n \in Nat /\ \A i \in 1 .. n : sub[i] \in Scopes /\ Len(sub[i].stackObjs) = 0
    <3>1. sub \in Seq(Scopes)
      BY SubSeqProperties
    <3>2. \A i \in 1 .. n : sub[i] = scopes[m + i - 1] /\ m + i - 1 \in m .. Len(scopes)
      BY SubSeqProperties
    <3>3. n \in Nat /\ \A i \in 1 .. n : sub[i] \in Scopes
      BY <3>1
    <3>4. \A i \in 1 .. n : Len(scopes[m + i - 1].stackObjs) = 0
      BY <3>2
    <3> HIDE DEF sub
    <3> QED BY <3>2, <3>3, <3>4
  <2> HIDE DEF sub
  <2>3. ASSUME NEW i \in 1 .. n PROVE DestroyCode(sub[i].stackObjs, save) = <<>>
    <3>1. sub[i].stackObjs \in Seq(Nat)
      BY <2>2 DEF Scopes
    <3> QED BY <2>2, <3>1, DestroyNothing
  <2>4. K \in [1 .. n -> Seq(Codes)] /\ \A i \in 1 .. n : K[i] = <<>>
    <3>1. <<>> \in Seq(Codes)
      OBVIOUS
    <3> QED BY <2>3, <3>1
  <2> HIDE DEF K, n
  <2> QED BY <2>1, <2>2, <2>4, BackOfNothing
<1> QED BY <1>1, <1>2

(* The code of a return leaves each scope in turn.                         *)
LEMMA ReturnJoined ==
  ASSUME NEW g \in Drafts
  PROVE  \E code \in Seq(Codes) :
           /\ emitReturnInstructions(g) =
                [g EXCEPT !.code = @ \o code, !.scopes[Len(g.scopes)].didReturn = TRUE]
           /\ JoinedBack(Codes, Len(g.scopes),
                [i \in 1 .. Len(g.scopes) |-> emitScopeExitInstructions(g.scopes, i, NoId)], code)
<1> DEFINE n == Len(g.scopes)
           E(i) == emitScopeExitInstructions(g.scopes, i, NoId)
           K == [i \in 1 .. n |-> E(i)]
           ids == [i \in 1 .. n |-> i]
           Iter(f) == f = [s \in SUBSET (1 .. n) |->
             IF s = {} THEN <<>> ELSE f[s \ {Min(s)}] \o E(ids[Min(s)])]
           f == CHOOSE f : Iter(f)
<1>1. g.scopes \in Seq(Scopes) /\ n \in Nat /\ DOMAIN ids = 1 .. n
  BY DEF Drafts
<1>2. K \in [1 .. n -> Seq(Codes)]
  <2>1. \A i \in 1 .. n : i \in Nat \ {0}
    BY <1>1
  <2>2. \A i \in 1 .. n : E(i) \in Seq(Codes)
    BY <1>1, <2>1, ScopeExitTypes
  <2> HIDE DEF E
  <2> QED BY <2>2
<1>3. emitReturnInstructions(g) =
        [g EXCEPT !.code = @ \o f[1 .. n], !.scopes[Len(g.scopes)].didReturn = TRUE]
  BY <1>1 DEF emitReturnInstructions, FoldRight, MapThenFoldSet
<1> HIDE DEF E
<1>4. \A s \in SUBSET (1 .. n) : s # {} => Min(s) \in 1 .. n /\ s \ {Min(s)} \in SUBSET (1 .. n)
  BY <1>1, MinMaxIn
<1>5. \E h : Iter(h)
  <2>0. PICK h \in [SUBSET (1 .. n) -> Seq(Codes)] : IsBackFold(h, n, K)
    <3> HIDE DEF K, n
    <3> QED BY <1>1, <1>2, BackExists
  <2>1. \A s \in SUBSET (1 .. n) : h[s] = IF s = {} THEN <<>> ELSE h[s \ {Min(s)}] \o K[Min(s)]
    BY <2>0 DEF IsBackFold
  <2>2. \A s \in SUBSET (1 .. n) :
          h[s] = IF s = {} THEN <<>> ELSE h[s \ {Min(s)}] \o E(ids[Min(s)])
    BY <2>1, <1>4
  <2>3. h = [s \in SUBSET (1 .. n) |-> h[s]]
    BY <2>0
  <2>4. Iter(h)
    BY <2>2, <2>3
  <2> QED BY <2>4
<1>7. Iter(f)
  BY <1>5
<1>8. f[{}] = <<>>
  <2>1. {} \in SUBSET (1 .. n)
    OBVIOUS
  <2> QED BY <1>7, <2>1
<1>9. ASSUME NEW s \in SUBSET (1 .. n), s # {}, f[s \ {Min(s)}] \in Seq(Codes)
      PROVE  f[s] = f[s \ {Min(s)}] \o K[Min(s)]
  <2>1. Min(s) \in 1 .. n
    BY <1>4, <1>9
  <2>2. f[s] = f[s \ {Min(s)}] \o E(ids[Min(s)])
    BY <1>7, <1>9
  <2> QED BY <2>1, <2>2
<1> HIDE DEF f, K, Iter
<1>10. JoinedBack(Codes, n, K, f[1 .. n])
  BY <1>1, <1>2, <1>8, <1>9, BackIsJoined
<1>11. f[1 .. n] \in Seq(Codes)
  BY <1>1, <1>10, JoinedIn
<1> QED BY <1>3, <1>10, <1>11 DEF K, E

-----------------------------------------------------------------------------
(* Drafts                                                                  *)

LEMMA DraftFields ==
  ASSUME NEW g \in Drafts
  PROVE  /\ g.scopes \in Seq(Scopes) /\ g.code \in Seq(Codes) /\ g.label \in Nat /\ g.id \in Nat
         /\ \A c \in Seq(Codes) : LET h == [g EXCEPT !.code = c]
                                  IN  /\ h \in Drafts /\ h.code = c
                                      /\ h.scopes = g.scopes /\ h.id = g.id /\ h.label = g.label
         /\ \A l \in Nat : LET h == [g EXCEPT !.label = l]
                           IN  /\ h \in Drafts /\ h.label = l
                               /\ h.scopes = g.scopes /\ h.id = g.id /\ h.code = g.code
         /\ \A l \in Nat : LET h == [g EXCEPT !.id = l]
                           IN  /\ h \in Drafts /\ h.id = l
                               /\ h.scopes = g.scopes /\ h.label = g.label /\ h.code = g.code
         /\ \A s \in Seq(Scopes) : LET h == [g EXCEPT !.scopes = s]
                                   IN  /\ h \in Drafts /\ h.scopes = s
                                       /\ h.id = g.id /\ h.label = g.label /\ h.code = g.code
BY DEF Drafts

LEMMA PlaceTypes ==
  ASSUME NEW s \in Seq(Scopes), NEW p \in Places(s)
  PROVE  /\ p[1] \in 1 .. Len(s) /\ p[2] \in 1 .. Len(s[p[1]].stackObjs)
         /\ s[p[1]] \in Scopes /\ s[p[1]].stackObjs \in Seq(Nat) /\ At(s, p) \in Nat
         /\ p = <<p[1], p[2]>>
<1>1. p[1] \in 1 .. Len(s) /\ p[2] \in 1 .. Len(s[p[1]].stackObjs) /\ p \in Nat \X Nat
  BY DEF Places
<1>2. s[p[1]] \in Scopes
  BY <1>1
<1>3. s[p[1]].stackObjs \in Seq(Nat)
  BY <1>2 DEF Scopes
<1>4. At(s, p) \in Nat
  BY <1>1, <1>3 DEF At
<1> QED BY <1>1, <1>2, <1>3, <1>4

(* Code that keeps every slot held keeps a draft good.                     *)
LEMMA CodeGood ==
  ASSUME NEW n, NEW g, Good(g, n), NEW c \in Seq(Codes), FreesOK(c),
         \A id : Held(g.code, id) => Held(c, id)
  PROVE  Good([g EXCEPT !.code = c], n)
<1> DEFINE h == [g EXCEPT !.code = c]
<1>1. h \in Drafts /\ h.code = c /\ h.scopes = g.scopes /\ h.id = g.id
  BY DraftFields DEF Good
<1> HIDE DEF h
<1>2. Good(h, n)
  BY <1>1 DEF Good
<1> QED BY <1>2 DEF h

(* The same for drafts whose label is another one.                         *)
LEMMA LabelOnly ==
  ASSUME NEW n, NEW g, Good(g, n), NEW l \in Nat
  PROVE  Good([g EXCEPT !.label = l], n)
<1> DEFINE h == [g EXCEPT !.label = l]
<1>1. h \in Drafts /\ h.code = g.code /\ h.scopes = g.scopes /\ h.id = g.id
  BY DraftFields DEF Good
<1> HIDE DEF h
<1>2. Good(h, n)
  BY <1>1 DEF Good
<1> QED BY <1>2 DEF h

LEMMA IdOnly ==
  ASSUME NEW n, NEW g, Good(g, n), NEW l \in Nat, l >= g.id
  PROVE  Good([g EXCEPT !.id = l], n)
<1> DEFINE h == [g EXCEPT !.id = l]
<1>1. h \in Drafts /\ h.code = g.code /\ h.scopes = g.scopes /\ h.id = l /\ g.id \in Nat
  BY DraftFields DEF Good
<1>2. \A x : x \in NoId + 1 .. g.id - 1 => x \in NoId + 1 .. l - 1
  BY <1>1 DEF NoId
<1> HIDE DEF h
<1>3. Good(h, n)
  BY <1>1, <1>2 DEF Good, NoId
<1> QED BY <1>3 DEF h

LEMMA AppendGood ==
  ASSUME NEW n, NEW g, Good(g, n), NEW i \in Codes, i.op # "free"
  PROVE  /\ Good([g EXCEPT !.code = Append(@, i)], n)
         /\ i.op = "alloc" => Held(Append(g.code, i), i.id)
<1>1. g.code \in Seq(Codes) /\ FreesOK(g.code)
  BY DraftFields DEF Good
<1> QED BY <1>1, CodeGood, HeldAppend

LEMMA AddGood ==
  ASSUME NEW n, NEW g, Good(g, n), NEW op \in Ops \ {"free"}, NEW id \in Nat
  PROVE  /\ Good(add(g, op, id), n)
         /\ add(g, op, id).id = g.id /\ add(g, op, id).label = g.label
         /\ add(g, op, id).scopes = g.scopes
         /\ op = "alloc" => Held(add(g, op, id).code, id)
<1> DEFINE i == Instruction(op, id, <<>>)
<1>1. i \in Codes /\ i.op = op /\ i.id = id
  BY PlainTypes
<1> HIDE DEF i
<1>2. add(g, op, id) = [g EXCEPT !.code = Append(@, i)]
  BY DEF add, i
<1>3. g \in Drafts /\ Append(g.code, i) \in Seq(Codes)
  <2>1. g \in Drafts /\ g.code \in Seq(Codes)
    BY DraftFields DEF Good
  <2> QED BY <1>1, <2>1
<1> DEFINE h == add(g, op, id)
<1>4. Good(h, n) /\ (op = "alloc" => Held(Append(g.code, i), id))
  BY <1>1, <1>2, AppendGood
<1>5. h.id = g.id /\ h.label = g.label /\ h.scopes = g.scopes /\ h.code = Append(g.code, i)
  BY <1>2, <1>3, DraftFields
<1> QED BY <1>4, <1>5

LEMMA JumpGood ==
  ASSUME NEW n, NEW g, Good(g, n), NEW op \in Ops \ {"free"}, NEW to \in Seq(Nat)
  PROVE  /\ Good(addJump(g, op, to), n)
         /\ addJump(g, op, to).id = g.id /\ addJump(g, op, to).label = g.label
         /\ addJump(g, op, to).scopes = g.scopes
<1> DEFINE i == Instruction(op, NoId, to)
<1>1. i \in Codes /\ i.op = op
  BY InstructionTypes DEF NoId
<1> HIDE DEF i
<1>2. addJump(g, op, to) = [g EXCEPT !.code = Append(@, i)]
  BY DEF addJump, i
<1>3. g \in Drafts /\ Append(g.code, i) \in Seq(Codes)
  <2>1. g \in Drafts /\ g.code \in Seq(Codes)
    BY DraftFields DEF Good
  <2> QED BY <1>1, <2>1
<1> DEFINE h == addJump(g, op, to)
<1>4. Good(h, n)
  BY <1>1, <1>2, AppendGood
<1>5. h.id = g.id /\ h.label = g.label /\ h.scopes = g.scopes
  BY <1>2, <1>3, DraftFields
<1> QED BY <1>4, <1>5

LEMMA LabelGood ==
  ASSUME NEW n, NEW g, Good(g, n)
  PROVE  /\ Good(label(g), n) /\ label(g).id = g.id /\ label(g).scopes = g.scopes
         /\ label(g).label = g.label + 1
<1>1. g \in Drafts /\ g.label \in Nat
  BY DraftFields DEF Good
<1> DEFINE to == <<g.label>>
           h == addJump(g, "label", to)
<1>2. to \in Seq(Nat) /\ "label" \in Ops \ {"free"}
  BY <1>1 DEF Ops
<1> HIDE DEF to
<1>3. Good(h, n) /\ h.id = g.id /\ h.label = g.label /\ h.scopes = g.scopes
  BY <1>2, JumpGood
<1>4. h \in Drafts
  BY <1>3 DEF Good
<1>5. label(g) = [h EXCEPT !.label = @ + 1]
  BY DEF label, to
<1> HIDE DEF h
<1>6. g.label + 1 \in Nat
  BY <1>1
<1>7. label(g) = [h EXCEPT !.label = g.label + 1]
  BY <1>3, <1>5
<1> QED BY <1>3, <1>4, <1>6, <1>7, LabelOnly, DraftFields

LEMMA TargetsGood ==
  ASSUME NEW n, NEW g, Good(g, n), NEW at, NEW lbl \in Nat
  PROVE  /\ Good(targets(g, at, lbl), n)
         /\ targets(g, at, lbl).id = g.id /\ targets(g, at, lbl).label = g.label
         /\ targets(g, at, lbl).scopes = g.scopes
<1>1. g \in Drafts /\ g.code \in Seq(Codes) /\ FreesOK(g.code)
  BY DraftFields DEF Good
<1> DEFINE c == g.code
           d == [a \in DOMAIN c |-> IF a \in at THEN target(c[a], lbl) ELSE c[a]]
<1>2. targets(g, at, lbl) = [g EXCEPT !.code = d]
  BY DEF targets
<1>3. ASSUME NEW i \in Codes
      PROVE  LET j == target(i, lbl) IN j \in Codes /\ j.op = i.op /\ j.id = i.id
  <2>1. i.to \in Seq(Nat)
    BY DEF Codes
  <2>2. Append(i.to, lbl) \in Seq(Nat)
    BY <2>1
  <2> QED BY <2>2 DEF Codes, target
<1>4. /\ d \in Seq(Codes) /\ Len(d) = Len(c)
      /\ \A a \in 1 .. Len(c) : d[a].op = c[a].op /\ d[a].id = c[a].id
  <2>1. DOMAIN c = 1 .. Len(c) /\ Len(c) \in Nat /\ \A a \in 1 .. Len(c) : c[a] \in Codes
    BY <1>1
  <2>2. \A a \in 1 .. Len(c) : d[a] \in Codes /\ d[a].op = c[a].op /\ d[a].id = c[a].id
    BY <1>3, <2>1
  <2>3. DOMAIN d = 1 .. Len(c)
    BY <2>1
  <2>4. d = [a \in 1 .. Len(c) |-> d[a]]
    BY <2>1
  <2> HIDE DEF d
  <2>5. d \in [1 .. Len(c) -> Codes]
    BY <2>2, <2>4
  <2>6. d \in Seq(Codes)
    BY <2>1, <2>5, IsASeq
  <2> QED BY <2>1, <2>2, <2>3, <2>6, LenProperties
<1> HIDE DEF d
<1>5. FreesOK(d) /\ \A id : Held(c, id) => Held(d, id)
  BY <1>1, <1>4, HeldSame
<1> QED BY <1>1, <1>2, <1>4, <1>5, CodeGood, DraftFields

LEMMA EnterGood ==
  ASSUME NEW n \in Nat, NEW g, Good(g, n)
  PROVE  Good(enter(g), n + 1) /\ enter(g).id = g.id /\ enter(g).label = g.label
<1> DEFINE fresh == [stackObjs |-> <<>>, didReturn |-> FALSE]
           s == g.scopes
           t == Append(s, fresh)
           h == enter(g)
<1>1. g \in Drafts /\ s \in Seq(Scopes) /\ Len(s) = n
  BY DraftFields DEF Good
<1>2. fresh \in Scopes /\ Len(fresh.stackObjs) = 0
  BY DEF Scopes
<1> HIDE DEF fresh
<1>3. t \in Seq(Scopes) /\ Len(t) = n + 1 /\ t[n + 1] = fresh /\ \A i \in 1 .. n : t[i] = s[i]
  BY <1>1, <1>2
<1>4. h = [g EXCEPT !.scopes = t]
  BY DEF enter, fresh
<1> HIDE DEF t, h
<1>5. h \in Drafts /\ h.scopes = t /\ h.id = g.id /\ h.label = g.label /\ h.code = g.code
  BY <1>1, <1>3, <1>4, DraftFields
<1>6. ASSUME NEW p \in Places(t) PROVE p \in Places(s) /\ At(t, p) = At(s, p)
  <2>1. p[1] \in 1 .. n + 1 /\ p[2] \in 1 .. Len(t[p[1]].stackObjs) /\ p \in Nat \X Nat
    BY <1>3 DEF Places
  <2>2. p[1] # n + 1
    BY <1>2, <1>3, <2>1
  <2>3. p[1] \in 1 .. n
    BY <2>1, <2>2
  <2> QED BY <1>1, <1>3, <2>1, <2>3 DEF Places, At
<1>7. Good(h, n + 1)
  BY <1>3, <1>5, <1>6 DEF Good
<1> QED BY <1>5, <1>7 DEF h

(* A held object that is in no scope yet is put in the innermost one.      *)
LEMMA OnStackGood ==
  ASSUME NEW n \in Nat \ {0}, NEW g, Good(g, n), NEW x \in NoId + 1 .. g.id - 1, Held(g.code, x),
         \A p \in Places(g.scopes) : At(g.scopes, p) # x
  PROVE  /\ Good(addToStack(g, x), n)
         /\ addToStack(g, x).id = g.id /\ addToStack(g, x).label = g.label
         /\ addToStack(g, x).code = g.code
<1> DEFINE s == g.scopes
           e == [s[n] EXCEPT !.stackObjs = Append(@, x)]
           t == [s EXCEPT ![n] = e]
           h == addToStack(g, x)
<1>1. g \in Drafts /\ s \in Seq(Scopes) /\ Len(s) = n /\ s[n] \in Scopes
  BY DraftFields DEF Good
<1>2. s[n].stackObjs \in Seq(Nat) /\ x \in Nat
  BY <1>1 DEF Scopes, NoId
<1>3. Append(s[n].stackObjs, x) \in Seq(Nat)
  BY <1>2
<1>4. e \in Scopes /\ e.stackObjs = Append(s[n].stackObjs, x)
  BY <1>1, <1>3 DEF Scopes
<1>5. h = [g EXCEPT !.scopes = t]
  BY <1>1 DEF addToStack
<1> HIDE DEF e
<1>6. t \in Seq(Scopes) /\ Len(t) = n /\ t[n] = e /\ \A i \in 1 .. n : i # n => t[i] = s[i]
  BY <1>1, <1>4
<1> HIDE DEF t, h
<1>7. h \in Drafts /\ h.scopes = t /\ h.id = g.id /\ h.label = g.label /\ h.code = g.code
  BY <1>1, <1>5, <1>6, DraftFields
<1> DEFINE k == Len(s[n].stackObjs)
<1>8. k \in Nat /\ Len(e.stackObjs) = k + 1 /\ e.stackObjs[k + 1] = x
      /\ \A j \in 1 .. k : e.stackObjs[j] = s[n].stackObjs[j]
  <2> DEFINE objs == s[n].stackObjs
  <2>1. objs \in Seq(Nat) /\ e.stackObjs = Append(objs, x)
    BY <1>2, <1>4
  <2> HIDE DEF objs
  <2>2. Len(objs) \in Nat /\ Len(e.stackObjs) = Len(objs) + 1 /\ e.stackObjs[Len(objs) + 1] = x
        /\ \A j \in 1 .. Len(objs) : e.stackObjs[j] = objs[j]
    BY <1>2, <2>1
  <2> QED BY <2>2 DEF objs
<1>9. ASSUME NEW p \in Places(t)
      PROVE  \/ p \in Places(s) /\ At(t, p) = At(s, p)
             \/ p = <<n, k + 1>> /\ At(t, p) = x
  <2>1. p[1] \in 1 .. n /\ p[2] \in 1 .. Len(t[p[1]].stackObjs) /\ p \in Nat \X Nat
    BY <1>6 DEF Places
  <2>2. CASE p[1] # n
    <3>1. t[p[1]] = s[p[1]]
      BY <1>6, <2>1, <2>2
    <3> QED BY <1>1, <2>1, <3>1 DEF Places, At
  <2>3. CASE p[1] = n
    <3>1. p[2] \in 1 .. k + 1 /\ At(t, p) = e.stackObjs[p[2]]
      BY <1>6, <1>8, <2>1, <2>3 DEF At
    <3>2. CASE p[2] = k + 1
      BY <1>8, <2>1, <2>3, <3>1, <3>2
    <3>3. CASE p[2] # k + 1
      <4>1. p[2] \in 1 .. k
        BY <1>8, <3>1, <3>3
      <4>2. At(t, p) = At(s, p)
        BY <1>8, <2>3, <3>1, <4>1 DEF At
      <4>3. p \in Places(s)
        BY <1>1, <2>1, <2>3, <4>1 DEF Places
      <4> QED BY <4>2, <4>3
    <3> QED BY <3>2, <3>3
  <2> QED BY <2>2, <2>3
<1>10. \A p \in Places(t) : At(t, p) \in NoId + 1 .. g.id - 1 /\ Held(g.code, At(t, p))
  BY <1>9 DEF Good
<1>11. ASSUME NEW p \in Places(t), NEW q \in Places(t), At(t, p) = At(t, q) PROVE p = q
  BY <1>9, <1>11 DEF Good
<1>12. Good(h, n)
  BY <1>6, <1>7, <1>10, <1>11 DEF Good
<1> QED BY <1>7, <1>12 DEF h

(* A new object.                                                           *)
LEMMA StackGood ==
  ASSUME NEW n \in Nat \ {0}, NEW g, Good(g, n)
  PROVE  Good(stack(g), n) /\ stack(g).id = g.id + 1 /\ stack(g).label = g.label
<1> DEFINE x == g.id
           h == add(g, "alloc", x)
           k == [h EXCEPT !.id = x + 1]
<1>0. g \in Drafts /\ x \in Nat /\ x > NoId /\ "alloc" \in Ops \ {"free"}
  BY DraftFields DEF Good, Ops
<1>1. Good(h, n) /\ h.id = x /\ h.label = g.label /\ h.scopes = g.scopes /\ Held(h.code, x)
  BY <1>0, AddGood
<1>2. h \in Drafts
  BY <1>1 DEF Good
<1>3. stack(g) = [addToStack(h, x) EXCEPT !.id = @ + 1]
  BY DEF stack
<1> HIDE DEF h
<1>4. Good(k, n) /\ k.id = x + 1 /\ k.label = g.label /\ k.scopes = h.scopes /\ k.code = h.code
  <2>1. x + 1 \in Nat /\ x + 1 >= h.id
    BY <1>0, <1>1
  <2>2. Good(k, n)
    BY <1>1, <2>1, IdOnly
  <2>3. k.id = x + 1 /\ k.label = h.label /\ k.scopes = h.scopes /\ k.code = h.code
    BY <1>2, <2>1, DraftFields
  <2> QED BY <1>1, <2>2, <2>3
<1>5. stack(g) = addToStack(k, x)
  BY <1>1, <1>2, <1>3 DEF addToStack, Drafts
<1> HIDE DEF k
<1>6. ASSUME NEW p \in Places(k.scopes) PROVE At(k.scopes, p) # x
  <2>1. At(g.scopes, p) \in NoId + 1 .. x - 1
    BY <1>1, <1>4, <1>6 DEF Good
  <2> QED BY <1>0, <1>1, <1>4, <2>1 DEF NoId
<1>7. x \in NoId + 1 .. k.id - 1
  BY <1>0, <1>4 DEF NoId
<1>8. Held(k.code, x)
  BY <1>1, <1>4
<1> QED BY <1>4, <1>5, <1>6, <1>7, <1>8, OnStackGood

LEMMA ConstructedGood ==
  ASSUME NEW n \in Nat \ {0}, NEW g, Good(g, n)
  PROVE  Good(constructed(g), n) /\ constructed(g).id = g.id + 1 /\ constructed(g).label = g.label
<1>1. Good(stack(g), n) /\ stack(g).id = g.id + 1 /\ stack(g).label = g.label
  BY StackGood
<1>2. g.id \in Nat /\ "construct" \in Ops \ {"free"}
  BY DraftFields DEF Good, Ops
<1>3. constructed(g) = add(stack(g), "construct", g.id)
  BY DEF constructed
<1> QED BY <1>1, <1>2, <1>3, AddGood

(* What leaving the innermost scope frees: its objects but the saved one,  *)
(* or nothing when it has returned.                                        *)
Freed(s, save) ==
  IF s[Len(s)].didReturn THEN {}
  ELSE {s[Len(s)].stackObjs[k] : k \in 1 .. Len(s[Len(s)].stackObjs)} \ {save}

LEMMA ScopeLeaves ==
  ASSUME NEW n \in Nat \ {0}, NEW g, Good(g, n), NEW save
  PROVE  Leaves(g.code, emitScopeExitInstructions(g.scopes, n, save), Freed(g.scopes, save))
<1> DEFINE s == g.scopes
           objs == s[n].stackObjs
<1>1. g.code \in Seq(Codes) /\ FreesOK(g.code) /\ s \in Seq(Scopes) /\ Len(s) = n /\ s[n] \in Scopes
  BY DraftFields DEF Good
<1>2. CASE s[n].didReturn
  <2>1. emitScopeExitInstructions(s, n, save) = <<>> /\ Freed(s, save) = {}
    BY <1>1, <1>2 DEF emitScopeExitInstructions, Freed
  <2> QED BY <1>1, <2>1, LeavesNothing
<1>3. CASE ~s[n].didReturn
  <2>1. objs \in Seq(Nat)
    BY <1>1 DEF Scopes
  <2>2. ASSUME NEW k \in 1 .. Len(objs)
        PROVE  <<n, k>> \in Places(s) /\ At(s, <<n, k>>) = objs[k]
    BY <1>1, <2>1 DEF Places, At
  <2>3. ASSUME NEW k \in 1 .. Len(objs) PROVE Held(g.code, objs[k])
    <3>1. Held(g.code, At(s, <<n, k>>))
      BY <2>2 DEF Good
    <3> QED BY <2>2, <3>1
  <2>4. ASSUME NEW k \in 1 .. Len(objs), NEW l \in 1 .. Len(objs), objs[k] = objs[l] PROVE k = l
    <3>1. <<n, k>> = <<n, l>>
      BY <2>2, <2>4 DEF Good
    <3> QED BY <3>1
  <2>5. emitScopeExitInstructions(s, n, save) = DestroyCode(objs, save)
    BY <1>1, <1>3, LastScopeExit
  <2>6. Freed(s, save) = {objs[k] : k \in 1 .. Len(objs)} \ {save}
    BY <1>1, <1>3 DEF Freed
  <2> HIDE DEF objs
  <2>7. Leaves(g.code, DestroyCode(objs, save), {objs[k] : k \in 1 .. Len(objs)} \ {save})
    BY <1>1, <2>1, <2>3, <2>4, DestroyLeaves
  <2> QED BY <2>5, <2>6, <2>7
<1> QED BY <1>2, <1>3

LEMMA ExitGood ==
  ASSUME NEW n \in Nat \ {0}, NEW g, Good(g, n), NEW save, n > 1 \/ save = NoId
  PROVE  Good(exit(g, save), n - 1) /\ exit(g, save).id = g.id /\ exit(g, save).label = g.label
<1> DEFINE s == g.scopes
           r == emitScopeExitInstructions(s, n, save)
           c == g.code \o r
           t == Front(s)
           left == [g EXCEPT !.code = @ \o r, !.scopes = t]
<1>1. g \in Drafts /\ g.code \in Seq(Codes) /\ s \in Seq(Scopes) /\ Len(s) = n /\ s[n] \in Scopes
  BY DraftFields DEF Good
<1>2. /\ r \in Seq(Codes) /\ FreesOK(c)
      /\ \A id : Held(g.code, id) /\ id \notin Freed(s, save) => Held(c, id)
  BY ScopeLeaves DEF Leaves
<1>3. exit(g, save) = IF didSave(s, save) THEN addToStack(left, save) ELSE left
  BY <1>1 DEF exit
<1> HIDE DEF r
<1>4. c \in Seq(Codes)
  BY <1>1, <1>2, ConcatProperties
<1>5. t \in Seq(Scopes) /\ Len(t) = n - 1 /\ \A i \in 1 .. n - 1 : t[i] = s[i]
  BY <1>1 DEF Front
<1> HIDE DEF c, t
<1>6. /\ left \in Drafts /\ left.code = c /\ left.scopes = t
      /\ left.id = g.id /\ left.label = g.label
  BY <1>1, <1>4, <1>5 DEF Drafts, c
<1> HIDE DEF left
<1>7. ASSUME NEW p \in Places(t) PROVE p \in Places(s) /\ At(t, p) = At(s, p) /\ p[1] # n
  <2>1. p[1] \in 1 .. n - 1 /\ p[2] \in 1 .. Len(t[p[1]].stackObjs) /\ p \in Nat \X Nat
    BY <1>5 DEF Places
  <2>2. t[p[1]] = s[p[1]] /\ p[1] \in 1 .. n /\ p[1] # n
    BY <1>5, <2>1
  <2> QED BY <1>1, <2>1, <2>2 DEF Places, At
<1> DEFINE objs == s[n].stackObjs
<1>8. objs \in Seq(Nat)
  BY <1>1 DEF Scopes
<1>9. ASSUME NEW k \in 1 .. Len(objs)
      PROVE  <<n, k>> \in Places(s) /\ At(s, <<n, k>>) = objs[k]
  BY <1>1, <1>8 DEF Places, At
<1>10. ASSUME NEW p \in Places(t), NEW k \in 1 .. Len(objs) PROVE At(t, p) # objs[k]
  <2>1. p # <<n, k>>
    BY <1>7
  <2> QED BY <1>7, <1>9, <2>1 DEF Good
<1>11. \A id \in Freed(s, save) : \E k \in 1 .. Len(objs) : id = objs[k]
  BY <1>1 DEF Freed
<1>12. ASSUME NEW p \in Places(t) PROVE At(t, p) \in NoId + 1 .. g.id - 1 /\ Held(c, At(t, p))
  <2>1. At(t, p) \notin Freed(s, save)
    BY <1>10, <1>11
  <2>2. At(t, p) \in NoId + 1 .. g.id - 1 /\ Held(g.code, At(t, p))
    BY <1>7 DEF Good
  <2> QED BY <1>2, <2>1, <2>2
<1>13. \A p, q \in Places(t) : At(t, p) = At(t, q) => p = q
  BY <1>7 DEF Good
<1>14. Good(left, n - 1)
  BY <1>2, <1>5, <1>6, <1>12, <1>13 DEF Good
<1>15. CASE ~didSave(s, save)
  BY <1>3, <1>6, <1>14, <1>15
<1>16. CASE didSave(s, save)
  <2>1. PICK k \in 1 .. Len(objs) : save = objs[k]
    BY <1>1, <1>8, <1>16 DEF didSave, Last, ToSet
  <2>2. save \in NoId + 1 .. g.id - 1 /\ Held(g.code, save)
    BY <1>9, <2>1 DEF Good
  <2>3. save \notin Freed(s, save)
    BY DEF Freed
  <2>4. Held(c, save)
    BY <1>2, <2>2, <2>3
  <2>5. n - 1 \in Nat \ {0}
    BY <1>1, <2>2 DEF NoId
  <2>6. \A p \in Places(left.scopes) : At(left.scopes, p) # save
    BY <1>6, <1>10, <2>1
  <2>7. /\ Good(addToStack(left, save), n - 1)
        /\ addToStack(left, save).id = left.id /\ addToStack(left, save).label = left.label
    BY <1>6, <1>14, <2>2, <2>4, <2>5, <2>6, OnStackGood
  <2> QED BY <1>3, <1>6, <1>16, <2>7
<1> QED BY <1>15, <1>16

-----------------------------------------------------------------------------
(* Expressions                                                             *)

LEMMA GoodTypes ==
  ASSUME NEW n, NEW g, Good(g, n)
  PROVE  /\ g \in Drafts /\ g.scopes \in Seq(Scopes) /\ Len(g.scopes) = n /\ n \in Nat
         /\ g.code \in Seq(Codes) /\ Len(g.code) \in Nat
         /\ g.label \in Nat /\ g.id \in Nat /\ g.id # NoId
<1>1. g \in Drafts /\ g.id > NoId /\ Len(g.scopes) = n
  BY DEF Good
<1>2. g.scopes \in Seq(Scopes) /\ g.code \in Seq(Codes) /\ g.label \in Nat /\ g.id \in Nat
  BY <1>1, DraftFields
<1> QED BY <1>1, <1>2 DEF NoId

(* A jump whose targets are known, or come later.                          *)
LEMMA JumpTo ==
  ASSUME NEW n, NEW g, Good(g, n), NEW op \in {"jump", "branch"}, NEW l \in Nat
  PROVE  Good(addJump(g, op, <<l>>), n) /\ addJump(g, op, <<l>>).id = g.id
<1> DEFINE to == <<l>>
<1>1. to \in Seq(Nat) /\ op \in Ops \ {"free"}
  BY DEF Ops
<1> HIDE DEF to
<1>2. Good(addJump(g, op, to), n) /\ addJump(g, op, to).id = g.id
  BY <1>1, JumpGood
<1> QED BY <1>2 DEF to

LEMMA JumpLater ==
  ASSUME NEW n, NEW g, Good(g, n)
  PROVE  Good(addJump(g, "jump", <<>>), n) /\ addJump(g, "jump", <<>>).id = g.id
<1> DEFINE to == <<>>
<1>1. to \in Seq(Nat) /\ "jump" \in Ops \ {"free"}
  BY DEF Ops
<1> HIDE DEF to
<1>2. Good(addJump(g, "jump", to), n) /\ addJump(g, "jump", to).id = g.id
  BY <1>1, JumpGood
<1> QED BY <1>2 DEF to

LEMMA LabelTargets ==
  ASSUME NEW n, NEW g, Good(g, n), NEW at
  PROVE  Good(label(targets(g, at, g.label)), n) /\ label(targets(g, at, g.label)).id = g.id
<1>1. g.label \in Nat
  BY GoodTypes
<1>2. Good(targets(g, at, g.label), n) /\ targets(g, at, g.label).id = g.id
  BY <1>1, TargetsGood
<1> QED BY <1>2, LabelGood

LEMMA TemporaryGood ==
  ASSUME NEW n \in Nat \ {0}, NEW g, Good(g, n)
  PROVE  Good(temporary(g), n)
<1>1. Good(enter(g), n + 1) /\ n + 1 \in Nat \ {0} /\ n + 1 > 1
  BY EnterGood
<1>2. Good(constructed(enter(g)), n + 1)
  BY <1>1, ConstructedGood
<1>3. Good(exit(constructed(enter(g)), NoId), (n + 1) - 1)
  BY <1>1, <1>2, ExitGood
<1>4. (n + 1) - 1 = n
  OBVIOUS
<1> QED BY <1>3, <1>4 DEF temporary

(* An expression of its own scope, with a temporary or without.            *)
LEMMA EnteredGood ==
  ASSUME NEW n \in Nat \ {0}, NEW g, Good(g, n), NEW temp \in BOOLEAN
  PROVE  Good(Maybe(constructed, temp, enter(g)), n + 1)
<1>1. Good(enter(g), n + 1) /\ n + 1 \in Nat \ {0}
  BY EnterGood
<1>2. Good(constructed(enter(g)), n + 1)
  BY <1>1, ConstructedGood
<1> QED BY <1>1, <1>2 DEF Maybe

LEMMA VariableGood ==
  ASSUME NEW n \in Nat \ {0}, NEW g, Good(g, n), NEW temp \in BOOLEAN
  PROVE  Good(variable(g, temp), n)
<1> DEFINE e == Maybe(constructed, temp, enter(g))
<1>1. Good(e, n + 1)
  BY EnteredGood
<1>2. variable(g, temp) = exit(constructed(e), e.id)
  BY DEF variable
<1> HIDE DEF e
<1>3. n + 1 \in Nat \ {0} /\ n + 1 > 1 /\ (n + 1) - 1 = n
  OBVIOUS
<1>4. Good(constructed(e), n + 1)
  BY <1>1, <1>3, ConstructedGood
<1>5. Good(exit(constructed(e), e.id), (n + 1) - 1)
  BY <1>3, <1>4, ExitGood
<1> QED BY <1>2, <1>3, <1>5

LEMMA ConditionalObjectGood ==
  ASSUME NEW n \in Nat \ {0}, NEW g, Good(g, n)
  PROVE  Good(conditionalObject(g), n)
<1> DEFINE branchAt == Len(g.code) + 2
           tested == addJump(add(enter(g), "reserve", NoId), "branch", <<g.label>>)
           whenTrue == constructed(enter(label(tested)))
           jumpAt == Len(whenTrue.code) + 1
           out == whenTrue.id
           result == add(stack(addJump(whenTrue, "jump", <<>>)), "construct", out)
           joined == exit(result, out)
           whenFalse == constructed(enter(label(targets(joined, {branchAt}, joined.label))))
           done == exit(add(whenFalse, "construct", out), NoId)
           last == label(targets(done, {jumpAt}, done.label))
<1>0. conditionalObject(g) = exit(last, out)
  BY DEF conditionalObject
<1>1. /\ n + 1 \in Nat \ {0} /\ n + 1 > 1 /\ (n + 1) - 1 = n
      /\ n + 2 \in Nat \ {0} /\ n + 2 > 1 /\ (n + 2) - 1 = n + 1 /\ (n + 1) + 1 = n + 2
  OBVIOUS
<1>2. {"reserve", "construct"} \subseteq Ops \ {"free"} /\ NoId \in Nat /\ g.label \in Nat
  BY GoodTypes DEF Ops, NoId
<1>3. Good(tested, n + 1)
  <2>1. Good(enter(g), n + 1)
    BY EnterGood
  <2>2. Good(add(enter(g), "reserve", NoId), n + 1)
    BY <1>2, <2>1, AddGood
  <2> QED BY <1>2, <2>2, JumpTo
<1> HIDE DEF tested
<1>4. Good(whenTrue, n + 2) /\ out \in Nat
  <2>1. Good(label(tested), n + 1)
    BY <1>3, LabelGood
  <2>2. Good(enter(label(tested)), n + 2)
    BY <1>1, <2>1, EnterGood
  <2>3. Good(whenTrue, n + 2)
    BY <1>1, <2>2, ConstructedGood
  <2> QED BY <2>3, GoodTypes
<1> HIDE DEF whenTrue
<1>5. Good(joined, n + 1)
  <2>1. Good(addJump(whenTrue, "jump", <<>>), n + 2)
    BY <1>4, JumpLater
  <2>2. Good(stack(addJump(whenTrue, "jump", <<>>)), n + 2)
    BY <1>1, <2>1, StackGood
  <2>3. Good(result, n + 2)
    BY <1>2, <1>4, <2>2, AddGood
  <2> HIDE DEF result
  <2>4. Good(joined, (n + 2) - 1)
    BY <1>1, <2>3, ExitGood
  <2> QED BY <1>1, <2>4
<1> HIDE DEF joined
<1>6. Good(whenFalse, n + 2)
  <2>1. Good(label(targets(joined, {branchAt}, joined.label)), n + 1)
    BY <1>5, LabelTargets
  <2>2. Good(enter(label(targets(joined, {branchAt}, joined.label))), n + 2)
    BY <1>1, <2>1, EnterGood
  <2> QED BY <1>1, <2>2, ConstructedGood
<1> HIDE DEF whenFalse
<1>7. Good(done, n + 1)
  <2>1. Good(add(whenFalse, "construct", out), n + 2)
    BY <1>2, <1>4, <1>6, AddGood
  <2>2. Good(done, (n + 2) - 1)
    BY <1>1, <2>1, ExitGood
  <2> QED BY <1>1, <2>2
<1> HIDE DEF done
<1>8. Good(last, n + 1)
  BY <1>7, LabelTargets
<1> HIDE DEF last, out
<1>9. Good(exit(last, out), (n + 1) - 1)
  BY <1>1, <1>8, ExitGood
<1> QED BY <1>0, <1>1, <1>9

LEMMA ConditionalValueGood ==
  ASSUME NEW n \in Nat \ {0}, NEW g, Good(g, n)
  PROVE  Good(conditionalValue(g), n)
<1> DEFINE out == g.id
           branchAt == Len(g.code) + 2
           first == [enter(g) EXCEPT !.id = @ + 1]
           tested == addJump(add(first, "reserve", out), "branch", <<g.label>>)
           whenTrue == enter(label(tested))
           jumpAt == Len(whenTrue.code) + 1
           joined == exit(add(addJump(whenTrue, "jump", <<>>), "resolve", out), NoId)
           whenFalse == enter(label(targets(joined, {branchAt}, joined.label)))
           done == exit(add(whenFalse, "resolve", out), NoId)
           last == label(targets(done, {jumpAt}, done.label))
<1>0. conditionalValue(g) = add(exit(last, NoId), "use", out)
  BY DEF conditionalValue
<1>1. /\ n + 1 \in Nat \ {0} /\ n + 1 > 1 /\ (n + 1) - 1 = n
      /\ n + 2 \in Nat \ {0} /\ n + 2 > 1 /\ (n + 2) - 1 = n + 1 /\ (n + 1) + 1 = n + 2
  OBVIOUS
<1>2. {"reserve", "resolve", "use"} \subseteq Ops \ {"free"} /\ out \in Nat /\ g.label \in Nat
  BY GoodTypes DEF Ops
<1>3. Good(tested, n + 1)
  <2>1. Good(enter(g), n + 1) /\ enter(g).id = out
    BY EnterGood
  <2>2. first = [enter(g) EXCEPT !.id = out + 1] /\ out + 1 \in Nat /\ out + 1 >= enter(g).id
    BY <1>2, <2>1
  <2>3. Good(first, n + 1)
    BY <2>1, <2>2, IdOnly
  <2> HIDE DEF first
  <2>4. Good(add(first, "reserve", out), n + 1)
    BY <1>2, <2>3, AddGood
  <2> QED BY <1>2, <2>4, JumpTo
<1> HIDE DEF tested
<1>4. Good(whenTrue, n + 2)
  <2>1. Good(label(tested), n + 1)
    BY <1>3, LabelGood
  <2> QED BY <1>1, <2>1, EnterGood
<1> HIDE DEF whenTrue
<1>5. Good(joined, n + 1)
  <2>1. Good(addJump(whenTrue, "jump", <<>>), n + 2)
    BY <1>4, JumpLater
  <2>2. Good(add(addJump(whenTrue, "jump", <<>>), "resolve", out), n + 2)
    BY <1>2, <2>1, AddGood
  <2>3. Good(joined, (n + 2) - 1)
    BY <1>1, <2>2, ExitGood
  <2> QED BY <1>1, <2>3
<1> HIDE DEF joined
<1>6. Good(whenFalse, n + 2)
  <2>1. Good(label(targets(joined, {branchAt}, joined.label)), n + 1)
    BY <1>5, LabelTargets
  <2> QED BY <1>1, <2>1, EnterGood
<1> HIDE DEF whenFalse
<1>7. Good(done, n + 1)
  <2>1. Good(add(whenFalse, "resolve", out), n + 2)
    BY <1>2, <1>6, AddGood
  <2>2. Good(done, (n + 2) - 1)
    BY <1>1, <2>1, ExitGood
  <2> QED BY <1>1, <2>2
<1> HIDE DEF done
<1>8. Good(last, n + 1)
  BY <1>7, LabelTargets
<1> HIDE DEF last
<1>9. Good(exit(last, NoId), (n + 1) - 1)
  BY <1>1, <1>8, ExitGood
<1>10. Good(exit(last, NoId), n)
  BY <1>1, <1>9
<1> QED BY <1>0, <1>2, <1>10, AddGood

-----------------------------------------------------------------------------
(* Returning                                                               *)

(* A return where no scope has an object emits no code.                    *)
LEMMA ReturnGood ==
  ASSUME NEW n \in Nat \ {0}, NEW g, Good(g, n),
         \A i \in 1 .. n : Len(g.scopes[i].stackObjs) = 0
  PROVE  Good(emitReturnInstructions(g), n)
<1> DEFINE s == g.scopes
           K == [i \in 1 .. n |-> emitScopeExitInstructions(s, i, NoId)]
           h == emitReturnInstructions(g)
           e == [s[n] EXCEPT !.didReturn = TRUE]
           t == [s EXCEPT ![n] = e]
<1>1. g \in Drafts /\ s \in Seq(Scopes) /\ Len(s) = n /\ g.code \in Seq(Codes) /\ s[n] \in Scopes
  BY GoodTypes
<1>2. PICK code \in Seq(Codes) :
        /\ h = [g EXCEPT !.code = @ \o code, !.scopes[Len(g.scopes)].didReturn = TRUE]
        /\ JoinedBack(Codes, n, K, code)
  BY <1>1, ReturnJoined
<1>3. ASSUME NEW i \in 1 .. n PROVE emitScopeExitInstructions(s, i, NoId) = <<>>
  <2>1. i \in Nat \ {0} /\ \A j \in i .. n : Len(s[j].stackObjs) = 0
    OBVIOUS
  <2> QED BY <1>1, <2>1, EmptyScopesExit
<1>4. K \in [1 .. n -> Seq(Codes)] /\ \A i \in 1 .. n : K[i] = <<>>
  <2>1. <<>> \in Seq(Codes)
    OBVIOUS
  <2> QED BY <1>3, <2>1
<1> HIDE DEF K
<1>5. code = <<>>
  BY <1>2, <1>4, BackOfNothing
<1>6. g.code \o code = g.code
  BY <1>1, <1>5, ConcatEmptySeq
<1>7. h = [g EXCEPT !.scopes = t]
  BY <1>1, <1>2, <1>6 DEF Drafts
<1>8. e \in Scopes /\ e.stackObjs = s[n].stackObjs
  BY <1>1 DEF Scopes
<1> HIDE DEF e, h
<1>9. t \in Seq(Scopes) /\ Len(t) = n /\ \A i \in 1 .. n : t[i].stackObjs = s[i].stackObjs
  BY <1>1, <1>8
<1> HIDE DEF t
<1>10. h \in Drafts /\ h.scopes = t /\ h.id = g.id /\ h.code = g.code
  BY <1>1, <1>7, <1>9, DraftFields
<1>11. \A p : p \in Places(t) <=> p \in Places(s)
  BY <1>1, <1>9 DEF Places
<1>12. \A p \in Places(t) : At(t, p) = At(s, p)
  BY <1>9 DEF Places, At
<1>13. Good(h, n)
  BY <1>9, <1>10, <1>11, <1>12 DEF Good
<1> QED BY <1>13 DEF h

(* The end of a function, whose own scope is the only one left: it returns *)
(* and the scope is left with nothing to destroy.                          *)
LEMMA ReturnLast ==
  ASSUME NEW g, Good(g, 1)
  PROVE  LET h == exit(add(emitReturnInstructions(g), "ret", NoId), NoId)
         IN  h.code \in Seq(Codes) /\ FreesOK(h.code)
<1> DEFINE s == g.scopes
           r == emitScopeExitInstructions(s, 1, NoId)
           K == [i \in 1 .. 1 |-> emitScopeExitInstructions(s, i, NoId)]
           e == emitReturnInstructions(g)
           ret == Instruction("ret", NoId, <<>>)
           a == add(e, "ret", NoId)
           c == g.code \o r
<1>1. g \in Drafts /\ s \in Seq(Scopes) /\ Len(s) = 1 /\ g.code \in Seq(Codes) /\ s[1] \in Scopes
  <2>1. g \in Drafts /\ s \in Seq(Scopes) /\ Len(s) = 1 /\ g.code \in Seq(Codes)
    BY GoodTypes
  <2> HIDE DEF s
  <2>2. \A i \in 1 .. Len(s) : s[i] \in Scopes
    BY ONLY <2>1, ElementOfSeq
  <2>3. 1 \in 1 .. Len(s)
    BY <2>1
  <2> QED BY <2>1, <2>2, <2>3
<1>2. PICK code \in Seq(Codes) :
        /\ e = [g EXCEPT !.code = @ \o code, !.scopes[Len(g.scopes)].didReturn = TRUE]
        /\ JoinedBack(Codes, 1, K, code)
  BY <1>1, ReturnJoined
<1>3. r \in Seq(Codes) /\ FreesOK(c) /\ c \in Seq(Codes)
  <2>1. Leaves(g.code, r, Freed(s, NoId))
    BY ScopeLeaves
  <2> QED BY <1>1, <2>1, ConcatProperties DEF Leaves
<1>4. code = r
  <2>1. K \in [1 .. 1 -> Seq(Codes)] /\ K[1] = r
    BY <1>3
  <2> HIDE DEF K
  <2> QED BY <1>2, <2>1, BackOfOne
<1> HIDE DEF r
<1>5. /\ e \in Drafts /\ e.code = c /\ Len(e.scopes) = 1 /\ e.scopes[1].didReturn = TRUE
  <2> DEFINE x == [s[1] EXCEPT !.didReturn = TRUE]
             t == [s EXCEPT ![1] = x]
  <2>1. x \in Scopes /\ x.didReturn = TRUE
    BY <1>1 DEF Scopes
  <2>2. e = [g EXCEPT !.code = c, !.scopes = t]
    BY <1>1, <1>2, <1>4
  <2> HIDE DEF x
  <2>3. t \in Seq(Scopes) /\ Len(t) = 1 /\ t[1] = x
    BY <1>1, <2>1
  <2> HIDE DEF t, e, c
  <2>4. e \in Drafts /\ e.code = c /\ e.scopes = t
    BY <1>1, <1>3, <2>2, <2>3 DEF Drafts
  <2> QED BY <2>1, <2>3, <2>4
<1> HIDE DEF e, c
<1>6. ret \in Codes /\ ret.op = "ret"
  <2>1. "ret" \in Ops /\ NoId \in Nat
    BY DEF Ops, NoId
  <2> QED BY <2>1, PlainTypes
<1>7. a = [e EXCEPT !.code = Append(@, ret)]
  BY DEF add
<1> HIDE DEF ret, a
<1>8. Append(c, ret) \in Seq(Codes) /\ FreesOK(Append(c, ret))
  BY <1>3, <1>6, HeldAppend
<1>9. a \in Drafts /\ a.code = Append(c, ret) /\ a.scopes = e.scopes
  <2>1. a = [e EXCEPT !.code = Append(c, ret)]
    BY <1>5, <1>7
  <2> QED BY <1>5, <1>8, <2>1, DraftFields
<1>10. emitScopeExitInstructions(a.scopes, Len(a.scopes), NoId) = <<>> /\ ~didSave(a.scopes, NoId)
  BY <1>5, <1>9 DEF emitScopeExitInstructions, didSave, Last
<1>11. exit(a, NoId) = [a EXCEPT !.code = @ \o <<>>, !.scopes = Front(@)]
  BY <1>10 DEF exit
<1>12. exit(a, NoId).code = a.code \o <<>>
  BY <1>9, <1>11 DEF Drafts
<1>13. exit(a, NoId).code = a.code
  BY <1>8, <1>9, <1>12, ConcatEmptySeq
<1> QED BY <1>8, <1>9, <1>13 DEF a, e

-----------------------------------------------------------------------------
(* The invariant: while the function is written, it has the scopes that    *)
(* the open statements call for and its draft is good.                     *)

Frames == [kind : {"function", "then", "else", "chosen", "block", "while", "do"}, at : Nat, full : BOOLEAN]
Loops == [loop_begin : Nat, outer_scope : Nat \ {0}, pending_end_label : SUBSET Nat]

LoopFrames(o) == {i \in 1 .. Len(o) : o[i].kind \in {"while", "do"}}
Turns(o) == Cardinality(LoopFrames(o))
Depth(o) == 1 + Len(o) + Turns(o)

Framed(o) ==
  /\ o \in Seq(Frames) /\ o # <<>>
  /\ \A i \in 1 .. Len(o) : o[i].kind = "function" <=> i = 1

Writing ==
  /\ phase = "compile"
  /\ Framed(open)
  /\ m_lsStack \in Seq(Loops) /\ Len(m_lsStack) = Turns(open)
  /\ Good(Draft, Depth(open))

Written == phase = "run" /\ m_instructions \in Seq(Codes) /\ FreesOK(m_instructions)

IInv == "early" \in history \/ Writing \/ Written

(* What the open statements say of the scopes.                             *)
LEMMA FrameTypes ==
  ASSUME NEW o, Framed(o)
  PROVE  /\ Len(o) \in Nat \ {0} /\ o[Len(o)] \in Frames
         /\ IsFiniteSet(LoopFrames(o)) /\ Turns(o) \in Nat
         /\ Depth(o) \in Nat /\ Depth(o) > 1
         /\ o[Len(o)].kind # "function" => Len(o) > 1 /\ Depth(o) > 2
         /\ o[Len(o)].kind = "function" => Len(o) = 1 /\ Depth(o) = 2
         /\ o[Len(o)].kind \in {"while", "do"} => Turns(o) > 0 /\ Depth(o) > 3
<1>1. o \in Seq(Frames) /\ Len(o) \in Nat \ {0} /\ o[Len(o)] \in Frames
  BY DEF Framed
<1>2. o[Len(o)].kind = "function" <=> Len(o) = 1
  <2>1. Len(o) \in 1 .. Len(o)
    BY <1>1
  <2>2. \A i \in 1 .. Len(o) : (o[i].kind = "function") <=> (i = 1)
    BY DEF Framed
  <2> HIDE DEF Framed
  <2> QED BY <2>1, <2>2
<1>3. IsFiniteSet(1 .. Len(o)) /\ LoopFrames(o) \subseteq 1 .. Len(o)
  BY <1>1, FS_Interval DEF LoopFrames
<1>4. IsFiniteSet(LoopFrames(o)) /\ Turns(o) \in Nat
  BY <1>3, FS_Subset, FS_CardinalityType DEF Turns
<1>5. ASSUME o[Len(o)].kind \in {"while", "do"} PROVE Turns(o) > 0
  <2>1. LoopFrames(o) # {}
    BY <1>1, <1>5 DEF LoopFrames
  <2> QED BY <1>4, <2>1, FS_EmptySet DEF Turns
<1>6. ASSUME Len(o) = 1 PROVE Turns(o) = 0
  <2>1. LoopFrames(o) = {}
    BY <1>1, <1>2, <1>6 DEF LoopFrames
  <2> QED BY <2>1, FS_EmptySet DEF Turns
<1>7. Depth(o) = 1 + Len(o) + Turns(o)
  BY DEF Depth
<1>8. Depth(o) \in Nat /\ Depth(o) > 1
  BY <1>1, <1>4, <1>7
<1>9. o[Len(o)].kind # "function" => Len(o) > 1 /\ Depth(o) > 2
  <2>0. \A n \in Nat \ {0}, k \in Nat : n # 1 => n > 1 /\ 1 + n + k > 2
    OBVIOUS
  <2>1. Len(o) # 1 => Len(o) > 1 /\ Depth(o) > 2
    BY <1>1, <1>4, <1>7, <2>0
  <2> QED BY <1>2, <2>1, Zenon
<1>10. o[Len(o)].kind = "function" => Len(o) = 1 /\ Depth(o) = 2
  <2>1. Len(o) = 1 => Depth(o) = 2
    BY <1>1, <1>6, <1>7
  <2> QED BY <1>2, <2>1, Zenon
<1>11. o[Len(o)].kind \in {"while", "do"} => Turns(o) > 0 /\ Depth(o) > 3
  <2> HAVE o[Len(o)].kind \in {"while", "do"}
  <2>1. Len(o) > 1
    BY <1>9
  <2> QED BY <1>1, <1>4, <1>5, <1>7, <2>1
<1> QED BY <1>1, <1>4, <1>8, <1>9, <1>10, <1>11

LEMMA FilledFrames ==
  ASSUME NEW o, Framed(o)
  PROVE  LET f == [o EXCEPT ![Len(o)].full = TRUE]
         IN  Framed(f) /\ Len(f) = Len(o) /\ Turns(f) = Turns(o) /\ Depth(f) = Depth(o)
<1> DEFINE n == Len(o)
           x == [o[n] EXCEPT !.full = TRUE]
           f == [o EXCEPT ![n] = x]
<1>1. o \in Seq(Frames) /\ n \in Nat \ {0} /\ o[n] \in Frames
  BY FrameTypes DEF Framed
<1>2. x \in Frames /\ x.kind = o[n].kind
  BY <1>1 DEF Frames
<1> HIDE DEF x
<1>3. f \in Seq(Frames) /\ Len(f) = n /\ \A i \in 1 .. n : f[i].kind = o[i].kind
  BY <1>1, <1>2
<1>4. [o EXCEPT ![Len(o)].full = TRUE] = f
  BY DEF x
<1> HIDE DEF f
<1>5. LoopFrames(f) = LoopFrames(o)
  BY <1>3 DEF LoopFrames
<1>6. f # <<>> /\ \A i \in 1 .. Len(f) : f[i].kind = "function" <=> i = 1
  BY <1>1, <1>3 DEF Framed
<1> QED BY <1>3, <1>4, <1>5, <1>6 DEF Framed, Turns, Depth

LEMMA OpenedFrames ==
  ASSUME NEW o, Framed(o), NEW kind \in {"then", "else", "chosen", "block", "while", "do"}, NEW at \in Nat
  PROVE  LET p == Append(o, Frame(kind, at))
         IN  /\ Framed(p)
             /\ kind \notin {"while", "do"} => Turns(p) = Turns(o) /\ Depth(p) = Depth(o) + 1
             /\ kind \in {"while", "do"} => Turns(p) = Turns(o) + 1 /\ Depth(p) = Depth(o) + 2
<1> DEFINE n == Len(o)
           x == Frame(kind, at)
           p == Append(o, x)
<1>1. o \in Seq(Frames) /\ n \in Nat \ {0} /\ IsFiniteSet(LoopFrames(o)) /\ Turns(o) \in Nat
  BY FrameTypes DEF Framed
<1>2. x \in Frames /\ x.kind = kind
  BY DEF Frame, Frames
<1> HIDE DEF x
<1>3. p \in Seq(Frames) /\ Len(p) = n + 1 /\ p[n + 1] = x /\ \A i \in 1 .. n : p[i] = o[i]
  BY <1>1, <1>2
<1> HIDE DEF p
<1>4. Framed(p)
  <2>1. ASSUME NEW i \in 1 .. n + 1 PROVE p[i].kind = "function" <=> i = 1
    <3>1. CASE i = n + 1
      <4>1. p[i].kind # "function"
        BY <1>2, <1>3, <3>1
      <4>2. i # 1
        BY <1>1, <3>1
      <4> QED BY <4>1, <4>2
    <3>2. CASE i # n + 1
      <4>1. i \in 1 .. n /\ p[i] = o[i]
        BY <1>1, <1>3, <3>2
      <4> QED BY <4>1 DEF Framed
    <3> QED BY <3>1, <3>2
  <2>2. p # <<>>
    BY <1>1, <1>3
  <2> QED BY <1>3, <2>1, <2>2 DEF Framed
<1>5. ASSUME kind \notin {"while", "do"} PROVE Turns(p) = Turns(o)
  <2>1. LoopFrames(p) = LoopFrames(o)
    <3>1. \A i \in 1 .. n + 1 : i \in 1 .. n \/ i = n + 1
      BY <1>1
    <3>2. \A i \in 1 .. n : i \in 1 .. n + 1
      BY <1>1
    <3> QED BY <1>2, <1>3, <1>5, <3>1, <3>2 DEF LoopFrames
  <2> QED BY <2>1 DEF Turns
<1>6. ASSUME kind \in {"while", "do"} PROVE Turns(p) = Turns(o) + 1
  <2>1. LoopFrames(p) = LoopFrames(o) \cup {n + 1}
    <3>1. \A i : i \in 1 .. n + 1 <=> (i \in 1 .. n \/ i = n + 1)
      BY <1>1
    <3>2. p[n + 1].kind \in {"while", "do"}
      BY <1>2, <1>3, <1>6
    <3> QED BY <1>3, <3>1, <3>2 DEF LoopFrames
  <2>2. n + 1 \notin LoopFrames(o)
    BY <1>1 DEF LoopFrames
  <2> QED BY <1>1, <2>1, <2>2, FS_AddElement DEF Turns
<1> QED BY <1>1, <1>3, <1>4, <1>5, <1>6 DEF Depth, x, p

LEMMA ClosedFrames ==
  ASSUME NEW o, Framed(o), o[Len(o)].kind # "function"
  PROVE  /\ Framed(Front(o))
         /\ o[Len(o)].kind \notin {"while", "do"} =>
              Turns(Front(o)) = Turns(o) /\ Depth(Front(o)) = Depth(o) - 1
         /\ o[Len(o)].kind \in {"while", "do"} =>
              Turns(Front(o)) = Turns(o) - 1 /\ Depth(Front(o)) = Depth(o) - 2
<1> DEFINE n == Len(o)
           p == Front(o)
<1>1. o \in Seq(Frames) /\ n \in Nat \ {0} /\ n > 1 /\ IsFiniteSet(LoopFrames(o)) /\ Turns(o) \in Nat
  BY FrameTypes DEF Framed
<1>2. p \in Seq(Frames) /\ Len(p) = n - 1 /\ \A i \in 1 .. n - 1 : p[i] = o[i]
  BY <1>1 DEF Front
<1> HIDE DEF p
<1>3. Framed(p)
  <2>1. ASSUME NEW i \in 1 .. n - 1 PROVE p[i].kind = "function" <=> i = 1
    BY <1>1, <1>2 DEF Framed
  <2>2. p # <<>>
    BY <1>1, <1>2
  <2> QED BY <1>2, <2>1, <2>2 DEF Framed
<1>4. \A i : i \in 1 .. n <=> (i \in 1 .. n - 1 \/ i = n)
  BY <1>1
<1>5. ASSUME o[n].kind \notin {"while", "do"} PROVE Turns(p) = Turns(o)
  <2>1. LoopFrames(p) = LoopFrames(o)
    BY <1>2, <1>4, <1>5 DEF LoopFrames
  <2> QED BY <2>1 DEF Turns
<1>6. ASSUME o[n].kind \in {"while", "do"} PROVE Turns(p) = Turns(o) - 1
  <2>1. n \in LoopFrames(o)
    BY <1>4, <1>6 DEF LoopFrames
  <2>2. n \notin 1 .. n - 1
    BY <1>1
  <2>3. LoopFrames(p) = LoopFrames(o) \ {n}
    BY <1>2, <1>4, <2>2 DEF LoopFrames
  <2> QED BY <1>1, <2>1, <2>3, FS_RemoveElement DEF Turns
<1> QED BY <1>1, <1>2, <1>3, <1>5, <1>6 DEF Depth, p

-----------------------------------------------------------------------------
(* Statements                                                              *)

LEMMA BecomesDraft ==
  ASSUME NEW g \in Drafts, Becomes(g)
  PROVE  Draft' = g
BY DEF Becomes, Draft, Drafts

LEMMA DraftGood ==
  ASSUME Writing
  PROVE  /\ Good(Draft, Depth(open)) /\ Framed(open) /\ Top \in Frames
         /\ Depth(open) \in Nat \ {0} /\ Depth(open) > 1
         /\ Draft.scopes = m_scopes /\ Draft.code = m_instructions
         /\ Draft.label = m_nextLabelId /\ Draft.id = m_nextAllocId
<1>1. Framed(open) /\ Good(Draft, Depth(open))
  BY DEF Writing
<1>2. Depth(open) \in Nat /\ Depth(open) > 1 /\ Top \in Frames
  BY <1>1, FrameTypes DEF Top, Last
<1> QED BY <1>1, <1>2 DEF Draft

(* A statement that is complete, one that opens, and one that closes.      *)
LEMMA WritingSimple ==
  ASSUME Writing, NEW g, Becomes(g), Good(g, Depth(open)),
         open' = Filled, m_lsStack' \in Seq(Loops), Len(m_lsStack') = Len(m_lsStack), phase' = phase
  PROVE  Writing'
<1>1. Draft' = g
  BY BecomesDraft, GoodTypes
<1>2. Framed(open') /\ Turns(open') = Turns(open) /\ Depth(open') = Depth(open)
  BY FilledFrames DEF Writing, Filled
<1> QED BY <1>1, <1>2 DEF Writing

LEMMA WritingOpens ==
  ASSUME Writing, NEW kind \in {"then", "else", "chosen", "block"}, NEW at \in Nat,
         NEW g, Becomes(g), Good(g, Depth(open) + 1),
         Opens(Frame(kind, at)), m_lsStack' = m_lsStack, phase' = phase
  PROVE  Writing'
<1>1. Draft' = g
  BY BecomesDraft, GoodTypes
<1>2. Framed(Filled) /\ Turns(Filled) = Turns(open) /\ Depth(Filled) = Depth(open)
  BY FilledFrames DEF Writing, Filled
<1>3. open' = Append(Filled, Frame(kind, at))
  BY DEF Opens
<1>4. kind \in {"then", "else", "chosen", "block", "while", "do"} /\ kind \notin {"while", "do"}
  OBVIOUS
<1>5. Framed(open') /\ Turns(open') = Turns(open) /\ Depth(open') = Depth(open) + 1
  <2> DEFINE p == Append(Filled, Frame(kind, at))
  <2>1. Framed(p) /\ Turns(p) = Turns(Filled) /\ Depth(p) = Depth(Filled) + 1
    BY <1>2, <1>4, OpenedFrames
  <2> QED BY <1>2, <1>3, <2>1
<1> QED BY <1>1, <1>5 DEF Writing

LEMMA WritingCloses ==
  ASSUME Writing, Top.kind \notin {"function", "while", "do"},
         NEW g, Becomes(g), Good(g, Depth(open) - 1),
         open' = Front(open), m_lsStack' = m_lsStack, phase' = phase
  PROVE  Writing'
<1>1. Draft' = g
  BY BecomesDraft, GoodTypes
<1>2. Framed(open') /\ Turns(open') = Turns(open) /\ Depth(open') = Depth(open) - 1
  BY ClosedFrames DEF Writing, Top, Last
<1> QED BY <1>1, <1>2 DEF Writing

LEMMA ExpressionStep ==
  ASSUME Writing, Expression
  PROVE  Writing'
<1>1. Good(temporary(Draft), Depth(open))
  BY DraftGood, TemporaryGood
<1>2. Becomes(temporary(Draft)) /\ open' = Filled /\ m_lsStack' = m_lsStack /\ phase' = phase
  BY DEF Expression, Simple, Compiling
<1> QED BY <1>1, <1>2, WritingSimple DEF Writing

LEMMA DeclareStep ==
  ASSUME Writing, Declare
  PROVE  Writing'
<1>1. PICK temp \in BOOLEAN : Becomes(variable(Draft, temp))
  BY DEF Declare
<1>2. Good(variable(Draft, temp), Depth(open))
  BY DraftGood, VariableGood
<1>3. open' = Filled /\ m_lsStack' = m_lsStack /\ phase' = phase
  BY DEF Declare, Simple, Compiling
<1> QED BY <1>1, <1>2, <1>3, WritingSimple DEF Writing

LEMMA DeclareEmptyStep ==
  ASSUME Writing, DeclareEmpty
  PROVE  Writing'
<1> DEFINE g == add(Draft, "construct", m_nextAllocId)
           h == [g EXCEPT !.id = @ + 1]
<1>1. Becomes(h) /\ open' = Filled /\ m_lsStack' = m_lsStack /\ phase' = phase
  BY DEF DeclareEmpty, Simple, Compiling
<1>2. Good(Draft, Depth(open)) /\ m_nextAllocId \in Nat /\ Draft.id = m_nextAllocId
  <2>1. Good(Draft, Depth(open)) /\ Draft.id = m_nextAllocId
    BY DraftGood
  <2> QED BY <2>1, GoodTypes
<1>3. "construct" \in Ops \ {"free"}
  BY DEF Ops
<1>4. Good(g, Depth(open)) /\ g.id = m_nextAllocId
  BY <1>2, <1>3, AddGood
<1> HIDE DEF g
<1>5. h = [g EXCEPT !.id = m_nextAllocId + 1]
      /\ m_nextAllocId + 1 \in Nat /\ m_nextAllocId + 1 >= g.id
  BY <1>2, <1>4
<1>6. Good(h, Depth(open))
  BY <1>4, <1>5, IdOnly
<1> HIDE DEF h
<1> QED BY <1>1, <1>6, WritingSimple DEF Writing

LEMMA UseStep ==
  ASSUME Writing, Use
  PROVE  Writing'
<1>1. PICK id \in Live(m_scopes, 1) : Becomes(add(Draft, "use", id))
  BY DEF Use
<1>2. Good(Draft, Depth(open)) /\ m_scopes \in Seq(Scopes)
  <2>1. Good(Draft, Depth(open)) /\ Draft.scopes = m_scopes
    BY DraftGood
  <2> QED BY <2>1, GoodTypes
<1>3. id \in Nat
  <2>1. PICK i \in 1 .. Len(m_scopes) : id \in ToSet(m_scopes[i].stackObjs)
    BY <1>1 DEF Live
  <2>2. m_scopes[i] \in Scopes
    BY <1>2, <2>1
  <2>3. m_scopes[i].stackObjs \in Seq(Nat)
    BY <2>2 DEF Scopes
  <2> QED BY <2>1, <2>3 DEF ToSet
<1>4. "use" \in Ops \ {"free"}
  BY DEF Ops
<1>5. Good(add(Draft, "use", id), Depth(open))
  BY <1>2, <1>3, <1>4, AddGood
<1>6. open' = Filled /\ m_lsStack' = m_lsStack /\ phase' = phase
  BY DEF Use, Simple, Compiling
<1> QED BY <1>1, <1>5, <1>6, WritingSimple DEF Writing

LEMMA ConditionalStep ==
  ASSUME Writing, Conditional
  PROVE  Writing'
<1>1. /\ Good(conditionalObject(Draft), Depth(open))
      /\ Good(conditionalValue(Draft), Depth(open))
  BY DraftGood, ConditionalObjectGood, ConditionalValueGood
<1>2. Becomes(conditionalObject(Draft)) \/ Becomes(conditionalValue(Draft))
  BY DEF Conditional
<1>3. open' = Filled /\ m_lsStack' = m_lsStack /\ phase' = phase
  BY DEF Conditional, Simple, Compiling
<1> QED BY <1>1, <1>2, <1>3, WritingSimple DEF Writing

LEMMA IfStep ==
  ASSUME Writing, If
  PROVE  Writing'
<1>1. PICK temp \in BOOLEAN :
        LET g == exit(Maybe(constructed, temp, enter(Draft)), NoId)
        IN  /\ Becomes(enter(label(addJump(g, "branch", <<g.label>>))))
            /\ Opens(Frame("then", Len(g.code) + 1))
  BY DEF If
<1> DEFINE n == Depth(open)
           g == exit(Maybe(constructed, temp, enter(Draft)), NoId)
           h == enter(label(addJump(g, "branch", <<g.label>>)))
<1>2. Good(Draft, n) /\ n \in Nat \ {0} /\ n + 1 \in Nat \ {0} /\ n + 1 > 1 /\ (n + 1) - 1 = n
  BY DraftGood
<1> HIDE DEF n
<1>3. Good(g, n)
  <2>1. Good(Maybe(constructed, temp, enter(Draft)), n + 1)
    BY <1>2, EnteredGood
  <2>2. Good(g, (n + 1) - 1)
    BY <1>2, <2>1, ExitGood
  <2> QED BY <1>2, <2>2
<1>4. Becomes(h) /\ Opens(Frame("then", Len(g.code) + 1))
  BY <1>1
<1> HIDE DEF g
<1>5. g.label \in Nat /\ Len(g.code) + 1 \in Nat
  <2>1. g.label \in Nat /\ Len(g.code) \in Nat
    BY <1>3, GoodTypes
  <2> QED BY <2>1
<1>6. Good(h, n + 1)
  <2>1. Good(label(addJump(g, "branch", <<g.label>>)), n)
    BY <1>3, <1>5, JumpTo, LabelGood
  <2> QED BY <1>2, <2>1, EnterGood
<1> HIDE DEF h
<1>7. m_lsStack' = m_lsStack /\ phase' = phase
  BY DEF If, Compiling
<1> QED BY <1>4, <1>5, <1>6, <1>7, WritingOpens DEF n

(* A body in a scope of its own, without code before it.                   *)
LEMMA EnteredStep ==
  ASSUME Writing, NEW kind \in {"chosen", "block"}, Becomes(enter(Draft)), Opens(Frame(kind, 0)),
         m_lsStack' = m_lsStack, phase' = phase
  PROVE  Writing'
<1>1. Good(enter(Draft), Depth(open) + 1)
  BY DraftGood, EnterGood
<1>2. kind \in {"then", "else", "chosen", "block"} /\ 0 \in Nat
  OBVIOUS
<1> QED BY <1>1, <1>2, WritingOpens

LEMMA IfKnownStep ==
  ASSUME Writing, IfKnown
  PROVE  Writing'
BY EnteredStep DEF IfKnown, Compiling

LEMMA BlockStep ==
  ASSUME Writing, Block
  PROVE  Writing'
BY EnteredStep DEF Block, Compiling

(* The scope of a body is left.                                            *)
LEMMA BodyExit ==
  ASSUME Writing, Top.kind # "function"
  PROVE  /\ Depth(open) > 2 /\ Depth(open) - 1 \in Nat \ {0} /\ Depth(open) - 1 > 1
         /\ Good(exit(Draft, NoId), Depth(open) - 1)
<1>1. Framed(open) /\ Good(Draft, Depth(open)) /\ Depth(open) \in Nat \ {0}
  BY DraftGood
<1>2. Depth(open) > 2
  BY <1>1, FrameTypes DEF Top, Last
<1>3. Depth(open) - 1 \in Nat \ {0} /\ Depth(open) - 1 > 1
  BY <1>1, <1>2
<1>4. Good(exit(Draft, NoId), Depth(open) - 1)
  BY <1>1, ExitGood
<1> QED BY <1>2, <1>3, <1>4

LEMMA EndThenStep ==
  ASSUME Writing, EndThen
  PROVE  Writing'
<1> DEFINE g == exit(Draft, NoId)
           h == label(targets(g, {Top.at}, g.label))
<1>1. /\ Top.kind = "then" /\ Becomes(h) /\ open' = Front(open)
      /\ m_lsStack' = m_lsStack /\ phase' = phase
  BY DEF EndThen, Closes, Compiling
<1>2. Good(g, Depth(open) - 1)
  BY <1>1, BodyExit
<1>3. Good(h, Depth(open) - 1)
  BY <1>2, LabelTargets
<1> HIDE DEF h
<1>4. Top.kind \notin {"function", "while", "do"}
  BY <1>1
<1> QED BY <1>1, <1>3, <1>4, WritingCloses

LEMMA EndElseStep ==
  ASSUME Writing, EndElse
  PROVE  Writing'
<1> DEFINE g == exit(Draft, NoId)
           h == label(targets(g, {Top.at}, g.label))
<1>1. /\ Top.kind = "else" /\ Becomes(h) /\ open' = Front(open)
      /\ m_lsStack' = m_lsStack /\ phase' = phase
  BY DEF EndElse, Closes, Compiling
<1>2. Good(g, Depth(open) - 1)
  BY <1>1, BodyExit
<1>3. Good(h, Depth(open) - 1)
  BY <1>2, LabelTargets
<1> HIDE DEF h
<1>4. Top.kind \notin {"function", "while", "do"}
  BY <1>1
<1> QED BY <1>1, <1>3, <1>4, WritingCloses

LEMMA EndBodyStep ==
  ASSUME Writing, EndChosen \/ EndBlock
  PROVE  Writing'
<1>1. /\ Top.kind \in {"chosen", "block"} /\ Becomes(exit(Draft, NoId)) /\ open' = Front(open)
      /\ m_lsStack' = m_lsStack /\ phase' = phase
  BY DEF EndChosen, EndBlock, Closes, Compiling
<1>2. Top.kind # "function" /\ Top.kind \notin {"function", "while", "do"}
  BY <1>1
<1>3. Good(exit(Draft, NoId), Depth(open) - 1)
  BY <1>2, BodyExit
<1> QED BY <1>1, <1>2, <1>3, WritingCloses

LEMMA ElseStep ==
  ASSUME Writing, Else
  PROVE  Writing'
<1> DEFINE n == Depth(open)
           g == addJump(exit(Draft, NoId), "jump", <<>>)
           h == enter(label(targets(g, {Top.at}, g.label)))
           p == Append(Front(open), Frame("else", Len(g.code)))
<1>1. /\ Top.kind = "then" /\ Becomes(h) /\ open' = p
      /\ m_lsStack' = m_lsStack /\ phase' = phase
  BY DEF Else, Closes, Compiling
<1>2. n \in Nat \ {0} /\ n - 1 \in Nat /\ (n - 1) + 1 = n /\ Good(exit(Draft, NoId), n - 1)
  BY <1>1, BodyExit, DraftGood
<1>3. Good(g, n - 1)
  BY <1>2, JumpLater
<1> HIDE DEF g
<1>4. Good(h, (n - 1) + 1)
  BY <1>2, <1>3, LabelTargets, EnterGood
<1> HIDE DEF h
<1>5. Len(g.code) \in Nat
  BY <1>3, GoodTypes
<1>6. Framed(Front(open)) /\ Turns(Front(open)) = Turns(open) /\ Depth(Front(open)) = n - 1
  BY <1>1, ClosedFrames DEF Writing, Top, Last
<1>7. "else" \in {"then", "else", "chosen", "block", "while", "do"} /\ "else" \notin {"while", "do"}
  OBVIOUS
<1>8. Framed(p) /\ Turns(p) = Turns(Front(open)) /\ Depth(p) = Depth(Front(open)) + 1
  BY <1>5, <1>6, <1>7, OpenedFrames
<1> HIDE DEF p
<1>9. Framed(p) /\ Turns(p) = Turns(open) /\ Depth(p) = n
  BY <1>2, <1>6, <1>8
<1>10. Draft' = h
  BY <1>1, <1>4, BecomesDraft, GoodTypes
<1>11. Good(h, Depth(p))
  BY <1>2, <1>4, <1>9
<1> QED BY <1>1, <1>9, <1>10, <1>11 DEF Writing

LEMMA LoopStep ==
  ASSUME Writing, Loop
  PROVE  Writing'
<1> DEFINE Init0(init) == Maybe(LAMBDA g : variable(g, FALSE), init, enter(Draft))
           Start(init) == label(Init0(init))
           Cond(init) == exit(enter(Start(init)), NoId)
           Body(init, deferred) ==
             IF deferred THEN Start(init)
             ELSE label(addJump(Cond(init), "branch", <<Cond(init).label>>))
           LoopOf(init, deferred) ==
             [loop_begin |-> Start(init).label - 1, outer_scope |-> Len(Start(init).scopes),
              pending_end_label |-> IF deferred THEN {} ELSE {Len(Cond(init).code) + 1}]
<1>1. PICK init \in BOOLEAN, deferred \in BOOLEAN :
        /\ Becomes(enter(Body(init, deferred)))
        /\ m_lsStack' = Append(m_lsStack, LoopOf(init, deferred))
        /\ Opens(Frame(IF deferred THEN "do" ELSE "while", 0))
  BY DEF Loop
<1> DEFINE n == Depth(open)
           f == Init0(init)
           s == Start(init)
           cond == Cond(init)
           body == Body(init, deferred)
           kind == IF deferred THEN "do" ELSE "while"
           l == LoopOf(init, deferred)
<1>2. /\ Good(Draft, n) /\ n \in Nat \ {0} /\ n + 1 \in Nat \ {0} /\ n + 2 \in Nat \ {0} /\ n + 2 > 1
      /\ (n + 2) - 1 = n + 1 /\ (n + 1) + 1 = n + 2
  BY DraftGood
<1> HIDE DEF n
<1>3. Good(f, n + 1)
  <2>1. Good(enter(Draft), n + 1)
    BY <1>2, EnterGood
  <2>2. Good(variable(enter(Draft), FALSE), n + 1)
    BY <1>2, <2>1, VariableGood
  <2> QED BY <2>1, <2>2 DEF Maybe
<1>4. s = label(f)
  OBVIOUS
<1> HIDE DEF f, Init0
<1>5. Good(s, n + 1) /\ s.label \in Nat /\ s.label - 1 \in Nat /\ Len(s.scopes) = n + 1
  <2>1. Good(s, n + 1) /\ s.label = f.label + 1
    BY <1>3, <1>4, LabelGood
  <2>2. f.label \in Nat /\ Len(s.scopes) = n + 1
    BY <1>3, <2>1, GoodTypes
  <2> QED BY <2>1, <2>2
<1>6. cond = exit(enter(s), NoId)
  OBVIOUS
<1>7. body = IF deferred THEN s ELSE label(addJump(cond, "branch", <<cond.label>>))
  OBVIOUS
<1>8. l = [loop_begin |-> s.label - 1, outer_scope |-> Len(s.scopes),
           pending_end_label |-> IF deferred THEN {} ELSE {Len(cond.code) + 1}]
  OBVIOUS
<1>9. /\ Becomes(enter(body)) /\ m_lsStack' = Append(m_lsStack, l)
      /\ open' = Append(Filled, Frame(kind, 0))
  BY <1>1 DEF Opens
<1> HIDE DEF s, cond, body, l, Start, Cond, Body, LoopOf
<1>10. Good(cond, n + 1) /\ cond.label \in Nat /\ Len(cond.code) + 1 \in Nat
  <2>1. Good(enter(s), n + 2)
    BY <1>2, <1>5, EnterGood
  <2>2. Good(cond, (n + 2) - 1)
    BY <1>2, <1>6, <2>1, ExitGood
  <2>3. Good(cond, n + 1)
    BY <1>2, <2>2
  <2>4. cond.label \in Nat /\ Len(cond.code) \in Nat
    BY <2>3, GoodTypes
  <2> QED BY <2>3, <2>4
<1>11. Good(body, n + 1)
  <2>1. Good(label(addJump(cond, "branch", <<cond.label>>)), n + 1)
    BY <1>10, JumpTo, LabelGood
  <2> QED BY <1>5, <1>7, <2>1
<1>12. Good(enter(body), n + 2)
  BY <1>2, <1>11, EnterGood
<1>13. Draft' = enter(body)
  BY <1>9, <1>12, BecomesDraft, GoodTypes
<1>14. l \in Loops
  BY <1>2, <1>5, <1>8, <1>10 DEF Loops
<1>15. Framed(Filled) /\ Turns(Filled) = Turns(open) /\ Depth(Filled) = n
  BY FilledFrames DEF Writing, Filled, n
<1>16. kind \in {"then", "else", "chosen", "block", "while", "do"} /\ kind \in {"while", "do"}
  OBVIOUS
<1> HIDE DEF kind
<1>17. Framed(open') /\ Turns(open') = Turns(open) + 1 /\ Depth(open') = n + 2
  <2> DEFINE p == Append(Filled, Frame(kind, 0))
  <2>1. Framed(p) /\ Turns(p) = Turns(Filled) + 1 /\ Depth(p) = Depth(Filled) + 2
    BY <1>15, <1>16, OpenedFrames
  <2> QED BY <1>9, <1>15, <2>1
<1>18. m_lsStack' \in Seq(Loops) /\ Len(m_lsStack') = Turns(open')
  <2>1. m_lsStack \in Seq(Loops) /\ Len(m_lsStack) = Turns(open)
    BY DEF Writing
  <2> QED BY <1>9, <1>14, <1>17, <2>1
<1>19. phase' = "compile"
  BY DEF Loop, Compiling, Writing
<1> QED BY <1>12, <1>13, <1>17, <1>18, <1>19 DEF Writing

(* The end label of a loop, where its scope is left.                       *)
LEMMA EndedGood ==
  ASSUME NEW n \in Nat \ {0}, n > 1, NEW g, Good(g, n), NEW pending
  PROVE  Good(Ended(g, pending), n - 1)
<1>1. Good(label(targets(g, pending, g.label)), n)
  BY LabelTargets
<1> QED BY <1>1, ExitGood DEF Ended

LEMMA EndLoopStep ==
  ASSUME Writing, EndWhile \/ EndDo
  PROVE  Writing'
<1> DEFINE n == Depth(open)
           begin == Last(m_lsStack).loop_begin
           pending == Last(m_lsStack).pending_end_label
<1>1. /\ Top.kind \in {"while", "do"} /\ Top.kind # "function"
      /\ m_lsStack' = Front(m_lsStack) /\ open' = Front(open) /\ phase' = phase
  BY DEF EndWhile, EndDo, Closes, Compiling
<1>2. /\ n \in Nat /\ n > 3 /\ Turns(open) > 0 /\ Turns(open) \in Nat
      /\ Framed(open') /\ Turns(open') = Turns(open) - 1 /\ Depth(open') = n - 2
  <2>1. open[Len(open)].kind \in {"while", "do"} /\ open[Len(open)].kind # "function" /\ Framed(open)
    BY <1>1 DEF Writing, Top, Last
  <2> QED BY <1>1, <2>1, FrameTypes, ClosedFrames
<1>3. /\ m_lsStack' \in Seq(Loops) /\ Len(m_lsStack') = Turns(open')
      /\ begin \in Nat
  <2>1. m_lsStack \in Seq(Loops) /\ Len(m_lsStack) = Turns(open)
    BY DEF Writing
  <2>2. Last(m_lsStack) \in Loops
    BY <1>2, <2>1 DEF Last
  <2>3. Front(m_lsStack) \in Seq(Loops) /\ Len(Front(m_lsStack)) = Len(m_lsStack) - 1
    BY <1>2, <2>1 DEF Front
  <2>4. begin \in Nat
    BY <2>2 DEF Loops
  <2> QED BY <1>1, <1>2, <2>1, <2>3, <2>4
<1>4. Good(exit(Draft, NoId), n - 1)
  BY <1>1, BodyExit
<1>5. /\ n - 1 \in Nat \ {0} /\ n - 1 > 1 /\ (n - 1) - 1 = n - 2
      /\ n \in Nat \ {0} /\ n > 1 /\ (n - 1) + 1 = n
  BY <1>2
<1> HIDE DEF n, begin
<1>6. \E g : Becomes(g) /\ Good(g, n - 2)
  <2>1. CASE EndWhile
    <3> DEFINE body == exit(Draft, NoId)
               Next0(modifier) == Maybe(LAMBDA g : exit(temporary(enter(g)), NoId), modifier, body)
    <3>1. PICK modifier \in BOOLEAN : Becomes(Ended(addJump(Next0(modifier), "jump", <<begin>>), pending))
      BY <2>1 DEF EndWhile, begin
    <3>2. Good(Next0(modifier), n - 1)
      <4>1. Good(enter(body), n)
        BY <1>4, <1>5, EnterGood
      <4>2. Good(temporary(enter(body)), n)
        BY <1>5, <4>1, TemporaryGood
      <4>3. Good(exit(temporary(enter(body)), NoId), n - 1)
        BY <1>5, <4>2, ExitGood
      <4> QED BY <1>4, <4>3 DEF Maybe
    <3> HIDE DEF Next0
    <3>3. Good(addJump(Next0(modifier), "jump", <<begin>>), n - 1)
      BY <1>3, <3>2, JumpTo
    <3>4. Good(Ended(addJump(Next0(modifier), "jump", <<begin>>), pending), (n - 1) - 1)
      BY <1>5, <3>3, EndedGood
    <3>5. Good(Ended(addJump(Next0(modifier), "jump", <<begin>>), pending), n - 2)
      BY <1>5, <3>4
    <3> QED BY <3>1, <3>5
  <2>2. CASE EndDo
    <3> DEFINE cond == exit(enter(exit(Draft, NoId)), NoId)
               all == pending \cup {Len(cond.code) + 1}
    <3>1. Becomes(Ended(addJump(cond, "branch", <<begin>>), all))
      BY <2>2 DEF EndDo, begin
    <3>2. Good(cond, n - 1)
      <4>1. Good(enter(exit(Draft, NoId)), n)
        BY <1>4, <1>5, EnterGood
      <4> QED BY <1>5, <4>1, ExitGood
    <3> HIDE DEF cond
    <3>3. Good(addJump(cond, "branch", <<begin>>), n - 1)
      BY <1>3, <3>2, JumpTo
    <3>4. Good(Ended(addJump(cond, "branch", <<begin>>), all), (n - 1) - 1)
      BY <1>5, <3>3, EndedGood
    <3>5. Good(Ended(addJump(cond, "branch", <<begin>>), all), n - 2)
      BY <1>5, <3>4
    <3> QED BY <3>1, <3>5
  <2> QED BY <2>1, <2>2
<1>7. PICK g : Becomes(g) /\ Good(g, n - 2)
  BY <1>6
<1>8. Draft' = g
  BY <1>7, BecomesDraft, GoodTypes
<1> QED BY <1>1, <1>2, <1>3, <1>7, <1>8 DEF Writing, n

(* Scopes without live objects have no objects.                            *)
LEMMA NothingLive ==
  ASSUME NEW s \in Seq(Scopes), NEW m \in Nat \ {0}, Live(s, m) = {}
  PROVE  \A i \in m .. Len(s) : Len(s[i].stackObjs) = 0
<1> SUFFICES ASSUME NEW i \in m .. Len(s) PROVE Len(s[i].stackObjs) = 0
  OBVIOUS
<1>1. ToSet(s[i].stackObjs) = {}
  BY DEF Live
<1>2. s[i] \in Scopes
  <2>1. i \in 1 .. Len(s)
    OBVIOUS
  <2> QED BY <2>1
<1> DEFINE objs == s[i].stackObjs
<1>3. objs \in Seq(Nat)
  BY <1>2 DEF Scopes
<1>4. \A k \in DOMAIN objs : objs[k] \in ToSet(objs)
  BY DEF ToSet
<1>5. ToSet(objs) = {}
  BY <1>1
<1> HIDE DEF objs
<1>6. DOMAIN objs = 1 .. Len(objs) /\ Len(objs) \in Nat
  BY <1>3
<1>7. Len(objs) = 0
  BY <1>4, <1>5, <1>6
<1> QED BY <1>7 DEF objs

(* A loop left early, without objects left behind, is left without code.   *)
LEMMA LeftGood ==
  ASSUME Writing, m_lsStack # <<>>, LeftLoop, "early" \notin history'
  PROVE  Good(Left(Draft), Depth(open)) /\ Last(m_lsStack) \in Loops
<1> DEFINE m == Last(m_lsStack).outer_scope
<1>1. Last(m_lsStack) \in Loops /\ m \in Nat \ {0}
  <2>1. m_lsStack \in Seq(Loops)
    BY DEF Writing
  <2>2. Last(m_lsStack) \in Loops
    BY <2>1 DEF Last
  <2> QED BY <2>2 DEF Loops
<1>2. Live(m_scopes, m) = {}
  BY DEF LeftLoop
<1> HIDE DEF m
<1>3. Good(Draft, Depth(open)) /\ Draft.scopes = m_scopes
  BY DraftGood
<1>4. Draft \in Drafts /\ m_scopes \in Seq(Scopes) /\ Draft.code \in Seq(Codes)
  BY <1>3, GoodTypes
<1>5. emitScopeExitInstructions(m_scopes, m, NoId) = <<>>
  <2>1. \A i \in m .. Len(m_scopes) : Len(m_scopes[i].stackObjs) = 0
    BY <1>1, <1>2, <1>4, NothingLive
  <2> QED BY <1>1, <1>4, <2>1, EmptyScopesExit
<1>6. Left(Draft) = [Draft EXCEPT !.code = @ \o <<>>]
  BY <1>3, <1>5 DEF Left, m
<1>7. Draft.code \o <<>> = Draft.code
  BY <1>4, ConcatEmptySeq
<1>8. Left(Draft) = Draft
  BY <1>4, <1>6, <1>7 DEF Drafts
<1> QED BY <1>1, <1>3, <1>8

LEMMA ContinueStep ==
  ASSUME Writing, Continue, "early" \notin history'
  PROVE  Writing'
<1> DEFINE begin == Last(m_lsStack).loop_begin
           g == addJump(Left(Draft), "jump", <<begin>>)
<1>1. /\ m_lsStack # <<>> /\ LeftLoop /\ Becomes(g)
      /\ open' = Filled /\ m_lsStack' = m_lsStack /\ phase' = phase
  BY DEF Continue, Simple, Compiling
<1>2. Good(Left(Draft), Depth(open)) /\ begin \in Nat
  BY <1>1, LeftGood DEF Loops
<1>3. Good(g, Depth(open))
  BY <1>2, JumpTo
<1> HIDE DEF g
<1> QED BY <1>1, <1>3, WritingSimple DEF Writing

LEMMA BreakStep ==
  ASSUME Writing, Break, "early" \notin history'
  PROVE  Writing'
<1> DEFINE g == addJump(Left(Draft), "jump", <<>>)
           k == Len(m_lsStack)
           l == [m_lsStack[k] EXCEPT !.pending_end_label = @ \cup {Len(g.code)}]
<1>1. /\ m_lsStack # <<>> /\ LeftLoop /\ Becomes(g) /\ open' = Filled /\ phase' = phase
      /\ m_lsStack' = [m_lsStack EXCEPT ![k] = l]
  BY DEF Break, Compiling
<1>2. Good(Left(Draft), Depth(open))
  BY <1>1, LeftGood
<1>3. Good(g, Depth(open))
  BY <1>2, JumpLater
<1> HIDE DEF g
<1>4. Len(g.code) \in Nat
  BY <1>3, GoodTypes
<1>5. m_lsStack \in Seq(Loops) /\ m_lsStack[k] \in Loops
  <2>1. m_lsStack \in Seq(Loops)
    BY DEF Writing
  <2> QED BY <1>1, <2>1
<1>6. l \in Loops
  BY <1>4, <1>5 DEF Loops
<1> HIDE DEF l
<1>7. m_lsStack' \in Seq(Loops) /\ Len(m_lsStack') = Len(m_lsStack)
  BY <1>1, <1>5, <1>6
<1> QED BY <1>1, <1>3, <1>7, WritingSimple

LEMMA ReturnStep ==
  ASSUME Writing, Return, "early" \notin history'
  PROVE  Writing'
<1> DEFINE g == emitReturnInstructions(Draft)
           h == add(g, "ret", NoId)
<1>1. /\ Becomes(h) /\ open' = Filled /\ m_lsStack' = m_lsStack /\ phase' = phase
      /\ Live(m_scopes, 1) = {}
  BY DEF Return, Simple, Compiling
<1>2. /\ Good(Draft, Depth(open)) /\ Draft.scopes = m_scopes /\ Depth(open) \in Nat \ {0}
  BY DraftGood
<1>3. m_scopes \in Seq(Scopes) /\ Len(m_scopes) = Depth(open)
  BY <1>2, GoodTypes
<1>4. \A i \in 1 .. Depth(open) : Len(Draft.scopes[i].stackObjs) = 0
  BY <1>1, <1>2, <1>3, NothingLive
<1>5. Good(g, Depth(open))
  BY <1>2, <1>4, ReturnGood
<1> HIDE DEF g
<1>6. "ret" \in Ops \ {"free"} /\ NoId \in Nat
  BY DEF Ops, NoId
<1>7. Good(h, Depth(open))
  BY <1>5, <1>6, AddGood
<1> HIDE DEF h
<1> QED BY <1>1, <1>7, WritingSimple DEF Writing

LEMMA EndFunctionStep ==
  ASSUME Writing, EndFunction
  PROVE  Written'
<1> DEFINE block == exit(Draft, NoId)
           returned == add(emitReturnInstructions(block), "ret", NoId)
           closed == IF block.code # <<>> /\ Last(block.code).op = "ret" THEN block ELSE returned
<1>1. Top.kind = "function" /\ Becomes(exit(closed, NoId)) /\ phase' = "run"
  BY DEF EndFunction, Closes
<1>2. Good(Draft, 2)
  <2>1. Good(Draft, Depth(open)) /\ Framed(open)
    BY DraftGood
  <2>2. Depth(open) = 2
    BY <1>1, <2>1, FrameTypes DEF Top, Last
  <2> QED BY <2>1, <2>2
<1>3. Good(block, 1)
  <2>1. Good(block, 2 - 1)
    BY <1>2, ExitGood
  <2> QED BY <2>1
<1> HIDE DEF block
<1>4. exit(closed, NoId).code \in Seq(Codes) /\ FreesOK(exit(closed, NoId).code)
  <2>1. CASE closed = block
    <3>1. Good(exit(block, NoId), 1 - 1)
      BY <1>3, ExitGood
    <3> QED BY <2>1, <3>1, GoodTypes DEF Good
  <2>2. CASE closed = returned
    BY <1>3, <2>2, ReturnLast
  <2> QED BY <2>1, <2>2
<1>5. m_instructions' = exit(closed, NoId).code
  BY <1>1 DEF Becomes
<1> QED BY <1>1, <1>4, <1>5 DEF Written

-----------------------------------------------------------------------------
(* The theorem                                                             *)

(* Compiling never loses sight of the early exits there were.              *)
LEMMA HistoryGrows ==
  ASSUME Next, "early" \in history
  PROVE  "early" \in history'
<1>1. CASE Compile
  BY <1>1 DEF Compile, Expression, Declare, DeclareEmpty, Use, Conditional, If, IfKnown, EndThen, Else,
    EndElse, EndChosen, Block, EndBlock, Loop, EndWhile, EndDo, Continue, Break, Return, EndFunction,
    Closes, LeftLoop
<1>2. CASE Run
  BY <1>2 DEF Run, compileVars
<1> QED BY <1>1, <1>2 DEF Next

(* Statements are only compiled before the function runs.                  *)
LEMMA CompileFirst ==
  ASSUME Compile
  PROVE  phase = "compile"
BY DEF Compile, Expression, Declare, DeclareEmpty, Use, Conditional, If, IfKnown, EndThen, Else,
  EndElse, EndChosen, Block, EndBlock, Loop, EndWhile, EndDo, Continue, Break, Return, EndFunction,
  Closes, Takes

LEMMA InitInvariant ==
  ASSUME Init
  PROVE  Writing
<1> DEFINE fresh == [stackObjs |-> <<>>, didReturn |-> FALSE]
           frame == Frame("function", 0)
<1>1. fresh \in Scopes /\ Len(fresh.stackObjs) = 0
  BY DEF Scopes
<1>2. frame \in Frames /\ frame.kind = "function"
  BY DEF Frame, Frames
<1>3. /\ m_scopes = [i \in 1 .. 2 |-> fresh] /\ m_instructions = <<>> /\ m_nextLabelId = 1
      /\ m_nextAllocId = 1 /\ open = <<frame>> /\ m_lsStack = <<>> /\ phase = "compile"
  BY DEF Init
<1> HIDE DEF fresh, frame
<1>4. m_scopes \in Seq(Scopes) /\ Len(m_scopes) = 2 /\ \A i \in 1 .. 2 : m_scopes[i] = fresh
  <2>1. m_scopes \in [1 .. 2 -> Scopes]
    BY <1>1, <1>3
  <2> QED BY <1>3, <2>1, IsASeq, LenProperties
<1>5. Draft \in Drafts /\ Draft.scopes = m_scopes /\ Draft.code = <<>> /\ Draft.id = 1
  BY <1>3, <1>4 DEF Draft, Drafts
<1>6. Places(m_scopes) = {}
  BY <1>1, <1>4 DEF Places
<1>7. FreesOK(<<>>)
  BY DEF FreesOK
<1>8. Good(Draft, 2)
  BY <1>4, <1>5, <1>6, <1>7 DEF Good, NoId
<1>9. open \in Seq(Frames) /\ Len(open) = 1 /\ open[1] = frame
  BY <1>2, <1>3
<1>10. Framed(open)
  BY <1>2, <1>9 DEF Framed
<1>11. Turns(open) = 0 /\ Depth(open) = 2
  <2>1. LoopFrames(open) = {}
    BY <1>2, <1>9 DEF LoopFrames
  <2> QED BY <1>9, <2>1, FS_EmptySet DEF Turns, Depth
<1>12. m_lsStack \in Seq(Loops) /\ Len(m_lsStack) = 0
  BY <1>3
<1> QED BY <1>3, <1>8, <1>10, <1>11, <1>12 DEF Writing

LEMMA CompileKeeps ==
  ASSUME Writing, Compile, "early" \notin history'
  PROVE  Writing' \/ Written'
<1>1. CASE Expression
  BY <1>1, ExpressionStep
<1>2. CASE Declare
  BY <1>2, DeclareStep
<1>3. CASE DeclareEmpty
  BY <1>3, DeclareEmptyStep
<1>4. CASE Use
  BY <1>4, UseStep
<1>5. CASE Conditional
  BY <1>5, ConditionalStep
<1>6. CASE If
  BY <1>6, IfStep
<1>7. CASE IfKnown
  BY <1>7, IfKnownStep
<1>8. CASE EndThen
  BY <1>8, EndThenStep
<1>9. CASE Else
  BY <1>9, ElseStep
<1>10. CASE EndElse
  BY <1>10, EndElseStep
<1>11. CASE EndChosen \/ EndBlock
  BY <1>11, EndBodyStep
<1>12. CASE Block
  BY <1>12, BlockStep
<1>13. CASE Loop
  BY <1>13, LoopStep
<1>14. CASE EndWhile \/ EndDo
  BY <1>14, EndLoopStep
<1>15. CASE Continue
  BY <1>15, ContinueStep
<1>16. CASE Break
  BY <1>16, BreakStep
<1>17. CASE Return
  BY <1>17, ReturnStep
<1>18. CASE EndFunction
  BY <1>18, EndFunctionStep
<1> QED BY <1>1, <1>2, <1>3, <1>4, <1>5, <1>6, <1>7, <1>8, <1>9, <1>10, <1>11, <1>12, <1>13, <1>14,
           <1>15, <1>16, <1>17, <1>18 DEF Compile

LEMMA NextKeeps ==
  ASSUME IInv, [Next]_vars
  PROVE  IInv'
<1>1. CASE UNCHANGED vars
  BY <1>1 DEF IInv, Writing, Written, Draft, vars, compileVars, runVars
<1>2. CASE Next
  <2>1. CASE "early" \in history'
    BY <2>1 DEF IInv
  <2>2. CASE "early" \notin history'
    <3>1. Writing \/ Written
      BY <1>2, <2>2, HistoryGrows DEF IInv
    <3>2. CASE Run
      BY <3>1, <3>2 DEF Run, compileVars, IInv, Writing, Written, Draft
    <3>3. CASE Compile
      <4>1. Writing
        BY <3>1, <3>3, CompileFirst DEF Written
      <4> QED BY <2>2, <3>3, <4>1, CompileKeeps DEF IInv
    <3> QED BY <1>2, <3>2, <3>3 DEF Next
  <2> QED BY <2>1, <2>2
<1> QED BY <1>1, <1>2

(* While a function is compiled, every object of an open scope holds its   *)
(* slot in text order and is in one place only; when it runs, its code     *)
(* frees only slots that are held.  Unless an early exit left objects.     *)
THEOREM Invariant == Spec => []IInv
<1>1. Init => IInv
  BY InitInvariant DEF IInv
<1>2. IInv /\ [Next]_vars => IInv'
  BY NextKeeps
<1> QED BY <1>1, <1>2, PTL DEF Spec

(* The fold that gives the slots held has all that HeldAt finds.           *)
LEMMA HeldAtBefore ==
  ASSUME m_instructions \in Seq(Codes), NEW a \in 1 .. Len(m_instructions), NEW id,
         HeldAt(m_instructions, a, id)
  PROVE  id \in HeldBefore(a)
<1> DEFINE c == m_instructions
           sub == SubSeq(c, 1, a - 1)
           n == a - 1
           V == SUBSET Nat
           After(held, i) ==
             IF i.op = "alloc" THEN held \cup {i.id} ELSE IF i.op = "free" THEN held \ {i.id} ELSE held
           D == 1 .. n
           pick == [s \in SUBSET D |-> Max(s)]
           G == [p \in D \X V |-> After(p[2], sub[p[1]])]
           Iter(f) == f = [s \in SUBSET D |->
             IF s = {} THEN {} ELSE After(f[s \ {Max(s)}], sub[Max(s)])]
           f == CHOOSE f : Iter(f)
<1>1. n \in Nat /\ Len(sub) = n /\ DOMAIN sub = D /\ \A i \in D : sub[i] = c[i] /\ sub[i] \in Codes
  <2>1. sub \in Seq(Codes) /\ Len(sub) = n /\ \A i \in D : sub[i] = c[i]
    BY SubSeqProperties
  <2> QED BY <2>1
<1>2. HeldBefore(a) = f[D]
  BY <1>1 DEF HeldBefore, FoldLeft, MapThenFoldSet
<1> HIDE DEF sub
<1>3. \A s \in SUBSET D : s # {} => Max(s) \in s /\ Max(s) \in D /\ s \ {Max(s)} \in SUBSET D
  BY <1>1, MinMaxIn
<1>4. \E g : Iter(g)
  <2> DEFINE b == {}
  <2>1. IsFiniteSet(D) /\ b \in V
    BY <1>1, FS_Interval
  <2>2. Picks(pick, D)
    BY <1>3 DEF Picks
  <2>3. Adds(G, D, V)
    <3>1. ASSUME NEW x \in D, NEW v \in V PROVE G[<<x, v>>] = After(v, sub[x]) /\ After(v, sub[x]) \in V
      BY <1>1 DEF Codes
    <3> QED BY <3>1 DEF Adds
  <2>4. PICK g \in [SUBSET D -> V] : IsFold(g, D, b, pick, G)
    <3> HIDE DEF D, V, pick, G, b
    <3> QED BY ONLY <2>1, <2>2, <2>3, FoldExists, Zenon
  <2>5. ASSUME NEW s \in SUBSET D
        PROVE  g[s] = IF s = {} THEN {} ELSE After(g[s \ {Max(s)}], sub[Max(s)])
    <3>1. CASE s = {}
      BY <2>4, <3>1 DEF IsFold
    <3>2. CASE s # {}
      <4>1. pick[s] = Max(s) /\ Max(s) \in D /\ g[s \ {Max(s)}] \in V
        BY <1>3, <2>4, <3>2
      <4>2. g[s] = G[<<pick[s], g[s \ {pick[s]}]>>]
        BY <2>4, <3>2 DEF IsFold
      <4>3. G[<<Max(s), g[s \ {Max(s)}]>>] = After(g[s \ {Max(s)}], sub[Max(s)])
        BY <4>1
      <4> HIDE DEF After, G, pick
      <4> QED BY <3>2, <4>1, <4>2, <4>3
    <3> QED BY <3>1, <3>2
  <2>6. g = [s \in SUBSET D |-> g[s]]
    BY <2>4
  <2>7. Iter(g)
    BY <2>5, <2>6
  <2> QED BY <2>7
<1>5. Iter(f)
  BY <1>4
<1> HIDE DEF f, pick, G
<1> DEFINE T == {k \in 0 .. n : \A x : HeldAt(c, k + 1, x) => x \in f[1 .. k]}
<1>6. 0 \in T
  <2>1. \A x : ~HeldAt(c, 0 + 1, x)
    BY DEF HeldAt
  <2> QED BY <1>1, <2>1
<1>7. ASSUME NEW k \in 0 .. n - 1, k \in T PROVE k + 1 \in T
  <2>1. k + 1 \in 0 .. n /\ k + 1 \in D /\ 1 .. k + 1 \in SUBSET D /\ 1 .. k + 1 # {} /\ k \in Nat
    <3>1. k + 1 \in 0 .. n /\ k + 1 \in D /\ k \in Nat /\ k + 1 \in 1 .. k + 1
      BY <1>1
    <3>2. \A i \in 1 .. k + 1 : i \in D
      BY <1>1
    <3> QED BY <3>1, <3>2
  <2>2. Max(1 .. k + 1) = k + 1 /\ (1 .. k + 1) \ {k + 1} = 1 .. k
    <3>1. 1 \in Int /\ k + 1 \in Int /\ 1 <= k + 1 /\ (k + 1) - 1 = k
      BY <2>1
    <3> QED BY <3>1, FirstAndLast
  <2>3. f[1 .. k + 1] = After(f[1 .. k], c[k + 1])
    <3>1. f[1 .. k + 1] = After(f[1 .. k], sub[k + 1])
      <4> HIDE DEF After
      <4> QED BY <1>5, <2>1, <2>2
    <3> QED BY <1>1, <2>1, <3>1
  <2>4. ASSUME NEW x, HeldAt(c, (k + 1) + 1, x) PROVE x \in f[1 .. k + 1]
    <3>1. PICK b \in 1 .. k + 1 : /\ c[b].op = "alloc" /\ c[b].id = x
                                  /\ \A d \in b + 1 .. k + 1 : ~(c[d].op = "free" /\ c[d].id = x)
      <4>1. ((k + 1) + 1) - 1 = k + 1
        BY <2>1
      <4> QED BY <2>4, <4>1 DEF HeldAt
    <3>2. CASE b = k + 1
      BY <2>3, <3>1, <3>2
    <3>3. CASE b # k + 1
      <4>1. b \in 1 .. k /\ (k + 1) - 1 = k /\ k + 1 \in b + 1 .. k + 1
        BY <2>1, <3>3
      <4>2. \A d \in b + 1 .. k : d \in b + 1 .. k + 1
        BY <2>1
      <4>3. HeldAt(c, k + 1, x)
        BY <3>1, <4>1, <4>2 DEF HeldAt
      <4>4. x \in f[1 .. k]
        BY <1>7, <4>3
      <4>5. ~(c[k + 1].op = "free" /\ c[k + 1].id = x)
        BY <3>1, <4>1
      <4> QED BY <2>3, <4>4, <4>5
    <3> QED BY <3>2, <3>3
  <2> QED BY <2>1, <2>4
<1>8. 0 .. n \subseteq T
  <2> HIDE DEF T
  <2>1. \A k \in 0 .. n - 1 : k \in T => k + 1 \in T
    BY <1>7
  <2>2. 0 \in Int /\ n \in Int
    BY <1>1
  <2> QED BY ONLY <1>6, <2>1, <2>2, UpInduction
<1>9. n \in T /\ n + 1 = a
  BY <1>1, <1>8
<1> QED BY <1>2, <1>9

(* When code is generated for a function, in text order, every slot that   *)
(* is freed is held (StackManager::free asserts it), unless an early exit  *)
(* left objects behind: whatever statements the function has, however      *)
(* deep, and with any number of objects.                                   *)
THEOREM FreesAreHeld == Spec => []FreesHeldApart
<1>1. IInv => FreesHeldApart
  <2> SUFFICES ASSUME IInv, "early" \notin history, phase = "run", pc = 1,
                      NEW a \in DOMAIN m_instructions, m_instructions[a].op = "free"
               PROVE  m_instructions[a].id \in HeldBefore(a)
    BY DEF FreesHeldApart, FreesHeld
  <2>1. m_instructions \in Seq(Codes) /\ FreesOK(m_instructions)
    BY DEF IInv, Writing, Written
  <2>2. a \in 1 .. Len(m_instructions)
    BY <2>1
  <2>3. HeldAt(m_instructions, a, m_instructions[a].id)
    BY <2>1, <2>2 DEF FreesOK
  <2> QED BY <2>1, <2>2, <2>3, HeldAtBefore
<1> QED BY <1>1, Invariant, PTL

=============================================================================
