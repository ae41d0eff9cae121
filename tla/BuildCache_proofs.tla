------------------------- MODULE BuildCache_proofs -------------------------
(***************************************************************************)
(* Proofs about BuildCache, for any workspace of finitely many scripts and *)
(* templates, any imports, edits, crashes and restarts.                    *)
(*                                                                         *)
(* The inductive invariant describes the stack of builds.  Each frame is   *)
(* of a module that the frame below it asks for, and a frame asks only for *)
(* what its script imports (Uses), which holds of cache files as well; so  *)
(* a path that is on the stack twice makes a cycle of imports.  And what a *)
(* frame relies on, its own module and those it has been given, stays      *)
(* registered and is not built again above it.                             *)
(***************************************************************************)
EXTENDS BuildCache, SequenceLemmas

(* What a build of p may ask for when scripts import what g says: what p   *)
(* imports, the templates of what it imports, or for a template the script *)
(* that declares it.                                                       *)
Uses(g, p) ==
  IF p \in Templates THEN {Origin[p]}
  ELSE {q \in ToSet(g[p]) : q \in Scripts \/ Origin[q] \in ToSet(g[p])}

(* Frame f has an import left to load.                                     *)
ImportsLeft(g, f) ==
  /\ f.path \in Scripts
  /\ f.i <= Len(g[f.path])
  /\ g[f.path][f.i] \in Scripts

(* Frame f waits for the module p.                                         *)
AsksDep(f, p) ==
  f.pc = "deps" /\ ~f.entry.torn /\ f.i <= Len(f.entry.deps) /\ p = f.entry.deps[f.i].path
AsksImport(g, f, p) == f.pc = "imports" /\ ImportsLeft(g, f) /\ p = g[f.path][f.i]
AsksTemplate(g, f, p) ==
  /\ f.pc = "imports" /\ ~ImportsLeft(g, f)
  /\ p \in Templates \cap Uses(g, f.path) /\ Origin[p] \in ToSet(f.deps)

Asks(g, f, p) == AsksDep(f, p) \/ AsksImport(g, f, p) \/ AsksTemplate(g, f, p)

(* Frame h builds what f waits for, and was made by the call f has made.   *)
AskedBy(g, f, h) ==
  \/ AsksDep(f, h.path) /\ h.caller \in {"load", "dependency"}
  \/ AsksImport(g, f, h.path) /\ h.caller = "load"
  \/ AsksTemplate(g, f, h.path) /\ h.caller = "specialize"

FrameOK(g, src, f) ==
  /\ f.pc \in {"load", "source"} => f.caller = "load"
  /\ f.pc = "remake" => f.caller = "specialize"
  /\ f.caller = "load" <=> f.path \in Scripts
  /\ f.path \in Scripts => src[f.path] # NoFile
  /\ ToSet(f.deps) \subseteq Uses(g, f.path)
  /\ f.pc \in {"deps", "read"} =>
       f.entry # NoFile /\ \A d \in ToSet(f.entry.deps) : d.path \in Uses(g, f.path)

StackShape(g, src, s) ==
  /\ \A n \in 1 .. Len(s) : FrameOK(g, src, s[n])
  /\ \A n \in 1 .. Len(s) - 1 : AskedBy(g, s[n], s[n + 1])
  /\ s # <<>> => s[1].caller = "load"

(* What a frame needs to stay registered: its module, and those it has     *)
(* been given.                                                             *)
Registered(f) == f.pc \in {"imports", "save", "read"}

Relies(f) == ToSet(f.deps) \cup (IF Registered(f) THEN {f.path} ELSE {})

StackRelies(s, idx) ==
  \A n \in 1 .. Len(s) : \A d \in Relies(s[n]) :
    idx[d] # 0 /\ \A above \in n + 1 .. Len(s) : s[above].path # d

-----------------------------------------------------------------------------
(* The parts of the inductive invariant                                    *)

StackOK == StackShape(imports, source, stack)

ReliesOK == StackRelies(stack, m_moduleIndices)

CacheOK ==
  \A p \in Paths : cache[p] # NoFile =>
    /\ p \in Scripts => source[p] # NoFile
    /\ \A d \in ToSet(cache[p].deps) : d.path \in Uses(imports, p)

(* An answer is for the frame on top, and names a module that is there.    *)
AnswerOK ==
  /\ returned \in Paths => m_moduleIndices[returned] # 0
  /\ returned # Nothing /\ stack # <<>> =>
       /\ Top.pc \in {"deps", "imports"}
       /\ returned \in Paths => Asks(imports, Top, returned)
       /\ returned = Failed => Top.pc = "deps" \/ ImportsLeft(imports, Top)

(* What has just been decided on still holds when the next step uses it.   *)
TopOK ==
  stack # <<>> =>
    /\ Top.pc = "load" => m_moduleIndices[Top.path] = 0
    /\ Top.pc = "cached" => cache[Top.path] # NoFile
    /\ Top.pc = "read" => m_moduleIndices[Top.path] = Len(m_modules)

(* The index finds modules of the right path, and all of them.             *)
IndexOK ==
  /\ \A p \in ModuleIds : m_moduleIndices[p] \in 1 .. Len(m_modules) /\ m_modules[m_moduleIndices[p]] = p
  /\ \A k \in 1 .. Len(m_modules) : m_moduleIndices[m_modules[k]] = k

IInv == TypeOK /\ StackOK /\ CacheOK /\ AnswerOK /\ TopOK /\ ReliesOK /\ IndexOK

-----------------------------------------------------------------------------
(* The stack                                                               *)

LEMMA GraphFacts ==
  ASSUME NEW g \in ImportGraphs
  PROVE  /\ \A p \in Scripts : g[p] \in Seq(Paths)
         /\ \A p \in Paths : Uses(g, p) \subseteq Paths
         /\ \A p \in Paths : p \in Scripts <=> p \notin Templates
         /\ \A t \in Templates : Origin[t] \in Scripts
<1>1. /\ \A p \in Scripts : g[p] \in Seq(Paths)
      /\ \A p \in Paths : p \in Scripts <=> p \notin Templates
      /\ \A t \in Templates : Origin[t] \in Scripts
  BY GraphAssumption DEF Paths
<1>2. ASSUME NEW p \in Paths PROVE Uses(g, p) \subseteq Paths
  <2>1. CASE p \in Templates
    BY <2>1, <1>1 DEF Uses, Paths
  <2>2. CASE p \notin Templates
    <3>1. g[p] \in Seq(Paths)
      BY <2>2, <1>1
    <3>2. ToSet(g[p]) \subseteq Paths
      BY <3>1, ElementOfSeq DEF ToSet
    <3> QED BY <3>2, <2>2 DEF Uses
  <2> QED BY <2>1, <2>2
<1> QED BY <1>1, <1>2

LEMMA ReplaceTop ==
  ASSUME NEW S, NEW s \in Seq(S), s # <<>>, NEW f \in S
  PROVE  LET t == [s EXCEPT ![Len(s)] = f]
         IN  /\ Len(s) \in Nat /\ Len(s) > 0 /\ s[Len(s)] \in S
             /\ t \in Seq(S) /\ t # <<>> /\ Len(t) = Len(s) /\ t[Len(s)] = f
             /\ \A n \in 1 .. Len(s) - 1 : t[n] = s[n]
<1>1. Len(s) \in Nat /\ Len(s) > 0 /\ Len(s) \in 1 .. Len(s)
  BY LenProperties, EmptySeq
<1>2. s[Len(s)] \in S
  BY <1>1, ElementOfSeq
<1> DEFINE t == [s EXCEPT ![Len(s)] = f]
<1>3. t \in Seq(S) /\ Len(t) = Len(s) /\ \A n \in 1 .. Len(s) : t[n] = IF n = Len(s) THEN f ELSE s[n]
  BY <1>1, ExceptSeq
<1> HIDE DEF t
<1>4. t # <<>>
  BY <1>1, <1>3, EmptySeq
<1>5. \A n \in 1 .. Len(s) - 1 : t[n] = s[n]
  BY <1>1, <1>3
<1>6. t[Len(s)] = f
  BY <1>1, <1>3
<1> QED BY <1>1, <1>2, <1>3, <1>4, <1>5, <1>6 DEF t

LEMMA PushTop ==
  ASSUME NEW S, NEW s \in Seq(S), NEW f \in S
  PROVE  LET t == Append(s, f)
         IN  /\ t \in Seq(S) /\ t # <<>> /\ Len(t) = Len(s) + 1 /\ Len(s) \in Nat
             /\ t[Len(s) + 1] = f
             /\ \A n \in 1 .. Len(s) : t[n] = s[n]
  BY AppendProperties, LenProperties, EmptySeq

LEMMA PopTop ==
  ASSUME NEW S, NEW s \in Seq(S), s # <<>>
  PROVE  LET t == Front(s)
         IN  /\ t \in Seq(S) /\ Len(t) = Len(s) - 1 /\ Len(s) \in Nat /\ Len(s) > 0
             /\ \A n \in 1 .. Len(s) - 1 : t[n] = s[n]
<1>1. Len(s) \in Nat /\ Len(s) > 0
  BY LenProperties, EmptySeq
<1> DEFINE n == Len(s) - 1
<1>2. n \in 0 .. Len(s) /\ 1 \in 1 .. Len(s) + 1 /\ 1 <= n + 1
  BY <1>1
<1>3. Front(s) = SubSeq(s, 1, n)
  BY DEF Front
<1> HIDE DEF n
<1>4. /\ SubSeq(s, 1, n) \in Seq(S)
      /\ Len(SubSeq(s, 1, n)) = n - 1 + 1
      /\ \A j \in 1 .. n - 1 + 1 : SubSeq(s, 1, n)[j] = s[1 + j - 1]
  BY <1>2, SubSeqProps
<1>5. n - 1 + 1 = n /\ \A j \in 1 .. n : 1 + j - 1 = j
  BY <1>2, <1>1
<1>6. Len(Front(s)) = n /\ \A j \in 1 .. n : Front(s)[j] = s[j]
  BY <1>3, <1>4, <1>5
<1> QED BY <1>1, <1>3, <1>4, <1>6 DEF n

(* The frame on top is replaced by one of the same module.                 *)
LEMMA ShapeReplace ==
  ASSUME NEW g, NEW src, NEW s \in Seq(Frames), s # <<>>, StackShape(g, src, s),
         NEW f \in Frames, f.path = s[Len(s)].path, f.caller = s[Len(s)].caller,
         FrameOK(g, src, f)
  PROVE  StackShape(g, src, [s EXCEPT ![Len(s)] = f])
<1> DEFINE t == [s EXCEPT ![Len(s)] = f]
<1>1. /\ Len(s) \in Nat /\ Len(s) > 0
      /\ t \in Seq(Frames) /\ t # <<>> /\ Len(t) = Len(s) /\ t[Len(s)] = f
      /\ \A n \in 1 .. Len(s) - 1 : t[n] = s[n]
  BY ReplaceTop
<1> HIDE DEF t
<1>2. \A n \in 1 .. Len(t) : FrameOK(g, src, t[n])
  BY <1>1 DEF StackShape
<1>3. ASSUME NEW n \in 1 .. Len(t) - 1 PROVE AskedBy(g, t[n], t[n + 1])
  <2>1. AskedBy(g, s[n], s[n + 1]) /\ t[n] = s[n]
    BY <1>1 DEF StackShape
  <2>2. t[n + 1].path = s[n + 1].path /\ t[n + 1].caller = s[n + 1].caller
    <3>1. CASE n + 1 = Len(s)
      BY <3>1, <1>1
    <3>2. CASE n + 1 # Len(s)
      <4>1. n + 1 \in 1 .. Len(s) - 1
        BY <3>2, <1>1
      <4> QED BY <4>1, <1>1
    <3> QED BY <3>1, <3>2
  <2> QED BY <2>1, <2>2 DEF AskedBy
<1>4. t[1].caller = "load"
  <2>1. s[1].caller = "load"
    BY DEF StackShape
  <2> QED BY <2>1, <1>1
<1> QED BY <1>2, <1>3, <1>4 DEF StackShape, t

LEMMA ShapePush ==
  ASSUME NEW g, NEW src, NEW s \in Seq(Frames), StackShape(g, src, s),
         NEW f \in Frames, FrameOK(g, src, f),
         s = <<>> => f.caller = "load",
         s # <<>> => AskedBy(g, s[Len(s)], f)
  PROVE  StackShape(g, src, Append(s, f))
<1> DEFINE t == Append(s, f)
<1>1. /\ Len(s) \in Nat /\ Len(t) = Len(s) + 1 /\ t[Len(s) + 1] = f
      /\ \A n \in 1 .. Len(s) : t[n] = s[n]
      /\ s = <<>> <=> Len(s) = 0
  BY PushTop, EmptySeq
<1> HIDE DEF t
<1>2. \A n \in 1 .. Len(t) : FrameOK(g, src, t[n])
  BY <1>1 DEF StackShape
<1>3. ASSUME NEW n \in 1 .. Len(t) - 1 PROVE AskedBy(g, t[n], t[n + 1])
  <2>1. CASE n = Len(s)
    BY <2>1, <1>1
  <2>2. CASE n # Len(s)
    <3>1. n \in 1 .. Len(s) - 1 /\ n \in 1 .. Len(s) /\ n + 1 \in 1 .. Len(s)
      BY <2>2, <1>1
    <3> QED BY <3>1, <1>1 DEF StackShape
  <2> QED BY <2>1, <2>2
<1>4. t[1].caller = "load"
  <2>1. CASE s = <<>>
    BY <2>1, <1>1
  <2>2. CASE s # <<>>
    <3>1. s[1].caller = "load" /\ 1 \in 1 .. Len(s)
      BY <2>2, <1>1 DEF StackShape
    <3> QED BY <3>1, <1>1
  <2> QED BY <2>1, <2>2
<1> QED BY <1>2, <1>3, <1>4 DEF StackShape, t

LEMMA ShapePop ==
  ASSUME NEW g, NEW src, NEW s \in Seq(Frames), s # <<>>, StackShape(g, src, s)
  PROVE  LET t == Front(s)
         IN  /\ StackShape(g, src, t)
             /\ t # <<>> => /\ Len(t) = Len(s) - 1 /\ Len(t) > 0
                            /\ AskedBy(g, t[Len(t)], s[Len(s)])
<1> DEFINE t == Front(s)
<1>1. /\ t \in Seq(Frames) /\ Len(t) = Len(s) - 1 /\ Len(s) \in Nat /\ Len(s) > 0
      /\ \A n \in 1 .. Len(s) - 1 : t[n] = s[n]
      /\ t = <<>> <=> Len(t) = 0
  BY PopTop, EmptySeq
<1> HIDE DEF t
<1>2. \A n \in 1 .. Len(t) : FrameOK(g, src, t[n])
  BY <1>1 DEF StackShape
<1>3. ASSUME NEW n \in 1 .. Len(t) - 1 PROVE AskedBy(g, t[n], t[n + 1])
  <2>1. n \in 1 .. Len(s) - 1 /\ n + 1 \in 1 .. Len(s) - 1
    BY <1>1
  <2> QED BY <2>1, <1>1 DEF StackShape
<1>4. t # <<>> => t[1].caller = "load"
  BY <1>1 DEF StackShape
<1>5. ASSUME t # <<>> PROVE AskedBy(g, t[Len(t)], s[Len(s)])
  <2>1. Len(t) \in 1 .. Len(s) - 1 /\ Len(t) + 1 = Len(s)
    BY <1>1, <1>5
  <2> QED BY <2>1, <1>1 DEF StackShape
<1> QED BY <1>1, <1>2, <1>3, <1>4, <1>5 DEF StackShape, t

LEMMA ReliesType ==
  ASSUME NEW f \in Frames
  PROVE  Relies(f) \subseteq Paths /\ ToSet(f.deps) \subseteq Paths
<1>1. f.path \in Paths /\ f.deps \in Seq(Paths)
  BY DEF Frames
<1>2. ToSet(f.deps) \subseteq Paths
  BY <1>1, ElementOfSeq DEF ToSet
<1> QED BY <1>1, <1>2 DEF Relies

(* The frame on top goes or is replaced by one of the same module, and of  *)
(* the index at most the module of that frame is removed.                  *)
LEMMA ReliesTop ==
  ASSUME NEW s \in Seq(Frames), s # <<>>, NEW idx, StackRelies(s, idx),
         NEW t \in Seq(Frames), Len(t) \in {Len(s) - 1, Len(s)},
         \A n \in 1 .. Len(s) - 1 : t[n] = s[n],
         Len(t) = Len(s) => t[Len(s)].path = s[Len(s)].path,
         NEW idx2,
         Len(t) = Len(s) => \A d \in Relies(t[Len(s)]) : idx2[d] # 0,
         \A d \in Paths : idx[d] # 0 /\ d # s[Len(s)].path => idx2[d] # 0
  PROVE  StackRelies(t, idx2)
<1>1. Len(s) \in Nat /\ Len(s) > 0 /\ Len(t) \in Nat
  BY LenProperties, EmptySeq
<1> SUFFICES ASSUME NEW n \in 1 .. Len(t), NEW d \in Relies(t[n])
             PROVE  idx2[d] # 0 /\ \A above \in n + 1 .. Len(t) : t[above].path # d
  BY DEF StackRelies
<1>2. CASE n = Len(s)
  BY <1>1, <1>2
<1>3. CASE n # Len(s)
  <2>1. n \in 1 .. Len(s) - 1 /\ n \in 1 .. Len(s) /\ Len(s) \in n + 1 .. Len(s)
    BY <1>1, <1>3
  <2>2. d \in Relies(s[n]) /\ d \in Paths
    BY <2>1, ReliesType, ElementOfSeq
  <2>3. idx[d] # 0 /\ \A above \in n + 1 .. Len(s) : s[above].path # d
    BY <2>1, <2>2 DEF StackRelies
  <2>4. idx2[d] # 0
    BY <2>1, <2>2, <2>3
  <2>5. ASSUME NEW above \in n + 1 .. Len(t) PROVE t[above].path # d
    <3>1. above \in n + 1 .. Len(s) /\ above \in 1 .. Len(s)
      BY <1>1
    <3>2. CASE above = Len(s)
      <4>1. Len(t) = Len(s)
        BY <3>2, <1>1
      <4> QED BY <4>1, <3>1, <3>2, <2>3
    <3>3. CASE above # Len(s)
      <4>1. above \in 1 .. Len(s) - 1
        BY <3>1, <3>3, <1>1
      <4> QED BY <4>1, <3>1, <2>3
    <3> QED BY <3>2, <3>3
  <2> QED BY <2>4, <2>5
<1> QED BY <1>2, <1>3

(* A frame is pushed for a module that is not registered.                  *)
LEMMA ReliesPush ==
  ASSUME NEW s \in Seq(Frames), NEW idx, StackRelies(s, idx),
         NEW f \in Frames, Relies(f) = {}, idx[f.path] = 0
  PROVE  StackRelies(Append(s, f), idx)
<1> DEFINE t == Append(s, f)
<1>1. /\ Len(s) \in Nat /\ Len(t) = Len(s) + 1 /\ t[Len(s) + 1] = f
      /\ \A n \in 1 .. Len(s) : t[n] = s[n]
  BY PushTop
<1> HIDE DEF t
<1> SUFFICES ASSUME NEW n \in 1 .. Len(t), NEW d \in Relies(t[n])
             PROVE  idx[d] # 0 /\ \A above \in n + 1 .. Len(t) : t[above].path # d
  BY DEF StackRelies, t
<1>2. n \in 1 .. Len(s)
  BY <1>1
<1>3. idx[d] # 0 /\ \A above \in n + 1 .. Len(s) : s[above].path # d
  BY <1>1, <1>2 DEF StackRelies
<1>4. ASSUME NEW above \in n + 1 .. Len(t) PROVE t[above].path # d
  <2>1. above = Len(s) + 1 \/ (above \in n + 1 .. Len(s) /\ above \in 1 .. Len(s))
    BY <1>1
  <2> QED BY <2>1, <1>1, <1>3
<1> QED BY <1>3, <1>4

-----------------------------------------------------------------------------
(* What the operations do to the stack                                     *)

LEMMA TopFacts ==
  ASSUME IInv, stack # <<>>
  PROVE  /\ Len(stack) \in Nat /\ Len(stack) > 0
         /\ stack \in Seq(Frames) /\ Top \in Frames /\ Top.path \in Paths
         /\ FrameOK(imports, source, Top)
         /\ imports \in ImportGraphs
         /\ StackShape(imports, source, stack)
         /\ StackRelies(stack, m_moduleIndices)
         /\ \A d \in Relies(Top) : m_moduleIndices[d] # 0
         /\ m_moduleIndices \in [Paths -> Nat]
<1>1. stack \in Seq(Frames) /\ imports \in ImportGraphs /\ m_moduleIndices \in [Paths -> Nat]
  BY DEF IInv, TypeOK
<1>2. Len(stack) \in Nat /\ Len(stack) > 0 /\ Len(stack) \in 1 .. Len(stack)
  BY <1>1, LenProperties, EmptySeq
<1>3. Top \in Frames /\ Top.path \in Paths
  <2>1. Top \in Frames
    BY <1>1, <1>2, ElementOfSeq DEF Top
  <2> QED BY <2>1 DEF Frames
<1>4. StackShape(imports, source, stack) /\ StackRelies(stack, m_moduleIndices)
  BY DEF IInv, StackOK, ReliesOK
<1>5. FrameOK(imports, source, Top)
  BY <1>2, <1>4 DEF StackShape, Top
<1>6. \A d \in Relies(Top) : m_moduleIndices[d] # 0
  BY <1>2, <1>4 DEF StackRelies, Top
<1> QED BY <1>1, <1>2, <1>3, <1>4, <1>5, <1>6

(* The table of modules keeps what is registered, except the module p.     *)
KeepsOthers(p) ==
  \A d \in Paths : m_moduleIndices[d] # 0 /\ d # p => m_moduleIndices'[d] # 0

LEMMA StayStack ==
  ASSUME IInv, stack # <<>>, NEW f \in Frames, stack' = WithTop(f),
         f.path = Top.path, f.caller = Top.caller, FrameOK(imports, source, f),
         imports' = imports, source' = source,
         KeepsOthers(Top.path), \A d \in Relies(f) : m_moduleIndices'[d] # 0
  PROVE  /\ stack' \in Seq(Frames) /\ stack' # <<>> /\ Len(stack') = Len(stack)
         /\ Top' = f
         /\ \A n \in 1 .. Len(stack) - 1 : stack'[n] = stack[n]
         /\ StackOK' /\ ReliesOK'
<1>0. stack \in Seq(Frames) /\ StackShape(imports, source, stack)
      /\ StackRelies(stack, m_moduleIndices) /\ Top = stack[Len(stack)]
  BY TopFacts DEF Top
<1> DEFINE t == [stack EXCEPT ![Len(stack)] = f]
<1>1. /\ t \in Seq(Frames) /\ t # <<>> /\ Len(t) = Len(stack) /\ t[Len(stack)] = f
      /\ \A n \in 1 .. Len(stack) - 1 : t[n] = stack[n]
  BY <1>0, ReplaceTop
<1>2. StackShape(imports, source, t)
  BY <1>0, ShapeReplace
<1>3. stack' = t
  BY DEF WithTop
<1> HIDE DEF t
<1>4. StackRelies(t, m_moduleIndices')
  BY <1>0, <1>1, ReliesTop DEF KeepsOthers
<1> QED BY <1>1, <1>2, <1>3, <1>4 DEF StackOK, ReliesOK, Top

LEMMA PopStack ==
  ASSUME IInv, stack # <<>>, stack' = Front(stack),
         imports' = imports, source' = source, KeepsOthers(Top.path)
  PROVE  /\ stack' \in Seq(Frames) /\ Len(stack') = Len(stack) - 1
         /\ \A n \in 1 .. Len(stack) - 1 : stack'[n] = stack[n]
         /\ StackOK' /\ ReliesOK'
         /\ stack' # <<>> => AskedBy(imports, Top', Top)
<1>0. stack \in Seq(Frames) /\ StackShape(imports, source, stack)
      /\ StackRelies(stack, m_moduleIndices) /\ Top = stack[Len(stack)] /\ Len(stack) \in Nat
  BY TopFacts DEF Top
<1> DEFINE t == Front(stack)
<1>1. /\ t \in Seq(Frames) /\ Len(t) = Len(stack) - 1
      /\ \A n \in 1 .. Len(stack) - 1 : t[n] = stack[n]
  BY <1>0, PopTop
<1>2. /\ StackShape(imports, source, t)
      /\ t # <<>> => AskedBy(imports, t[Len(t)], stack[Len(stack)])
  BY <1>0, ShapePop
<1>3. stack' = t
  OBVIOUS
<1> HIDE DEF t
<1>4. StackRelies(t, m_moduleIndices')
  BY <1>0, <1>1, ReliesTop DEF KeepsOthers
<1> QED BY <1>0, <1>1, <1>2, <1>3, <1>4 DEF StackOK, ReliesOK, Top

LEMMA PushStack ==
  ASSUME IInv, NEW f \in Frames, stack' = Append(stack, f), FrameOK(imports, source, f),
         stack = <<>> => f.caller = "load",
         stack # <<>> => AskedBy(imports, Top, f),
         ~Registered(f), f.deps = <<>>,
         imports' = imports, source' = source,
         m_moduleIndices[f.path] = 0, m_moduleIndices' = m_moduleIndices
  PROVE  /\ stack' \in Seq(Frames) /\ stack' # <<>> /\ Len(stack') = Len(stack) + 1
         /\ Top' = f
         /\ \A n \in 1 .. Len(stack) : stack'[n] = stack[n]
         /\ StackOK' /\ ReliesOK'
<1>0. stack \in Seq(Frames) /\ StackShape(imports, source, stack)
      /\ StackRelies(stack, m_moduleIndices)
  BY DEF IInv, TypeOK, StackOK, ReliesOK
<1> DEFINE t == Append(stack, f)
<1>1. /\ t \in Seq(Frames) /\ t # <<>> /\ Len(t) = Len(stack) + 1 /\ t[Len(stack) + 1] = f
      /\ \A n \in 1 .. Len(stack) : t[n] = stack[n]
  BY <1>0, PushTop
<1>2. StackShape(imports, source, t)
  BY <1>0, ShapePush DEF Top
<1>3. Relies(f) = {}
  BY DEF Relies, ToSet
<1>4. StackRelies(t, m_moduleIndices)
  BY <1>0, <1>3, ReliesPush
<1>5. stack' = t
  OBVIOUS
<1> HIDE DEF t
<1> QED BY <1>1, <1>2, <1>4, <1>5 DEF StackOK, ReliesOK, Top

-----------------------------------------------------------------------------
(* The table of modules                                                    *)

LEMMA CreateProps ==
  ASSUME TypeOK, IndexOK, NEW p \in Paths, NEW own \in Nat, NEW from \in {"source", "cache"},
         m_moduleIndices[p] = 0, createModule(p, own, from)
  PROVE  /\ m_modules' \in Seq(Paths) /\ Len(m_modules') = Len(m_modules) + 1
         /\ \A k \in 1 .. Len(m_modules) : m_modules'[k] = m_modules[k]
         /\ m_modules'[Len(m_modules')] = p
         /\ m_moduleIndices' \in [Paths -> Nat]
         /\ m_moduleIndices'[p] = Len(m_modules') /\ m_moduleIndices'[p] # 0
         /\ \A d \in Paths : d # p => m_moduleIndices'[d] = m_moduleIndices[d]
         /\ module' \in [Paths -> {NoModule} \cup Modules]
         /\ \A d \in Paths : d # p => module'[d] = module[d]
         /\ module'[p] = [own |-> own, from |-> from, deps |-> {}, made |-> {}, against |-> {},
                          built |-> FALSE, generated |-> FALSE, didInit |-> FALSE, ran |-> FALSE,
                          trusted |-> FALSE]
         /\ \A d \in ModuleIds' : module'[d] \in Modules
         /\ KeepsOthers(p)
         /\ IndexOK'
<1>0. /\ m_modules \in Seq(Paths) /\ m_moduleIndices \in [Paths -> Nat]
      /\ module \in [Paths -> {NoModule} \cup Modules]
      /\ \A d \in ModuleIds : module[d] \in Modules
  BY DEF TypeOK
<1>1. /\ m_modules' \in Seq(Paths) /\ Len(m_modules') = Len(m_modules) + 1
      /\ \A k \in 1 .. Len(m_modules) : m_modules'[k] = m_modules[k]
      /\ m_modules'[Len(m_modules) + 1] = p
      /\ Len(m_modules) \in Nat
  <2>1. m_modules' = Append(m_modules, p)
    BY DEF createModule
  <2> QED BY <1>0, <2>1, PushTop
<1>2. /\ m_moduleIndices' \in [Paths -> Nat]
      /\ m_moduleIndices'[p] = Len(m_modules) + 1
      /\ \A d \in Paths : d # p => m_moduleIndices'[d] = m_moduleIndices[d]
  BY <1>0, <1>1 DEF createModule
<1> DEFINE r == [own |-> own, from |-> from, deps |-> {}, made |-> {}, against |-> {},
                 built |-> FALSE, generated |-> FALSE, didInit |-> FALSE, ran |-> FALSE,
                 trusted |-> FALSE]
<1>3. r \in Modules
  BY DEF Modules, Contents
<1>4. module' = [module EXCEPT ![p] = r]
  BY DEF createModule
<1> HIDE DEF r
<1>5. /\ module' \in [Paths -> {NoModule} \cup Modules]
      /\ \A d \in Paths : d # p => module'[d] = module[d]
      /\ module'[p] = r
  BY <1>0, <1>3, <1>4
<1>6. \A d \in ModuleIds' : module'[d] \in Modules
  BY <1>0, <1>2, <1>3, <1>5 DEF ModuleIds
<1>7. IndexOK'
  <2>1. ASSUME NEW d \in Paths, m_moduleIndices'[d] # 0
        PROVE  m_moduleIndices'[d] \in 1 .. Len(m_modules') /\ m_modules'[m_moduleIndices'[d]] = d
    <3>1. CASE d = p
      BY <3>1, <1>1, <1>2
    <3>2. CASE d # p
      <4>1. m_moduleIndices[d] \in 1 .. Len(m_modules) /\ m_modules[m_moduleIndices[d]] = d
        BY <2>1, <3>2, <1>2 DEF IndexOK, ModuleIds
      <4> QED BY <4>1, <3>2, <1>1, <1>2
    <3> QED BY <3>1, <3>2
  <2>2. ASSUME NEW k \in 1 .. Len(m_modules') PROVE m_moduleIndices'[m_modules'[k]] = k
    <3>1. CASE k = Len(m_modules) + 1
      BY <3>1, <1>1, <1>2
    <3>2. CASE k # Len(m_modules) + 1
      <4>1. k \in 1 .. Len(m_modules)
        BY <3>2, <1>1
      <4>2. m_moduleIndices[m_modules[k]] = k /\ m_modules[k] \in Paths
        BY <4>1, <1>0, ElementOfSeq DEF IndexOK
      <4>3. m_modules[k] # p
        BY <4>1, <4>2
      <4> QED BY <4>1, <4>2, <4>3, <1>1, <1>2
    <3> QED BY <3>1, <3>2
  <2> QED BY <2>1, <2>2 DEF IndexOK, ModuleIds
<1>8. KeepsOthers(p)
  BY <1>2 DEF KeepsOthers
<1> QED BY <1>1, <1>2, <1>5, <1>6, <1>7, <1>8 DEF r

(* Removing the module that was made last leaves the index right.          *)
LEMMA DestroyProps ==
  ASSUME TypeOK, IndexOK, NEW p \in ModuleIds, m_moduleIndices[p] = Len(m_modules),
         destroyModule(p)
  PROVE  /\ m_modules' \in Seq(Paths) /\ Len(m_modules') = Len(m_modules) - 1
         /\ \A k \in 1 .. Len(m_modules) - 1 : m_modules'[k] = m_modules[k]
         /\ m_moduleIndices' \in [Paths -> Nat]
         /\ m_moduleIndices'[p] = 0
         /\ \A d \in Paths : d # p => m_moduleIndices'[d] = m_moduleIndices[d]
         /\ module' \in [Paths -> {NoModule} \cup Modules]
         /\ \A d \in Paths : d # p => module'[d] = module[d]
         /\ \A d \in ModuleIds' : module'[d] \in Modules
         /\ KeepsOthers(p)
         /\ IndexOK'
<1>0. /\ m_modules \in Seq(Paths) /\ m_moduleIndices \in [Paths -> Nat]
      /\ module \in [Paths -> {NoModule} \cup Modules]
      /\ \A d \in ModuleIds : module[d] \in Modules
      /\ p \in Paths /\ Len(m_modules) \in 1 .. Len(m_modules) /\ m_modules[Len(m_modules)] = p
  BY DEF TypeOK, ModuleIds, IndexOK
<1>1. /\ m_modules' \in Seq(Paths) /\ Len(m_modules') = Len(m_modules) - 1
      /\ \A k \in 1 .. Len(m_modules) - 1 : m_modules'[k] = m_modules[k]
  <2> DEFINE n == Len(m_modules)
             t == RemoveAt(m_modules, n)
  <2>1. /\ t \in Seq(Paths) /\ Len(t) = Len(m_modules) - 1
        /\ \A k \in 1 .. Len(m_modules) - 1 : t[k] = IF k < n THEN m_modules[k] ELSE m_modules[k + 1]
    BY <1>0, RemoveAtProps
  <2>2. m_modules' = t
    BY DEF destroyModule
  <2> HIDE DEF t
  <2> QED BY <2>1, <2>2, <1>0
<1>2. /\ m_moduleIndices' \in [Paths -> Nat]
      /\ m_moduleIndices'[p] = 0
      /\ \A d \in Paths : d # p => m_moduleIndices'[d] = m_moduleIndices[d]
  BY <1>0 DEF destroyModule
<1>3. /\ module' \in [Paths -> {NoModule} \cup Modules]
      /\ \A d \in Paths : d # p => module'[d] = module[d]
  BY <1>0 DEF destroyModule
<1>4. \A d \in ModuleIds' : module'[d] \in Modules
  BY <1>0, <1>2, <1>3 DEF ModuleIds
<1>5. IndexOK'
  <2>1. ASSUME NEW d \in Paths, m_moduleIndices'[d] # 0
        PROVE  m_moduleIndices'[d] \in 1 .. Len(m_modules') /\ m_modules'[m_moduleIndices'[d]] = d
    <3>1. d # p /\ m_moduleIndices'[d] = m_moduleIndices[d]
      BY <2>1, <1>2
    <3>2. m_moduleIndices[d] \in 1 .. Len(m_modules) /\ m_modules[m_moduleIndices[d]] = d
      BY <2>1, <3>1 DEF IndexOK, ModuleIds
    <3>3. m_moduleIndices[d] # Len(m_modules)
      BY <3>1, <3>2, <1>0
    <3> QED BY <3>1, <3>2, <3>3, <1>0, <1>1
  <2>2. ASSUME NEW k \in 1 .. Len(m_modules') PROVE m_moduleIndices'[m_modules'[k]] = k
    <3>1. k \in 1 .. Len(m_modules) - 1 /\ k \in 1 .. Len(m_modules) /\ k # Len(m_modules)
      BY <1>0, <1>1
    <3>2. m_moduleIndices[m_modules[k]] = k /\ m_modules[k] \in Paths
      BY <3>1, <1>0, ElementOfSeq DEF IndexOK
    <3>3. m_modules[k] # p
      BY <3>1, <3>2
    <3> QED BY <3>1, <3>2, <3>3, <1>1, <1>2
  <2> QED BY <2>1, <2>2 DEF IndexOK, ModuleIds
<1>6. KeepsOthers(p)
  BY <1>2 DEF KeepsOthers
<1> QED BY <1>1, <1>2, <1>3, <1>4, <1>5, <1>6

-----------------------------------------------------------------------------
(* The operations that the actions share                                   *)

(* What a process leaves when it ends.                                     *)
LEMMA StopIInv ==
  ASSUME IInv, EmptyMemory, up' = FALSE, imports' = imports, source' = source,
         clock' \in Times, sessions' \in Nat,
         cache' \in [Paths -> {NoFile} \cup CacheFiles],
         last_state' \in {NoState, TornState} \cup [kind : {"metas"}, metas : [Paths -> Metas]],
         quiet' \in BOOLEAN,
         CacheOK'
  PROVE  IInv'
<1>1. /\ m_scripts' = [p \in Paths |-> NoMeta] /\ m_sources' = [p \in Scripts |-> 0]
      /\ m_modules' = <<>> /\ m_moduleIndices' = [p \in Paths |-> 0]
      /\ module' = [p \in Paths |-> NoModule]
      /\ errors' = FALSE /\ m_compOutput' = "none" /\ stack' = <<>> /\ returned' = Nothing
  BY DEF EmptyMemory
<1>2. ModuleIds' = {}
  BY <1>1 DEF ModuleIds
<1>3. TypeOK'
  <2>1. m_scripts' \in [Paths -> Metas]
    BY <1>1 DEF Metas
  <2>2. m_modules' \in Seq(Paths) /\ stack' \in Seq(Frames)
    BY <1>1
  <2>3. imports \in ImportGraphs /\ source \in [Scripts -> Files]
    BY DEF IInv, TypeOK
  <2> QED BY <1>1, <1>2, <2>1, <2>2, <2>3 DEF TypeOK
<1>4. StackOK' /\ ReliesOK'
  BY <1>1 DEF StackOK, StackShape, ReliesOK, StackRelies
<1>5. AnswerOK' /\ TopOK'
  BY <1>1, AnswersAssumption DEF AnswerOK, TopOK
<1>6. IndexOK'
  BY <1>1, <1>2, EmptySeq DEF IndexOK
<1> QED BY <1>3, <1>4, <1>5, <1>6 DEF IInv

(* The build of a cache file that is of no use goes on, or ends with the   *)
(* answer that there is none.                                              *)
LEMMA MissedProps ==
  ASSUME IInv, stack # <<>>, Top.pc \in {"cached", "deps", "read"}, Missed,
         Top.pc = "read" => Top.caller # "load",
         imports' = imports, source' = source, KeepsOthers(Top.path)
  PROVE  /\ stack' \in Seq(Frames) /\ returned' \in {Nothing, Failed}
         /\ StackOK' /\ ReliesOK' /\ AnswerOK' /\ TopOK'
<1>0. /\ Top \in Frames /\ Top.path \in Paths /\ FrameOK(imports, source, Top)
      /\ Top.caller \in {"load", "dependency", "specialize"}
      /\ \A d \in Relies(Top) : m_moduleIndices[d] # 0
      /\ imports \in ImportGraphs
  BY TopFacts DEF Frames
<1>1. CASE Top.caller = "load"
  <2> DEFINE f == Frame(Top.path, "source", "load")
  <2>1. f \in Frames /\ f.path = Top.path /\ f.caller = Top.caller /\ f.deps = <<>>
        /\ f.pc = "source"
    BY <1>0, <1>1 DEF Frame, Frames, Times
  <2>2. stack' = WithTop(f) /\ returned' = Nothing
    BY <1>1 DEF Missed
  <2> HIDE DEF f
  <2>3. FrameOK(imports, source, f) /\ Relies(f) = {}
    BY <1>0, <1>1, <2>1 DEF FrameOK, Relies, Registered, ToSet
  <2>4. /\ stack' \in Seq(Frames) /\ stack' # <<>> /\ Top' = f
        /\ StackOK' /\ ReliesOK'
    BY <2>1, <2>2, <2>3, StayStack
  <2>5. AnswerOK' /\ TopOK'
    BY <2>1, <2>2, <2>4, AnswersAssumption DEF AnswerOK, TopOK
  <2> QED BY <2>2, <2>4, <2>5
<1>2. CASE Top.caller = "dependency"
  <2>1. stack' = Front(stack) /\ returned' = Failed
    BY <1>2 DEF Missed, Return
  <2>2. /\ stack' \in Seq(Frames) /\ StackOK' /\ ReliesOK'
        /\ stack' # <<>> => AskedBy(imports, Top', Top)
    BY <2>1, PopStack
  <2>3. stack' # <<>> => Top'.pc = "deps"
    BY <1>2, <2>2 DEF AskedBy, AsksDep
  <2>4. AnswerOK' /\ TopOK'
    BY <2>1, <2>3, AnswersAssumption DEF AnswerOK, TopOK
  <2> QED BY <2>1, <2>2, <2>4
<1>3. CASE Top.caller = "specialize"
  <2> DEFINE f == [Top EXCEPT !.pc = "remake"]
  <2>1. /\ f \in Frames /\ f.path = Top.path /\ f.caller = Top.caller /\ f.deps = Top.deps
        /\ f.pc = "remake"
    BY <1>0 DEF Frames
  <2>2. stack' = WithTop(f) /\ returned' = Nothing
    BY <1>3 DEF Missed
  <2> HIDE DEF f
  <2>3. Top.path \in Templates /\ ToSet(Top.deps) \subseteq {Origin[Top.path]}
    BY <1>0, <1>3 DEF FrameOK, Uses, Paths
  <2>4. Origin[Top.path] # Top.path
    BY <2>3, <1>0, GraphFacts
  <2>5. FrameOK(imports, source, f)
    BY <1>0, <1>3, <2>1 DEF FrameOK
  <2>6. \A d \in Relies(f) : m_moduleIndices'[d] # 0
    <3> SUFFICES ASSUME NEW d \in ToSet(Top.deps) PROVE m_moduleIndices'[d] # 0
      BY <2>1 DEF Relies, Registered
    <3>1. d # Top.path /\ d \in Paths /\ m_moduleIndices[d] # 0
      BY <1>0, <2>3, <2>4, ReliesType DEF Relies
    <3> QED BY <3>1 DEF KeepsOthers
  <2>7. /\ stack' \in Seq(Frames) /\ stack' # <<>> /\ Top' = f
        /\ StackOK' /\ ReliesOK'
    BY <2>1, <2>2, <2>5, <2>6, StayStack
  <2>8. AnswerOK' /\ TopOK'
    BY <2>1, <2>2, <2>7, AnswersAssumption DEF AnswerOK, TopOK
  <2> QED BY <2>2, <2>7, <2>8
<1> QED BY <1>0, <1>1, <1>2, <1>3

(* A module is asked for by the host, or by the frame on top.              *)
LEMMA GetModuleProps ==
  ASSUME IInv, NEW p \in Paths, getModule(p, stack), returned = Nothing,
         imports' = imports, source' = source, cache' = cache,
         m_moduleIndices' = m_moduleIndices,
         stack = <<>> => p \in Scripts,
         stack # <<>> => AsksDep(Top, p) \/ AsksImport(imports, Top, p)
  PROVE  /\ stack' \in Seq(Frames) /\ returned' \in {Nothing, Failed} \cup Paths
         /\ StackOK' /\ ReliesOK' /\ AnswerOK' /\ TopOK'
<1>0. stack \in Seq(Frames) /\ StackOK /\ ReliesOK /\ CacheOK /\ IndexOK
  BY DEF IInv, TypeOK
<1>1. ASSUME stack' = stack, returned' \in {Failed, p}, returned' = p => m_moduleIndices[p] # 0
      PROVE  AnswerOK' /\ TopOK' /\ StackOK' /\ ReliesOK' /\ stack' \in Seq(Frames)
  <2>1. Top' = Top
    BY <1>1 DEF Top
  <2>2. stack # <<>> => Top.pc \in {"deps", "imports"}
    BY DEF AsksDep, AsksImport
  <2>3. AnswerOK'
    BY <1>1, <2>1, <2>2, AnswersAssumption DEF AnswerOK, Asks, AsksDep, AsksImport
  <2> QED BY <1>0, <1>1, <2>1, <2>2, <2>3 DEF TopOK, StackOK, ReliesOK
<1>2. ASSUME NEW pc \in {"load", "cached"}, NEW caller \in {"load", "dependency"},
             stack' = Append(stack, Frame(p, pc, caller)), returned' = Nothing,
             m_moduleIndices[p] = 0,
             pc = "load" => caller = "load",
             pc = "cached" => cache[p] # NoFile,
             caller = "load" <=> p \in Scripts,
             p \in Scripts => source[p] # NoFile
      PROVE  AnswerOK' /\ TopOK' /\ StackOK' /\ ReliesOK' /\ stack' \in Seq(Frames)
  <2> DEFINE f == Frame(p, pc, caller)
  <2>1. /\ f \in Frames /\ f.path = p /\ f.caller = caller /\ f.deps = <<>> /\ f.pc = pc
    BY DEF Frame, Frames, Times
  <2> HIDE DEF f
  <2>2. FrameOK(imports, source, f)
    BY <1>2, <2>1 DEF FrameOK, ToSet
  <2>3. stack # <<>> => AskedBy(imports, Top, f)
    BY <1>2, <2>1 DEF AskedBy, AsksImport, ImportsLeft
  <2>4. /\ stack' \in Seq(Frames) /\ Top' = f /\ StackOK' /\ ReliesOK'
    BY <1>2, <2>1, <2>2, <2>3, PushStack DEF Registered, f
  <2>5. AnswerOK' /\ TopOK'
    BY <1>2, <2>1, <2>4, AnswersAssumption DEF AnswerOK, TopOK
  <2> QED BY <2>4, <2>5
<1>3. CASE m_moduleIndices[p] # 0
  <2>1. stack' = stack /\ returned' = p
    BY <1>0, <1>3 DEF getModule, IndexOK, ModuleIds
  <2> QED BY <2>1, <1>1, <1>3
<1>4. CASE m_moduleIndices[p] = 0 /\ p \in Scripts /\ source[p] # NoFile
  BY <1>2, <1>4 DEF getModule
<1>5. CASE m_moduleIndices[p] = 0 /\ ~(p \in Scripts /\ source[p] # NoFile)
           /\ m_scripts[p] # NoMeta /\ cache[p] # NoFile
  <2>1. p \notin Scripts
    BY <1>0, <1>5 DEF CacheOK
  <2>2. stack' = Append(stack, Frame(p, "cached", "dependency")) /\ returned' = Nothing
    BY <1>5 DEF getModule
  <2> QED BY <1>2, <1>5, <2>1, <2>2
<1>6. CASE m_moduleIndices[p] = 0 /\ ~(p \in Scripts /\ source[p] # NoFile)
           /\ ~(m_scripts[p] # NoMeta /\ cache[p] # NoFile)
  <2>1. stack' = stack /\ returned' = Failed
    BY <1>6 DEF getModule
  <2> QED BY <2>1, <1>1, AnswersAssumption
<1> QED BY <1>3, <1>4, <1>5, <1>6

(* A build ends with its module, or with the answer that there is none.    *)
LEMMA ReturnProps ==
  ASSUME IInv, stack # <<>>, NEW value \in {Failed, Top.path}, Return(value),
         value = Top.path => m_moduleIndices'[Top.path] # 0,
         value = Failed => Top.caller # "specialize",
         imports' = imports, source' = source, KeepsOthers(Top.path)
  PROVE  /\ stack' \in Seq(Frames) /\ returned' \in {Nothing, Failed} \cup Paths
         /\ StackOK' /\ ReliesOK' /\ AnswerOK' /\ TopOK'
<1>0. Top.path \in Paths
  BY TopFacts
<1>1. stack' = Front(stack) /\ returned' = value
  BY DEF Return
<1>2. /\ stack' \in Seq(Frames) /\ StackOK' /\ ReliesOK'
      /\ stack' # <<>> => AskedBy(imports, Top', Top)
  BY <1>1, PopStack
<1>3. ASSUME stack' # <<>>
      PROVE  /\ Top'.pc \in {"deps", "imports"} /\ Asks(imports, Top', Top.path)
             /\ value = Failed => Top'.pc = "deps" \/ ImportsLeft(imports, Top')
  BY <1>2, <1>3 DEF AskedBy, Asks, AsksDep, AsksImport, AsksTemplate
<1>4. AnswerOK' /\ TopOK'
  BY <1>0, <1>1, <1>3, AnswersAssumption DEF AnswerOK, TopOK
<1> QED BY <1>0, <1>1, <1>2, <1>4

LEMMA FaultIInv ==
  ASSUME IInv, NEW kind, Fault(kind), imports' = imports, sessions' \in Nat
  PROVE  IInv'
<1>1. EmptyMemory /\ up' = FALSE /\ UNCHANGED <<clock, source, cache, last_state, quiet>>
  BY DEF Fault, disk
<1>2. CacheOK'
  BY <1>1 DEF IInv, CacheOK
<1>3. /\ clock \in Times /\ cache \in [Paths -> {NoFile} \cup CacheFiles] /\ quiet \in BOOLEAN
      /\ last_state \in {NoState, TornState} \cup [kind : {"metas"}, metas : [Paths -> Metas]]
  BY DEF IInv, TypeOK
<1> QED BY <1>1, <1>2, <1>3, StopIInv

-----------------------------------------------------------------------------
(* Every step keeps the invariant: the builds                              *)

LEMMA LoadModuleIInv ==
  ASSUME IInv, up, stack # <<>>, LoadModule, UNCHANGED <<sessions, imports>>
  PROVE  IInv'
<1>0. /\ Top \in Frames /\ FrameOK(imports, source, Top)
      /\ \A d \in Relies(Top) : m_moduleIndices[d] # 0
  BY TopFacts
<1>1. CASE \E kind \in {"overflow", "no_metadata"} : Fault(kind)
  BY <1>1, FaultIInv DEF IInv, TypeOK
<1>2. CASE ~ \E kind \in {"overflow", "no_metadata"} : Fault(kind)
  <2> DEFINE pc == IF cacheNewer(Top.path) THEN "cached" ELSE "source"
             f == [Top EXCEPT !.pc = pc]
  <2>1. /\ Top.pc = "load" /\ stack' = WithTop(f)
        /\ UNCHANGED <<clock, disk, up, m_scripts, m_sources, m_modules, m_moduleIndices, module,
                       errors, m_compOutput, returned, fault, quiet>>
    BY <1>2 DEF LoadModule
  <2>2. pc \in {"cached", "source"}
    OBVIOUS
  <2>3. pc = "cached" => cache[Top.path] # NoFile
    BY DEF cacheNewer
  <2> HIDE DEF pc
  <2>4. /\ f \in Frames /\ f.path = Top.path /\ f.caller = Top.caller /\ f.deps = Top.deps
        /\ f.pc = pc
    BY <1>0, <2>2 DEF Frames
  <2> HIDE DEF f
  <2>5. FrameOK(imports, source, f) /\ Relies(f) \subseteq Relies(Top)
    BY <1>0, <2>1, <2>2, <2>4 DEF FrameOK, Relies, Registered
  <2>6. /\ stack' \in Seq(Frames) /\ Top' = f /\ StackOK' /\ ReliesOK'
    BY <1>0, <2>1, <2>4, <2>5, StayStack DEF disk, KeepsOthers
  <2>7. returned = Nothing
    BY <2>1 DEF IInv, AnswerOK
  <2>8. AnswerOK' /\ TopOK'
    BY <2>1, <2>2, <2>3, <2>4, <2>6, <2>7, AnswersAssumption DEF AnswerOK, TopOK, disk
  <2>9. CacheOK' /\ IndexOK'
    BY <2>1 DEF IInv, CacheOK, IndexOK, ModuleIds, disk
  <2>10. TypeOK'
    BY <2>1, <2>6 DEF IInv, TypeOK, ModuleIds, disk
  <2> QED BY <2>6, <2>8, <2>9, <2>10 DEF IInv
<1> QED BY <1>1, <1>2

LEMMA getSourceType ==
  ASSUME TypeOK, NEW p
  PROVE  getSource(p) \in [Scripts -> Nat]
<1>1. \A q \in Scripts : source[q].mtime \in Nat
  BY DEF TypeOK, Files, NoFile, Times
<1> QED BY <1>1 DEF TypeOK, getSource

LEMMA BuildFromCachedIInv ==
  ASSUME IInv, up, stack # <<>>, BuildFromCached, UNCHANGED <<sessions, imports>>
  PROVE  IInv'
<1>0. /\ Top \in Frames /\ Top.path \in Paths /\ FrameOK(imports, source, Top)
      /\ \A d \in Relies(Top) : m_moduleIndices[d] # 0
      /\ Top.pc = "cached"
  BY TopFacts DEF BuildFromCached
<1>1. CASE Fault("no_compiler")
  BY <1>1, FaultIInv DEF IInv, TypeOK
<1>2. CASE ~Fault("no_compiler")
  <2>1. /\ Opened(FALSE) /\ m_sources' = getSource(Top.path)
        /\ \/ Missed
           \/ /\ stack' = WithTop([Top EXCEPT !.pc = "deps", !.entry = cache[Top.path]])
              /\ returned' = returned
        /\ UNCHANGED <<clock, disk, up, m_scripts, m_modules, m_moduleIndices, module, fault, quiet>>
    BY <1>2 DEF BuildFromCached
  <2>2. /\ stack' \in Seq(Frames) /\ returned' \in {Nothing, Failed} \cup Paths
        /\ StackOK' /\ ReliesOK' /\ AnswerOK' /\ TopOK'
    <3>1. CASE Missed
      BY <1>0, <2>1, <3>1, MissedProps DEF disk, KeepsOthers
    <3>2. CASE /\ stack' = WithTop([Top EXCEPT !.pc = "deps", !.entry = cache[Top.path]])
               /\ returned' = returned
      <4> DEFINE f == [Top EXCEPT !.pc = "deps", !.entry = cache[Top.path]]
      <4>1. cache[Top.path] \in CacheFiles /\ cache[Top.path] # NoFile
        BY <1>0 DEF IInv, TypeOK, TopOK
      <4>2. /\ f \in Frames /\ f.path = Top.path /\ f.caller = Top.caller /\ f.deps = Top.deps
            /\ f.pc = "deps" /\ f.entry = cache[Top.path] /\ stack' = WithTop(f)
        BY <1>0, <3>2, <4>1 DEF Frames
      <4> HIDE DEF f
      <4>3. FrameOK(imports, source, f) /\ Relies(f) \subseteq Relies(Top)
        BY <1>0, <4>1, <4>2 DEF FrameOK, Relies, Registered, IInv, CacheOK
      <4>4. /\ stack' \in Seq(Frames) /\ Top' = f /\ StackOK' /\ ReliesOK'
        BY <1>0, <2>1, <4>2, <4>3, StayStack DEF disk, KeepsOthers
      <4>5. returned = Nothing
        BY <1>0 DEF IInv, AnswerOK
      <4> QED BY <3>2, <4>2, <4>4, <4>5, AnswersAssumption DEF AnswerOK, TopOK
    <3> QED BY <2>1, <3>1, <3>2
  <2>3. errors' \in BOOLEAN /\ m_compOutput' \in {"none", "source", "cache"}
    BY <2>1 DEF Opened, IInv, TypeOK
  <2>4. CacheOK' /\ IndexOK'
    BY <2>1 DEF IInv, CacheOK, IndexOK, ModuleIds, disk
  <2>5. TypeOK'
    BY <2>1, <2>2, <2>3, getSourceType DEF IInv, TypeOK, ModuleIds, disk
  <2> QED BY <2>2, <2>4, <2>5 DEF IInv
<1> QED BY <1>1, <1>2

LEMMA AskDependencyIInv ==
  ASSUME IInv, up, stack # <<>>, AskDependency, UNCHANGED <<sessions, imports>>
  PROVE  IInv'
<1>0. /\ Top \in Frames /\ FrameOK(imports, source, Top)
      /\ Top.pc = "deps" /\ ~Top.entry.torn /\ Top.i <= Len(Top.entry.deps) /\ returned = Nothing
  BY TopFacts DEF AskDependency, MoreDependencies
<1> DEFINE p == Top.entry.deps[Top.i].path
<1>1. getModule(p, stack) /\
      UNCHANGED <<clock, disk, up, m_scripts, m_sources, m_modules, m_moduleIndices, module, errors,
                  m_compOutput, fault, quiet>>
  BY DEF AskDependency
<1>2. p \in Paths /\ AsksDep(Top, p)
  <2>1. Top.entry \in WholeFiles /\ Top.i \in Times
    BY <1>0 DEF FrameOK, Frames, CacheFiles, CutFiles
  <2>2. Top.entry.deps \in Seq(WrittenDeps)
    BY <2>1 DEF WholeFiles
  <2>3. Top.i \in 1 .. Len(Top.entry.deps)
    BY <1>0, <2>1, <2>2, LenProperties DEF Times
  <2>4. Top.entry.deps[Top.i] \in WrittenDeps
    BY <2>2, <2>3, ElementOfSeq
  <2> QED BY <2>4, <1>0 DEF WrittenDeps, AsksDep
<1> HIDE DEF p
<1>3. /\ stack' \in Seq(Frames) /\ returned' \in {Nothing, Failed} \cup Paths
      /\ StackOK' /\ ReliesOK' /\ AnswerOK' /\ TopOK'
  BY <1>0, <1>1, <1>2, GetModuleProps DEF disk
<1>4. CacheOK' /\ IndexOK'
  BY <1>1 DEF IInv, CacheOK, IndexOK, ModuleIds, disk
<1>5. TypeOK'
  BY <1>1, <1>3 DEF IInv, TypeOK, ModuleIds, disk
<1> QED BY <1>3, <1>4, <1>5 DEF IInv

LEMMA AskImportIInv ==
  ASSUME IInv, up, stack # <<>>, AskImport, UNCHANGED <<sessions, imports>>
  PROVE  IInv'
<1> DEFINE p == imports[Top.path][Top.i]
<1>1. /\ getModule(p, stack) /\ Top.pc = "imports" /\ MoreImports /\ returned = Nothing
      /\ UNCHANGED <<clock, disk, up, m_scripts, m_sources, m_modules, m_moduleIndices, module,
                     errors, m_compOutput, fault, quiet>>
  BY DEF AskImport
<1>2. p \in Paths /\ AsksImport(imports, Top, p)
  BY <1>1 DEF MoreImports, AsksImport, ImportsLeft, Paths
<1> HIDE DEF p
<1>3. /\ stack' \in Seq(Frames) /\ returned' \in {Nothing, Failed} \cup Paths
      /\ StackOK' /\ ReliesOK' /\ AnswerOK' /\ TopOK'
  BY <1>1, <1>2, GetModuleProps DEF disk
<1>4. CacheOK' /\ IndexOK'
  BY <1>1 DEF IInv, CacheOK, IndexOK, ModuleIds, disk
<1>5. TypeOK'
  BY <1>1, <1>3 DEF IInv, TypeOK, ModuleIds, disk
<1> QED BY <1>3, <1>4, <1>5 DEF IInv

(* What a frame asks for, and what it is given, is a module that it uses.  *)
LEMMA AsksUses ==
  ASSUME NEW g \in ImportGraphs, NEW src, NEW f \in Frames, FrameOK(g, src, f),
         NEW p, Asks(g, f, p)
  PROVE  p \in Uses(g, f.path)
<1>1. CASE AsksDep(f, p)
  <2>1. f.entry \in WholeFiles /\ f.i \in Times /\ f.i <= Len(f.entry.deps) /\ p = f.entry.deps[f.i].path
    BY <1>1 DEF FrameOK, Frames, CacheFiles, CutFiles, AsksDep
  <2>2. f.entry.deps \in Seq(WrittenDeps)
    BY <2>1 DEF WholeFiles
  <2>3. f.i \in 1 .. Len(f.entry.deps)
    BY <2>1, <2>2, LenProperties DEF Times
  <2>4. f.entry.deps[f.i] \in ToSet(f.entry.deps)
    BY <2>2, <2>3, ToSetProps
  <2> QED BY <2>1, <2>4, <1>1 DEF FrameOK, AsksDep
<1>2. CASE AsksImport(g, f, p)
  <2>1. f.path \in Scripts /\ f.i \in Times /\ f.i <= Len(g[f.path]) /\ p = g[f.path][f.i] /\ p \in Scripts
    BY <1>2 DEF AsksImport, ImportsLeft, Frames
  <2>2. g[f.path] \in Seq(Paths) /\ f.path \notin Templates
    BY <2>1, GraphFacts DEF Paths
  <2>3. f.i \in 1 .. Len(g[f.path])
    BY <2>1, <2>2, LenProperties DEF Times
  <2>4. p \in ToSet(g[f.path])
    BY <2>1, <2>2, <2>3, ToSetProps
  <2> QED BY <2>1, <2>2, <2>4 DEF Uses
<1>3. CASE AsksTemplate(g, f, p)
  BY <1>3 DEF AsksTemplate
<1> QED BY <1>1, <1>2, <1>3 DEF Asks

LEMMA AnswerIsUsed ==
  ASSUME IInv, stack # <<>>, returned \in Paths
  PROVE  returned \in Uses(imports, Top.path) /\ m_moduleIndices[returned] # 0
<1>1. Asks(imports, Top, returned) /\ m_moduleIndices[returned] # 0
  BY AnswersAssumption DEF IInv, AnswerOK
<1> QED BY <1>1, TopFacts, AsksUses

(* A frame that takes the answer it was given has what it relies on.       *)
LEMMA TakeProps ==
  ASSUME IInv, stack # <<>>, NEW f \in Frames, stack' = WithTop(f), returned' = Nothing,
         Top.pc \in {"deps", "imports"}, f.pc = Top.pc, f.path = Top.path, f.caller = Top.caller,
         f.entry = Top.entry,
         \A d \in ToSet(f.deps) : d \in ToSet(Top.deps) \/ d = returned,
         returned = Failed => f.deps = Top.deps,
         returned \in {Failed} \cup Paths,
         imports' = imports, source' = source, m_moduleIndices' = m_moduleIndices
  PROVE  /\ stack' \in Seq(Frames) /\ StackOK' /\ ReliesOK' /\ AnswerOK' /\ TopOK'
<1>0. /\ FrameOK(imports, source, Top) /\ \A d \in Relies(Top) : m_moduleIndices[d] # 0
  BY TopFacts
<1>1. \A d \in ToSet(f.deps) : d \in ToSet(Top.deps) \/ (d = returned /\ returned \in Paths)
  OBVIOUS
<1>2. FrameOK(imports, source, f)
  <2>1. ToSet(f.deps) \subseteq Uses(imports, Top.path)
    BY <1>0, <1>1, AnswerIsUsed DEF FrameOK
  <2> QED BY <1>0, <2>1 DEF FrameOK
<1>3. \A d \in Relies(f) : m_moduleIndices'[d] # 0
  BY <1>0, <1>1, AnswerIsUsed DEF Relies, Registered
<1>4. stack' \in Seq(Frames) /\ Top' = f /\ StackOK' /\ ReliesOK'
  BY <1>2, <1>3, StayStack DEF KeepsOthers
<1>5. AnswerOK' /\ TopOK'
  BY <1>4, AnswersAssumption DEF AnswerOK, TopOK
<1> QED BY <1>4, <1>5

LEMMA TakeDependencyIInv ==
  ASSUME IInv, up, stack # <<>>, TakeDependency, UNCHANGED <<sessions, imports>>
  PROVE  IInv'
<1>0. Top \in Frames /\ Top.pc = "deps" /\ returned \in {Failed} \cup Paths
  BY TopFacts DEF TakeDependency, IInv, TypeOK
<1>1. UNCHANGED <<clock, disk, up, m_scripts, m_sources, m_modules, m_moduleIndices, module, errors,
                  m_compOutput, fault, quiet>>
  BY DEF TakeDependency
<1>2. /\ stack' \in Seq(Frames) /\ returned' \in {Nothing, Failed} \cup Paths
      /\ StackOK' /\ ReliesOK' /\ AnswerOK' /\ TopOK'
  <2>1. CASE returned = Failed
    BY <1>0, <1>1, <2>1, MissedProps DEF TakeDependency, disk, KeepsOthers
  <2>2. CASE returned # Failed
    <3> DEFINE f == [Top EXCEPT !.i = @ + 1, !.deps = Append(@, returned)]
    <3>1. stack' = WithTop(f) /\ returned' = Nothing /\ returned \in Paths
      BY <1>0, <2>2 DEF TakeDependency
    <3>2. Top.i + 1 \in Times /\ Top.deps \in Seq(Paths) /\ Append(Top.deps, returned) \in Seq(Paths)
      BY <1>0, <3>1, AppendProperties DEF Frames, Times
    <3>3. /\ f \in Frames /\ f.path = Top.path /\ f.caller = Top.caller /\ f.pc = Top.pc
          /\ f.entry = Top.entry /\ f.deps = Append(Top.deps, returned)
      BY <1>0, <3>2 DEF Frames
    <3> HIDE DEF f
    <3>4. ToSet(f.deps) = ToSet(Top.deps) \cup {returned}
      BY <3>1, <3>2, <3>3, AppendSet
    <3> QED BY <1>0, <1>1, <2>2, <3>1, <3>3, <3>4, TakeProps DEF disk
  <2> QED BY <2>1, <2>2
<1>3. CacheOK' /\ IndexOK'
  BY <1>1 DEF IInv, CacheOK, IndexOK, ModuleIds, disk
<1>4. TypeOK'
  BY <1>1, <1>2 DEF IInv, TypeOK, ModuleIds, disk
<1> QED BY <1>2, <1>3, <1>4 DEF IInv

(* A module is made for the frame on top, unless there is one of its path, *)
(* and the frame goes on.                                                  *)
LEMMA CreateIInv ==
  ASSUME IInv, stack # <<>>, NEW own \in Nat, NEW from \in {"source", "cache"},
         createModule(Top.path, own, from), returned' = returned, returned = Nothing,
         NEW f \in Frames, stack' = WithTop(f), f.path = Top.path, f.caller = Top.caller,
         FrameOK(imports, source, f), f.pc \in {"imports", "read"},
         f.pc = "read" => m_moduleIndices[Top.path] = 0,
         \A d \in ToSet(f.deps) : m_moduleIndices[d] # 0,
         imports' = imports, source' = source
  PROVE  /\ stack' \in Seq(Frames) /\ StackOK' /\ ReliesOK' /\ AnswerOK' /\ TopOK' /\ IndexOK'
         /\ m_modules' \in Seq(Paths) /\ m_moduleIndices' \in [Paths -> Nat]
         /\ module' \in [Paths -> {NoModule} \cup Modules]
         /\ \A p \in ModuleIds' : module'[p] \in Modules
<1>1. Top.path \in Paths /\ TypeOK /\ IndexOK
  BY TopFacts DEF IInv
<1>2. /\ m_modules' \in Seq(Paths) /\ m_moduleIndices' \in [Paths -> Nat]
      /\ m_moduleIndices'[Top.path] # 0
      /\ f.pc = "read" => m_moduleIndices'[Top.path] = Len(m_modules')
      /\ \A d \in Paths : d # Top.path => m_moduleIndices'[d] = m_moduleIndices[d]
      /\ module' \in [Paths -> {NoModule} \cup Modules]
      /\ \A p \in ModuleIds' : module'[p] \in Modules
      /\ KeepsOthers(Top.path) /\ IndexOK'
  <2>1. CASE m_moduleIndices[Top.path] = 0
    <3> DEFINE p == Top.path
    <3>1. p \in Paths /\ m_moduleIndices[p] = 0 /\ createModule(p, own, from)
      BY <1>1, <2>1
    <3> HIDE DEF p
    <3>2. /\ m_modules' \in Seq(Paths) /\ m_moduleIndices' \in [Paths -> Nat]
          /\ m_moduleIndices'[p] = Len(m_modules') /\ m_moduleIndices'[p] # 0
          /\ \A d \in Paths : d # p => m_moduleIndices'[d] = m_moduleIndices[d]
          /\ module' \in [Paths -> {NoModule} \cup Modules]
          /\ \A d \in ModuleIds' : module'[d] \in Modules
          /\ KeepsOthers(p) /\ IndexOK'
      BY <1>1, <3>1, CreateProps
    <3> QED BY <3>2 DEF p
  <2>2. CASE m_moduleIndices[Top.path] # 0
    <3>1. UNCHANGED <<m_modules, m_moduleIndices, module>>
      BY <2>2 DEF createModule
    <3> QED BY <1>1, <2>2, <3>1 DEF TypeOK, IndexOK, ModuleIds, KeepsOthers
  <2> QED BY <2>1, <2>2
<1>3. \A d \in Relies(f) : m_moduleIndices'[d] # 0
  <2>1. Relies(f) \subseteq Paths /\ \A d \in Relies(f) : d \in ToSet(f.deps) \/ d = Top.path
    BY ReliesType DEF Relies
  <2> QED BY <2>1, <1>2
<1>4. stack' \in Seq(Frames) /\ Top' = f /\ StackOK' /\ ReliesOK'
  BY <1>2, <1>3, StayStack
<1>5. AnswerOK' /\ TopOK'
  BY <1>2, <1>4, AnswersAssumption DEF AnswerOK, TopOK
<1> QED BY <1>2, <1>4, <1>5

LEMMA CompareVersionsIInv ==
  ASSUME IInv, up, stack # <<>>, CompareVersions, UNCHANGED <<sessions, imports>>
  PROVE  IInv'
<1>0. /\ Top \in Frames /\ FrameOK(imports, source, Top) /\ Top.pc = "deps" /\ returned = Nothing
      /\ \A d \in Relies(Top) : m_moduleIndices[d] # 0
  BY TopFacts DEF CompareVersions
<1>1. UNCHANGED <<clock, disk, up, m_scripts, m_sources, errors, m_compOutput, fault, quiet>>
  BY DEF CompareVersions
<1>2. /\ stack' \in Seq(Frames) /\ returned' \in {Nothing, Failed} \cup Paths
      /\ StackOK' /\ ReliesOK' /\ AnswerOK' /\ TopOK' /\ IndexOK'
      /\ m_modules' \in Seq(Paths) /\ m_moduleIndices' \in [Paths -> Nat]
      /\ module' \in [Paths -> {NoModule} \cup Modules]
      /\ \A p \in ModuleIds' : module'[p] \in Modules
  <2>1. CASE Missed /\ UNCHANGED <<m_modules, m_moduleIndices, module>>
    <3>1. /\ stack' \in Seq(Frames) /\ returned' \in {Nothing, Failed}
          /\ StackOK' /\ ReliesOK' /\ AnswerOK' /\ TopOK'
      BY <1>0, <1>1, <2>1, MissedProps DEF disk, KeepsOthers
    <3> QED BY <3>1, <2>1 DEF IInv, TypeOK, IndexOK, ModuleIds
  <2>2. CASE /\ m_moduleIndices[Top.path] = 0
             /\ createModule(Top.path, IF Top.entry.torn THEN 0 ELSE Top.entry.own, "cache")
             /\ stack' = WithTop([Top EXCEPT !.pc = "read", !.m_mod = TRUE])
             /\ UNCHANGED returned
    <3> DEFINE own == IF Top.entry.torn THEN 0 ELSE Top.entry.own
               f == [Top EXCEPT !.pc = "read", !.m_mod = TRUE]
    <3>1. own \in Nat
      BY <1>0 DEF FrameOK, Frames, CacheFiles, CutFiles, WholeFiles
    <3>2. createModule(Top.path, own, "cache") /\ stack' = WithTop(f) /\ returned' = returned
      BY <2>2
    <3> HIDE DEF own
    <3>3. /\ f \in Frames /\ f.path = Top.path /\ f.caller = Top.caller /\ f.deps = Top.deps
          /\ f.pc = "read" /\ f.entry = Top.entry
      BY <1>0 DEF Frames
    <3> HIDE DEF f
    <3>4. FrameOK(imports, source, f) /\ \A d \in ToSet(f.deps) : m_moduleIndices[d] # 0
      BY <1>0, <3>3 DEF FrameOK, Relies
    <3>5. imports' = imports /\ source' = source
      BY <1>1 DEF disk
    <3>6. /\ stack' \in Seq(Frames) /\ StackOK' /\ ReliesOK' /\ AnswerOK' /\ TopOK' /\ IndexOK'
          /\ m_modules' \in Seq(Paths) /\ m_moduleIndices' \in [Paths -> Nat]
          /\ module' \in [Paths -> {NoModule} \cup Modules]
          /\ \A p \in ModuleIds' : module'[p] \in Modules
      BY <1>0, <2>2, <3>1, <3>2, <3>3, <3>4, <3>5, CreateIInv
    <3> QED BY <1>0, <3>2, <3>6
  <2> QED BY <2>1, <2>2 DEF CompareVersions
<1>3. CacheOK'
  BY <1>1 DEF IInv, CacheOK, disk
<1>4. TypeOK'
  BY <1>1, <1>2 DEF IInv, TypeOK, disk
<1> QED BY <1>2, <1>3, <1>4 DEF IInv

(* The module of a frame that has one, and those it has been given.        *)
LEMMA RegisteredModules ==
  ASSUME IInv, stack # <<>>
  PROVE  /\ \A d \in ToSet(Top.deps) : d \in Paths /\ m_moduleIndices[d] # 0 /\ module[d] \in Modules
         /\ Registered(Top) => Top.path \in ModuleIds /\ module[Top.path] \in Modules
<1>1. /\ Top \in Frames /\ Top.path \in Paths /\ \A d \in Relies(Top) : m_moduleIndices[d] # 0
  BY TopFacts
<1>2. \A d \in ToSet(Top.deps) : d \in Paths
  BY <1>1, ReliesType
<1> QED BY <1>1, <1>2 DEF Relies, ModuleIds, IInv, TypeOK

LEMMA LinkIInv ==
  ASSUME IInv, up, stack # <<>>, Link, UNCHANGED <<sessions, imports>>
  PROVE  IInv'
<1>0. /\ Top \in Frames /\ FrameOK(imports, source, Top) /\ Top.pc = "read" /\ ~Top.entry.torn
      /\ Top.path \in ModuleIds /\ module[Top.path] \in Modules
  BY TopFacts, RegisteredModules DEF Link, Registered
<1>1. CASE Fault("no_compiler")
  BY <1>1, FaultIInv DEF IInv, TypeOK
<1>2. CASE ~Fault("no_compiler")
  <2> DEFINE r == [module[Top.path] EXCEPT !.built = TRUE, !.generated = ~errors,
                         !.deps = ToSet(Top.deps), !.made = Top.entry.made,
                         !.against = {[path |-> d.path, made |-> d.made] : d \in ToSet(Top.entry.deps)},
                         !.trusted = Top.entry.quiet /\ quiet /\ AllTrusted(Top.deps)]
  <2>1. /\ module' = [module EXCEPT ![Top.path] = r]
        /\ m_compOutput' = IF IsRoot THEN "cache" ELSE m_compOutput
        /\ Return(Top.path)
        /\ UNCHANGED <<clock, disk, up, m_scripts, m_sources, m_modules, m_moduleIndices, errors,
                       fault, quiet>>
    BY <1>2 DEF Link
  <2>2. r \in Modules
    <3>1. Top.entry \in WholeFiles
      BY <1>0 DEF FrameOK, Frames, CacheFiles, CutFiles
    <3>2. /\ Top.entry.made \in Contents /\ Top.entry.deps \in Seq(WrittenDeps)
          /\ (Top.entry.quiet /\ quiet /\ AllTrusted(Top.deps)) \in BOOLEAN /\ (~errors) \in BOOLEAN
      BY <3>1 DEF WholeFiles
    <3>3. {[path |-> d.path, made |-> d.made] : d \in ToSet(Top.entry.deps)}
            \subseteq [path : Paths, made : Contents]
      <4>1. \A d \in ToSet(Top.entry.deps) : d \in WrittenDeps
        BY <3>2, ToSetProps
      <4> QED BY <4>1 DEF WrittenDeps
    <3>4. ToSet(Top.deps) \subseteq Paths
      BY <1>0, ReliesType
    <3> QED BY <1>0, <3>2, <3>3, <3>4 DEF Modules
  <2> HIDE DEF r
  <2>3. /\ stack' \in Seq(Frames) /\ returned' \in {Nothing, Failed} \cup Paths
        /\ StackOK' /\ ReliesOK' /\ AnswerOK' /\ TopOK'
    BY <1>0, <2>1, ReturnProps, AnswersAssumption DEF disk, KeepsOthers, ModuleIds
  <2>4. CacheOK' /\ IndexOK'
    BY <2>1 DEF IInv, CacheOK, IndexOK, ModuleIds, disk
  <2>5. /\ module' \in [Paths -> {NoModule} \cup Modules]
        /\ \A p \in ModuleIds' : module'[p] \in Modules
    BY <2>1, <2>2 DEF IInv, TypeOK, ModuleIds
  <2>6. m_compOutput' \in {"none", "source", "cache"}
    BY <2>1 DEF IInv, TypeOK
  <2>7. TypeOK'
    BY <2>1, <2>3, <2>5, <2>6 DEF IInv, TypeOK, ModuleIds, disk
  <2> QED BY <2>3, <2>4, <2>7 DEF IInv
<1> QED BY <1>1, <1>2

LEMMA LinkFailsIInv ==
  ASSUME IInv, up, stack # <<>>, LinkFails, UNCHANGED <<sessions, imports>>
  PROVE  IInv'
<1>0. /\ Top \in Frames /\ FrameOK(imports, source, Top) /\ Top.pc = "read" /\ Top.path \in Paths
      /\ Top.path \in ModuleIds /\ m_moduleIndices[Top.path] = Len(m_modules)
      /\ TypeOK /\ IndexOK /\ CacheOK
  BY TopFacts, RegisteredModules DEF LinkFails, Registered, IInv, TopOK
<1>1. /\ cache' = [cache EXCEPT ![Top.path] = NoFile]
      /\ UNCHANGED <<clock, source, last_state, quiet>>
  BY DEF LinkFails
<1>2. cache' \in [Paths -> {NoFile} \cup CacheFiles] /\ CacheOK'
  BY <1>0, <1>1 DEF TypeOK, CacheOK
<1>3. CASE Top.caller = "load"
  <2>1. EmptyMemory /\ up' = FALSE
    BY <1>3 DEF LinkFails
  <2>2. /\ clock' \in Times /\ sessions' \in Nat /\ quiet' \in BOOLEAN
        /\ last_state' \in {NoState, TornState} \cup [kind : {"metas"}, metas : [Paths -> Metas]]
    BY <1>0, <1>1 DEF TypeOK
  <2> QED BY <1>1, <1>2, <2>1, <2>2, StopIInv
<1>4. CASE Top.caller # "load"
  <2>1. /\ m_scripts' = [m_scripts EXCEPT ![Top.path] = NoMeta]
        /\ destroyModule(Top.path) /\ Missed
        /\ UNCHANGED <<up, m_sources, errors, m_compOutput, fault>>
    BY <1>4 DEF LinkFails
  <2>2. /\ m_modules' \in Seq(Paths) /\ m_moduleIndices' \in [Paths -> Nat]
        /\ module' \in [Paths -> {NoModule} \cup Modules]
        /\ \A p \in ModuleIds' : module'[p] \in Modules
        /\ KeepsOthers(Top.path) /\ IndexOK'
    BY <1>0, <2>1, DestroyProps
  <2>3. /\ stack' \in Seq(Frames) /\ returned' \in {Nothing, Failed}
        /\ StackOK' /\ ReliesOK' /\ AnswerOK' /\ TopOK'
    BY <1>0, <1>1, <1>4, <2>1, <2>2, MissedProps
  <2>4. m_scripts' \in [Paths -> Metas]
    BY <1>0, <2>1 DEF TypeOK, Metas
  <2>5. TypeOK'
    BY <1>0, <1>1, <1>2, <2>1, <2>2, <2>3, <2>4 DEF TypeOK
  <2> QED BY <1>2, <2>2, <2>3, <2>5 DEF IInv
<1> QED BY <1>3, <1>4

LEMMA BuildFromSourceIInv ==
  ASSUME IInv, up, stack # <<>>, BuildFromSource, UNCHANGED <<sessions, imports>>
  PROVE  IInv'
<1>0. /\ Top \in Frames /\ FrameOK(imports, source, Top) /\ Top.pc = "source" /\ Top.path \in Paths
      /\ Top.caller = "load" /\ Top.path \in Scripts /\ returned = Nothing
      /\ \A d \in ToSet(Top.deps) : m_moduleIndices[d] # 0
  BY TopFacts, RegisteredModules DEF BuildFromSource, FrameOK, IInv, AnswerOK
<1>1. CASE Fault("no_compiler")
  BY <1>1, FaultIInv DEF IInv, TypeOK
<1>2. CASE ~Fault("no_compiler")
  <2> DEFINE version == getSource(Top.path)[Top.path]
  <2>1. PICK quality :
        /\ m_sources' = getSource(Top.path)
        /\ Opened(quality = "unparsable")
        /\ \/ Return(Failed) /\ UNCHANGED <<m_modules, m_moduleIndices, module>>
           \/ /\ createModule(Top.path, version, "source")
              /\ stack' = WithTop([Top EXCEPT !.pc = "imports", !.own = version,
                                             !.m_mod = (m_moduleIndices[Top.path] = 0),
                                             !.illTyped = (quality = "ill_typed")])
              /\ UNCHANGED returned
        /\ UNCHANGED <<clock, disk, up, m_scripts, fault, quiet>>
    BY <1>2 DEF BuildFromSource
  <2>2. m_sources' \in [Scripts -> Nat] /\ version \in Nat
    BY <1>0, <2>1, getSourceType DEF IInv
  <2> HIDE DEF version
  <2>3. errors' \in BOOLEAN /\ m_compOutput' \in {"none", "source", "cache"}
    BY <2>1 DEF Opened, IInv, TypeOK
  <2>4. imports' = imports /\ source' = source /\ cache' = cache
    BY <2>1 DEF disk
  <2>5. /\ stack' \in Seq(Frames) /\ returned' \in {Nothing, Failed} \cup Paths
        /\ StackOK' /\ ReliesOK' /\ AnswerOK' /\ TopOK' /\ IndexOK'
        /\ m_modules' \in Seq(Paths) /\ m_moduleIndices' \in [Paths -> Nat]
        /\ module' \in [Paths -> {NoModule} \cup Modules]
        /\ \A p \in ModuleIds' : module'[p] \in Modules
    <3>1. CASE Return(Failed) /\ UNCHANGED <<m_modules, m_moduleIndices, module>>
      <4>1. /\ stack' \in Seq(Frames) /\ returned' \in {Nothing, Failed} \cup Paths
            /\ StackOK' /\ ReliesOK' /\ AnswerOK' /\ TopOK'
        BY <1>0, <2>4, <3>1, ReturnProps, AnswersAssumption DEF KeepsOthers
      <4> QED BY <3>1, <4>1 DEF IInv, TypeOK, IndexOK, ModuleIds
    <3>2. CASE /\ createModule(Top.path, version, "source")
               /\ stack' = WithTop([Top EXCEPT !.pc = "imports", !.own = version,
                                              !.m_mod = (m_moduleIndices[Top.path] = 0),
                                              !.illTyped = (quality = "ill_typed")])
               /\ UNCHANGED returned
      <4> DEFINE f == [Top EXCEPT !.pc = "imports", !.own = version,
                                  !.m_mod = (m_moduleIndices[Top.path] = 0),
                                  !.illTyped = (quality = "ill_typed")]
      <4>1. /\ f \in Frames /\ f.path = Top.path /\ f.caller = Top.caller /\ f.deps = Top.deps
            /\ f.pc = "imports" /\ stack' = WithTop(f)
        BY <1>0, <2>2, <3>2 DEF Frames
      <4> HIDE DEF f
      <4>2. FrameOK(imports, source, f)
        BY <1>0, <4>1 DEF FrameOK
      <4>3. /\ stack' \in Seq(Frames) /\ StackOK' /\ ReliesOK' /\ AnswerOK' /\ TopOK' /\ IndexOK'
            /\ m_modules' \in Seq(Paths) /\ m_moduleIndices' \in [Paths -> Nat]
            /\ module' \in [Paths -> {NoModule} \cup Modules]
            /\ \A p \in ModuleIds' : module'[p] \in Modules
        BY <1>0, <2>2, <2>4, <3>2, <4>1, <4>2, CreateIInv
      <4> QED BY <1>0, <3>2, <4>3
    <3> QED BY <2>1, <3>1, <3>2
  <2>6. CacheOK'
    BY <2>4 DEF IInv, CacheOK
  <2>7. TypeOK'
    BY <2>1, <2>2, <2>3, <2>5 DEF IInv, TypeOK, disk
  <2> QED BY <2>5, <2>6, <2>7 DEF IInv
<1> QED BY <1>1, <1>2

LEMMA InitialisedType ==
  ASSUME NEW mod \in Modules
  PROVE  Initialised(mod) \in Modules
  BY DEF Initialised, Modules

LEMMA TakeImportIInv ==
  ASSUME IInv, up, stack # <<>>, TakeImport, UNCHANGED <<sessions, imports>>
  PROVE  IInv'
<1>0. /\ Top \in Frames /\ Top.pc = "imports" /\ returned \in {Failed} \cup Paths
  BY TopFacts DEF TakeImport, TakeImportOf, IInv, TypeOK
<1>1. /\ returned' = Nothing
      /\ UNCHANGED <<clock, disk, up, m_scripts, m_sources, m_modules, m_moduleIndices, m_compOutput,
                     fault, quiet>>
  BY DEF TakeImport, TakeImportOf
<1>2. PICK deps : /\ stack' = WithTop([Top EXCEPT !.i = @ + 1, !.deps = deps])
                  /\ deps = Top.deps \/ (deps = Append(Top.deps, returned) /\ returned \in Paths)
  <2>1. CASE returned = Failed
    <3>1. stack' = WithTop([Top EXCEPT !.i = @ + 1])
      BY <2>1 DEF TakeImport, TakeImportOf
    <3>2. [Top EXCEPT !.i = @ + 1] = [Top EXCEPT !.i = @ + 1, !.deps = Top.deps]
      BY <1>0 DEF Frames
    <3> QED BY <3>1, <3>2
  <2>2. CASE returned # Failed
    <3>1. stack' = WithTop([Top EXCEPT !.i = @ + 1, !.deps = addDependency(@, returned)])
      BY <2>2 DEF TakeImport, TakeImportOf
    <3>2. /\ addDependency(Top.deps, returned) = Top.deps
             \/ addDependency(Top.deps, returned) = Append(Top.deps, returned)
          /\ returned \in Paths
      BY <1>0, <2>2 DEF addDependency
    <3> QED BY <3>1, <3>2
  <2> QED BY <2>1, <2>2
<1>3. errors' \in BOOLEAN
  BY DEF TakeImport, TakeImportOf, IInv, TypeOK
<1>4. /\ module' \in [Paths -> {NoModule} \cup Modules]
      /\ \A p \in ModuleIds' : module'[p] \in Modules
  <2>1. CASE module' = module
    BY <1>1, <2>1 DEF IInv, TypeOK, ModuleIds
  <2>2. CASE /\ module' = [module EXCEPT ![returned] = Initialised(@)] /\ returned # Failed
    <3>1. module[returned] \in Modules
      BY <1>0, <2>2, AnswerIsUsed DEF IInv, TypeOK, ModuleIds
    <3>2. Initialised(module[returned]) \in Modules
      BY <3>1, InitialisedType
    <3> QED BY <1>1, <2>2, <3>2 DEF IInv, TypeOK, ModuleIds
  <2> QED BY <2>1, <2>2 DEF TakeImport, TakeImportOf
<1>5. /\ stack' \in Seq(Frames) /\ StackOK' /\ ReliesOK' /\ AnswerOK' /\ TopOK'
  <2> DEFINE f == [Top EXCEPT !.i = @ + 1, !.deps = deps]
  <2>1. Top.i + 1 \in Times /\ Top.deps \in Seq(Paths) /\ deps \in Seq(Paths)
    BY <1>0, <1>2, AppendProperties DEF Frames, Times
  <2>2. /\ f \in Frames /\ f.path = Top.path /\ f.caller = Top.caller /\ f.pc = Top.pc
        /\ f.entry = Top.entry /\ f.deps = deps /\ stack' = WithTop(f)
    BY <1>0, <1>2, <2>1 DEF Frames
  <2> HIDE DEF f
  <2>3. \A d \in ToSet(f.deps) : d \in ToSet(Top.deps) \/ d = returned
    <3>1. CASE deps = Top.deps
      BY <2>2, <3>1
    <3>2. CASE deps = Append(Top.deps, returned) /\ returned \in Paths
      <4>1. ToSet(deps) = ToSet(Top.deps) \cup {returned}
        BY <2>1, <3>2, AppendSet
      <4> QED BY <2>2, <4>1
    <3> QED BY <1>2, <3>1, <3>2
  <2>4. returned = Failed => f.deps = Top.deps
    BY <1>2, <2>2, AnswersAssumption
  <2> QED BY <1>0, <1>1, <2>2, <2>3, <2>4, TakeProps DEF disk
<1>6. CacheOK' /\ IndexOK'
  BY <1>1 DEF IInv, CacheOK, IndexOK, ModuleIds, disk
<1>7. TypeOK'
  BY <1>1, <1>3, <1>4, <1>5 DEF IInv, TypeOK, disk
<1> QED BY <1>5, <1>6, <1>7 DEF IInv

LEMMA CompileErrorIInv ==
  ASSUME IInv, up, stack # <<>>, CompileError, UNCHANGED <<sessions, imports>>
  PROVE  IInv'
<1> DEFINE f == [Top EXCEPT !.illTyped = FALSE]
<1>1. /\ Top.pc = "imports" /\ returned = Nothing /\ errors' = TRUE /\ stack' = WithTop(f)
      /\ UNCHANGED <<clock, disk, up, m_scripts, m_sources, m_modules, m_moduleIndices, module,
                     m_compOutput, returned, fault, quiet>>
  BY DEF CompileError
<1>2. Top \in Frames /\ FrameOK(imports, source, Top) /\ \A d \in Relies(Top) : m_moduleIndices[d] # 0
  BY TopFacts
<1>3. /\ f \in Frames /\ f.path = Top.path /\ f.caller = Top.caller /\ f.deps = Top.deps
      /\ f.pc = "imports"
  BY <1>1, <1>2 DEF Frames
<1> HIDE DEF f
<1>4. FrameOK(imports, source, f) /\ Relies(f) = Relies(Top)
  BY <1>1, <1>2, <1>3 DEF FrameOK, Relies, Registered
<1>5. stack' \in Seq(Frames) /\ Top' = f /\ StackOK' /\ ReliesOK'
  BY <1>1, <1>2, <1>3, <1>4, StayStack DEF disk, KeepsOthers
<1>6. AnswerOK' /\ TopOK'
  BY <1>1, <1>3, <1>5, AnswersAssumption DEF AnswerOK, TopOK
<1>7. CacheOK' /\ IndexOK'
  BY <1>1 DEF IInv, CacheOK, IndexOK, ModuleIds, disk
<1>8. TypeOK'
  BY <1>1, <1>5 DEF IInv, TypeOK, ModuleIds, disk
<1> QED BY <1>5, <1>6, <1>7, <1>8 DEF IInv

LEMMA SpecializeIInv ==
  ASSUME IInv, up, stack # <<>>, Specialize, UNCHANGED <<sessions, imports>>
  PROVE  IInv'
<1>0. /\ Top \in Frames /\ Top.path \in Paths /\ FrameOK(imports, source, Top)
      /\ Top.pc = "imports" /\ ~MoreImports /\ returned = Nothing
      /\ imports \in ImportGraphs /\ stack \in Seq(Frames) /\ StackOK /\ ReliesOK
  BY TopFacts DEF Specialize, IInv, StackOK, ReliesOK
<1>1. UNCHANGED <<clock, disk, up, m_sources, m_modules, m_moduleIndices, module, errors, m_compOutput,
                  fault, quiet>>
  BY DEF Specialize
<1>2. PICK t \in Wanted :
         IF m_moduleIndices[t] # 0
         THEN /\ returned' = t
              /\ UNCHANGED <<stack, m_scripts>>
         ELSE /\ m_scripts' = IF m_scripts[t] # NoMeta THEN m_scripts
                              ELSE [m_scripts EXCEPT ![t] = [modified_on |-> 0, cached_on |-> 0]]
              /\ stack' = Append(stack, Frame(t, IF cache[t] = NoFile THEN "remake" ELSE "cached",
                                              "specialize"))
              /\ UNCHANGED returned
  BY DEF Specialize
<1>3. AsksTemplate(imports, Top, t) /\ t \in Paths /\ t \notin Scripts
  <2>1. /\ Top.path \notin Templates /\ t \in Templates /\ t \in ToSet(imports[Top.path])
        /\ Origin[t] \in ToSet(Top.deps)
    BY <1>2 DEF Wanted
  <2>2. t \in Paths /\ t \notin Scripts
    BY <2>1, <1>0, GraphFacts DEF Paths
  <2>3. Origin[t] \in ToSet(imports[Top.path])
    BY <2>1, <1>0 DEF FrameOK, Uses
  <2>4. ~ImportsLeft(imports, Top)
    BY <1>0 DEF MoreImports, ImportsLeft
  <2> QED BY <2>1, <2>2, <2>3, <2>4, <1>0 DEF AsksTemplate, Uses
<1>4. /\ stack' \in Seq(Frames) /\ returned' \in {Nothing, Failed} \cup Paths
      /\ StackOK' /\ ReliesOK' /\ AnswerOK' /\ TopOK' /\ m_scripts' \in [Paths -> Metas]
  <2>1. CASE m_moduleIndices[t] # 0
    <3>1. returned' = t /\ stack' = stack /\ m_scripts' = m_scripts /\ Top' = Top
      BY <1>2, <2>1 DEF Top
    <3>2. AnswerOK' /\ TopOK'
      BY <1>0, <1>1, <1>3, <2>1, <3>1, AnswersAssumption DEF AnswerOK, TopOK, Asks
    <3> QED BY <1>0, <1>1, <1>3, <3>1, <3>2 DEF StackOK, ReliesOK, disk, IInv, TypeOK
  <2>2. CASE m_moduleIndices[t] = 0
    <3> DEFINE pc == IF cache[t] = NoFile THEN "remake" ELSE "cached"
               f == Frame(t, pc, "specialize")
    <3>1. /\ stack' = Append(stack, f) /\ returned' = returned
          /\ m_scripts' = IF m_scripts[t] # NoMeta THEN m_scripts
                          ELSE [m_scripts EXCEPT ![t] = [modified_on |-> 0, cached_on |-> 0]]
      BY <1>2, <2>2
    <3>2. m_scripts' \in [Paths -> Metas]
      BY <1>3, <3>1 DEF IInv, TypeOK, Metas
    <3>3. pc \in {"remake", "cached"} /\ (pc = "cached" => cache[t] # NoFile)
      OBVIOUS
    <3> HIDE DEF pc
    <3>4. /\ f \in Frames /\ f.path = t /\ f.caller = "specialize" /\ f.deps = <<>> /\ f.pc = pc
      BY <1>3, <3>3 DEF Frame, Frames, Times
    <3> HIDE DEF f
    <3>5. FrameOK(imports, source, f) /\ AskedBy(imports, Top, f)
      BY <1>3, <3>3, <3>4 DEF FrameOK, AskedBy, ToSet
    <3>6. /\ stack' \in Seq(Frames) /\ Top' = f /\ StackOK' /\ ReliesOK'
      BY <1>0, <1>1, <2>2, <3>1, <3>3, <3>4, <3>5, PushStack DEF Registered, disk
    <3>7. AnswerOK' /\ TopOK'
      BY <1>0, <1>1, <3>1, <3>3, <3>4, <3>6, AnswersAssumption DEF AnswerOK, TopOK, disk
    <3> QED BY <1>0, <3>1, <3>2, <3>6, <3>7
  <2> QED BY <2>1, <2>2
<1>5. CacheOK' /\ IndexOK'
  BY <1>1 DEF IInv, CacheOK, IndexOK, ModuleIds, disk
<1>6. TypeOK'
  BY <1>1, <1>4 DEF IInv, TypeOK, ModuleIds, disk
<1> QED BY <1>4, <1>5, <1>6 DEF IInv

LEMMA TakeSpecializationIInv ==
  ASSUME IInv, up, stack # <<>>, TakeSpecialization, UNCHANGED <<sessions, imports>>
  PROVE  IInv'
<1>0. /\ Top \in Frames /\ Top.pc = "imports" /\ ~MoreImports /\ returned # Nothing
      /\ returned' = Nothing /\ stack' = WithTop([Top EXCEPT !.deps = Append(@, returned)])
  BY TopFacts DEF TakeSpecialization
<1>1. UNCHANGED <<clock, disk, up, m_scripts, m_sources, m_modules, m_moduleIndices, module, errors,
                  m_compOutput, fault, quiet>>
  BY DEF TakeSpecialization
<1>2. returned \in Paths
  BY <1>0 DEF IInv, TypeOK, AnswerOK, ImportsLeft, MoreImports
<1>3. /\ stack' \in Seq(Frames) /\ StackOK' /\ ReliesOK' /\ AnswerOK' /\ TopOK'
  <2> DEFINE f == [Top EXCEPT !.deps = Append(@, returned)]
  <2>1. Top.deps \in Seq(Paths) /\ Append(Top.deps, returned) \in Seq(Paths)
    BY <1>0, <1>2, AppendProperties DEF Frames
  <2>2. /\ f \in Frames /\ f.path = Top.path /\ f.caller = Top.caller /\ f.pc = Top.pc
        /\ f.entry = Top.entry /\ f.deps = Append(Top.deps, returned) /\ stack' = WithTop(f)
    BY <1>0, <2>1 DEF Frames
  <2> HIDE DEF f
  <2>3. ToSet(f.deps) = ToSet(Top.deps) \cup {returned}
    BY <1>2, <2>1, <2>2, AppendSet
  <2> QED BY <1>0, <1>1, <1>2, <2>2, <2>3, TakeProps, AnswersAssumption DEF disk
<1>4. CacheOK' /\ IndexOK'
  BY <1>1 DEF IInv, CacheOK, IndexOK, ModuleIds, disk
<1>5. TypeOK'
  BY <1>0, <1>1, <1>3 DEF IInv, TypeOK, ModuleIds, disk
<1> QED BY <1>3, <1>4, <1>5 DEF IInv

LEMMA NowType ==
  ASSUME IInv
  PROVE  Now \subseteq Times /\ clock \in Times
  BY DEF IInv, TypeOK, Now, Times

(* The script whose template is specialized is there.                      *)
LEMMA OriginIsThere ==
  ASSUME IInv, stack # <<>>, Top.caller = "specialize"
  PROVE  Top.path \in Templates /\ Origin[Top.path] \in ModuleIds
<1>0. /\ Len(stack) \in Nat /\ Len(stack) > 0 /\ stack \in Seq(Frames)
      /\ StackShape(imports, source, stack) /\ StackRelies(stack, m_moduleIndices)
      /\ imports \in ImportGraphs
  BY TopFacts
<1>1. Len(stack) - 1 \in 1 .. Len(stack) - 1 /\ Len(stack) - 1 \in 1 .. Len(stack)
  <2>1. stack[1].caller = "load"
    BY <1>0 DEF StackShape
  <2>2. Len(stack) \in Nat /\ Len(stack) > 0 /\ Len(stack) # 1
    BY <1>0, <2>1 DEF Top
  <2>3. \A n \in Nat : n > 0 /\ n # 1 => n - 1 \in 1 .. n - 1 /\ n - 1 \in 1 .. n
    OBVIOUS
  <2> QED BY <2>2, <2>3
<1> DEFINE below == stack[Len(stack) - 1]
<1>2. AskedBy(imports, below, Top)
  BY <1>0, <1>1 DEF StackShape, Top
<1>3. AsksTemplate(imports, below, Top.path)
  BY <1>2 DEF AskedBy
<1>4. Top.path \in Templates /\ Origin[Top.path] \in ToSet(below.deps)
  BY <1>3 DEF AsksTemplate
<1>5. m_moduleIndices[Origin[Top.path]] # 0
  BY <1>0, <1>1, <1>4 DEF StackRelies, Relies
<1>6. Origin[Top.path] \in Paths
  BY <1>0, <1>4, GraphFacts DEF Paths
<1> QED BY <1>4, <1>5, <1>6 DEF ModuleIds

LEMMA RemakeIInv ==
  ASSUME IInv, up, stack # <<>>, Remake, UNCHANGED <<sessions, imports>>
  PROVE  IInv'
<1>0. /\ Top \in Frames /\ FrameOK(imports, source, Top) /\ Top.pc = "remake" /\ Top.path \in Paths
      /\ Top.caller = "specialize" /\ returned = Nothing
      /\ Top.path \in Templates /\ Origin[Top.path] \in ModuleIds /\ Origin[Top.path] \in Paths
  BY TopFacts, OriginIsThere DEF Remake, FrameOK, IInv, AnswerOK, ModuleIds
<1> DEFINE own == module[Origin[Top.path]].own
           f == [Top EXCEPT !.pc = "imports", !.deps = <<Origin[Top.path]>>, !.own = own,
                            !.m_mod = (m_moduleIndices[Top.path] = 0)]
<1>1. /\ clock' \in Now
      /\ m_scripts' = [m_scripts EXCEPT ![Top.path] =
           [modified_on |-> clock', cached_on |-> IF @ = NoMeta THEN 0 ELSE @.cached_on]]
      /\ createModule(Top.path, own, "source")
      /\ stack' = WithTop(f)
      /\ UNCHANGED <<disk, up, m_sources, errors, m_compOutput, returned, fault, quiet>>
  BY DEF Remake
<1>2. own \in Nat
  BY <1>0 DEF IInv, TypeOK, Modules
<1> HIDE DEF own
<1>3. /\ f \in Frames /\ f.path = Top.path /\ f.caller = Top.caller /\ f.pc = "imports"
      /\ f.deps = <<Origin[Top.path]>>
  <2>1. <<Origin[Top.path]>> \in Seq(Paths)
    BY <1>0
  <2> QED BY <1>0, <1>2, <2>1 DEF Frames
<1> HIDE DEF f
<1>4. ToSet(f.deps) = {Origin[Top.path]}
  BY <1>3 DEF ToSet
<1>5. FrameOK(imports, source, f) /\ \A d \in ToSet(f.deps) : m_moduleIndices[d] # 0
  BY <1>0, <1>3, <1>4 DEF FrameOK, Uses, ModuleIds
<1>6. /\ stack' \in Seq(Frames) /\ StackOK' /\ ReliesOK' /\ AnswerOK' /\ TopOK' /\ IndexOK'
      /\ m_modules' \in Seq(Paths) /\ m_moduleIndices' \in [Paths -> Nat]
      /\ module' \in [Paths -> {NoModule} \cup Modules]
      /\ \A p \in ModuleIds' : module'[p] \in Modules
  <2>1. imports' = imports /\ source' = source /\ returned' = returned
    BY <1>1 DEF disk
  <2> QED BY <1>0, <1>1, <1>2, <1>3, <1>5, <2>1, CreateIInv
<1>7. clock' \in Times /\ m_scripts' \in [Paths -> Metas]
  <2>1. clock' \in Times
    BY <1>1, NowType
  <2>2. m_scripts[Top.path] \in Metas /\ m_scripts \in [Paths -> Metas]
    BY <1>0 DEF IInv, TypeOK
  <2>3. (IF m_scripts[Top.path] = NoMeta THEN 0 ELSE m_scripts[Top.path].cached_on) \in Nat
    BY <2>2 DEF Metas
  <2> QED BY <1>1, <2>1, <2>2, <2>3 DEF Metas, Times
<1>8. CacheOK'
  BY <1>1 DEF IInv, CacheOK, disk
<1>9. TypeOK'
  BY <1>1, <1>6, <1>7 DEF IInv, TypeOK, disk
<1> QED BY <1>6, <1>8, <1>9 DEF IInv

(* The contents that go into what the frame on top compiles.               *)
LEMMA madeOfType ==
  ASSUME IInv, stack # <<>>
  PROVE  madeOf(Top) \in Contents
<1>1. Top \in Frames
  BY TopFacts
<1>2. <<Top.path, Top.own>> \in Paths \X Nat
  BY <1>1 DEF Frames
<1>3. \A d \in ToSet(Top.deps) : module[d].made \in SUBSET (Paths \X Nat)
  BY RegisteredModules DEF Modules, Contents
<1> QED BY <1>2, <1>3 DEF madeOf, Contents

LEMMA PostCompileIInv ==
  ASSUME IInv, up, stack # <<>>, PostCompile, UNCHANGED <<sessions, imports>>
  PROVE  IInv'
<1>0. /\ Top \in Frames /\ Top.path \in Paths /\ FrameOK(imports, source, Top)
      /\ Top.pc = "imports" /\ returned = Nothing
      /\ \A d \in Relies(Top) : m_moduleIndices[d] # 0
      /\ Top.path \in ModuleIds /\ module[Top.path] \in Modules
      /\ \A d \in ToSet(Top.deps) : d \in Paths /\ module[d] \in Modules
  BY TopFacts, RegisteredModules DEF PostCompile, Registered
<1> SUFFICES ASSUME Top.m_mod PROVE IInv'
  BY FaultIInv DEF PostCompile, IInv, TypeOK
<1>1. UNCHANGED <<clock, disk, up, m_scripts, m_sources, m_modules, m_moduleIndices, errors, m_compOutput,
                  fault, quiet>>
  BY DEF PostCompile
<1>2. /\ stack' \in Seq(Frames) /\ returned' \in {Nothing, Failed} \cup Paths
      /\ StackOK' /\ ReliesOK' /\ AnswerOK' /\ TopOK'
      /\ module' \in [Paths -> {NoModule} \cup Modules]
      /\ \A p \in ModuleIds' : module'[p] \in Modules
  <2>1. CASE errors
    <3>1. Return(Top.path) /\ module' = module
      BY <2>1 DEF PostCompile
    <3>2. /\ stack' \in Seq(Frames) /\ returned' \in {Nothing, Failed} \cup Paths
          /\ StackOK' /\ ReliesOK' /\ AnswerOK' /\ TopOK'
      BY <1>0, <1>1, <3>1, ReturnProps, AnswersAssumption DEF disk, KeepsOthers, ModuleIds
    <3> QED BY <1>1, <3>1, <3>2 DEF IInv, TypeOK, ModuleIds
  <2>2. CASE ~errors
    <3> DEFINE r == [module[Top.path] EXCEPT !.built = TRUE, !.generated = TRUE,
                         !.deps = ToSet(Top.deps), !.made = madeOf(Top),
                         !.against = {[path |-> d, made |-> module[d].made] : d \in ToSet(Top.deps)},
                         !.trusted = AllTrusted(Top.deps)]
               f == [Top EXCEPT !.pc = "save"]
    <3>1. module' = [module EXCEPT ![Top.path] = r] /\ stack' = WithTop(f) /\ returned' = returned
      BY <2>2 DEF PostCompile
    <3>2. r \in Modules
      <4>1. {[path |-> d, made |-> module[d].made] : d \in ToSet(Top.deps)}
              \subseteq [path : Paths, made : Contents]
        BY <1>0 DEF Modules
      <4>2. AllTrusted(Top.deps) \in BOOLEAN
        BY DEF AllTrusted
      <4> QED BY <1>0, <4>1, <4>2, madeOfType DEF Modules
    <3> HIDE DEF r
    <3>3. /\ f \in Frames /\ f.path = Top.path /\ f.caller = Top.caller /\ f.deps = Top.deps
          /\ f.pc = "save"
      BY <1>0 DEF Frames
    <3> HIDE DEF f
    <3>4. FrameOK(imports, source, f) /\ Relies(f) = Relies(Top)
      BY <1>0, <3>3 DEF FrameOK, Relies, Registered
    <3>5. /\ stack' \in Seq(Frames) /\ Top' = f /\ StackOK' /\ ReliesOK'
      BY <1>0, <1>1, <3>1, <3>3, <3>4, StayStack DEF disk, KeepsOthers
    <3>6. AnswerOK' /\ TopOK'
      BY <1>0, <3>1, <3>3, <3>5, AnswersAssumption DEF AnswerOK, TopOK
    <3> QED BY <1>0, <1>1, <3>1, <3>2, <3>5, <3>6 DEF IInv, TypeOK, ModuleIds
  <2> QED BY <2>1, <2>2
<1>3. CacheOK' /\ IndexOK'
  BY <1>1 DEF IInv, CacheOK, IndexOK, ModuleIds, disk
<1>4. TypeOK'
  BY <1>1, <1>2 DEF IInv, TypeOK, disk
<1> QED BY <1>2, <1>3, <1>4 DEF IInv

LEMMA serializedProps ==
  ASSUME IInv, stack # <<>>, NEW t \in Times
  PROVE  /\ serialized(Top, t) \in WholeFiles /\ serialized(Top, t) # NoFile
         /\ \A d \in ToSet(serialized(Top, t).deps) : d.path \in ToSet(Top.deps)
<1>1. Top \in Frames /\ Top.deps \in Seq(Paths) /\ Top.own \in Nat
  BY TopFacts DEF Frames
<1> DEFINE e(k) == [path |-> Top.deps[k], version |-> m_scripts[Top.deps[k]].modified_on,
                    made |-> module[Top.deps[k]].made]
           deps == [k \in DOMAIN Top.deps |-> e(k)]
<1>2. ASSUME NEW k \in DOMAIN Top.deps
      PROVE  e(k) \in WrittenDeps /\ Top.deps[k] \in ToSet(Top.deps)
  <2>1. Top.deps[k] \in ToSet(Top.deps)
    BY DEF ToSet
  <2>2. /\ Top.deps[k] \in Paths /\ module[Top.deps[k]] \in Modules
    BY <2>1, RegisteredModules
  <2>3. m_scripts[Top.deps[k]].modified_on \in Int
    <3>1. m_scripts[Top.deps[k]] \in Metas
      BY <2>2 DEF IInv, TypeOK
    <3>2. \A meta \in Metas : meta.modified_on \in Int
      BY DEF Metas, NoMeta
    <3> QED BY <3>1, <3>2
  <2>4. module[Top.deps[k]].made \in Contents
    BY <2>2 DEF Modules
  <2> QED BY <2>1, <2>2, <2>3, <2>4 DEF WrittenDeps
<1> HIDE DEF e
<1>3. deps \in Seq(WrittenDeps) /\ DOMAIN deps = DOMAIN Top.deps
  <2>1. DOMAIN Top.deps = 1 .. Len(Top.deps) /\ Len(Top.deps) \in Nat
    BY <1>1, LenProperties
  <2>2. deps \in [1 .. Len(Top.deps) -> WrittenDeps]
    BY <1>2, <2>1
  <2> QED BY <2>1, <2>2
<1>4. \A d \in ToSet(deps) : d.path \in ToSet(Top.deps)
  BY <1>2, <1>3 DEF ToSet, e
<1>5. serialized(Top, t) = [mtime |-> t, torn |-> FALSE, own |-> Top.own, made |-> madeOf(Top),
                            quiet |-> quiet /\ module[Top.path].trusted, deps |-> deps]
  BY DEF serialized, e
<1> HIDE DEF deps
<1>6. (quiet /\ module[Top.path].trusted) \in BOOLEAN
  OBVIOUS
<1>7. serialized(Top, t) \in WholeFiles /\ serialized(Top, t).deps = deps
  BY <1>1, <1>3, <1>5, <1>6, madeOfType DEF WholeFiles
<1>8. serialized(Top, t) # NoFile
  BY <1>5 DEF NoFile, Times
<1> QED BY <1>4, <1>7, <1>8

LEMMA OnScriptCompiledIInv ==
  ASSUME IInv, up, stack # <<>>, OnScriptCompiled, UNCHANGED <<sessions, imports>>
  PROVE  IInv'
<1>0. /\ Top \in Frames /\ Top.path \in Paths /\ FrameOK(imports, source, Top)
      /\ Top.pc = "save" /\ Top.path \in ModuleIds
  BY TopFacts, RegisteredModules DEF OnScriptCompiled, Registered
<1>1. /\ m_compOutput' = IF IsRoot THEN "source" ELSE m_compOutput
      /\ Return(Top.path)
      /\ UNCHANGED <<source, last_state, up, m_sources, m_modules, m_moduleIndices, module, errors,
                     fault, quiet>>
  BY DEF OnScriptCompiled
<1>2. /\ stack' \in Seq(Frames) /\ returned' \in {Nothing, Failed} \cup Paths
      /\ StackOK' /\ ReliesOK' /\ AnswerOK' /\ TopOK'
  BY <1>0, <1>1, ReturnProps, AnswersAssumption DEF KeepsOthers, ModuleIds
<1>3. /\ clock' \in Times /\ m_scripts' \in [Paths -> Metas]
      /\ cache' \in [Paths -> {NoFile} \cup CacheFiles] /\ CacheOK'
  <2>1. CASE UNCHANGED <<clock, cache, m_scripts>>
    BY <1>1, <2>1 DEF IInv, TypeOK, CacheOK
  <2>2. CASE /\ clock' \in Now
             /\ cache' = [cache EXCEPT ![Top.path] = serialized(Top, clock')]
             /\ m_scripts' = [m_scripts EXCEPT ![Top.path].cached_on = clock']
    <3>1. clock' \in Times
      BY <2>2, NowType
    <3> DEFINE c == serialized(Top, clock')
    <3>2. c \in CacheFiles /\ c # NoFile /\ \A d \in ToSet(c.deps) : d.path \in ToSet(Top.deps)
      BY <3>1, serializedProps DEF CacheFiles
    <3>3. cache' = [cache EXCEPT ![Top.path] = c]
      BY <2>2
    <3> HIDE DEF c
    <3>4. cache \in [Paths -> {NoFile} \cup CacheFiles] /\ CacheOK /\ m_scripts \in [Paths -> Metas]
      BY DEF IInv, TypeOK
    <3>5. cache' \in [Paths -> {NoFile} \cup CacheFiles]
      BY <1>0, <3>2, <3>3, <3>4
    <3>6. CacheOK'
      <4> SUFFICES ASSUME NEW p \in Paths, cache'[p] # NoFile
                   PROVE  /\ p \in Scripts => source[p] # NoFile
                          /\ \A d \in ToSet(cache'[p].deps) : d.path \in Uses(imports, p)
        BY <1>1 DEF CacheOK
      <4>1. CASE p = Top.path
        BY <1>0, <3>2, <3>3, <3>4, <4>1 DEF FrameOK
      <4>2. CASE p # Top.path
        BY <3>3, <3>4, <4>2 DEF CacheOK
      <4> QED BY <4>1, <4>2
    <3>7. m_scripts' \in [Paths -> Metas]
      <4>1. [m_scripts[Top.path] EXCEPT !.cached_on = clock'] \in Metas
        <5>1. CASE m_scripts[Top.path] = NoMeta
          BY <5>1 DEF NoMeta, Metas
        <5>2. CASE m_scripts[Top.path] \in [modified_on : Nat, cached_on : Nat]
          BY <3>1, <5>2 DEF Metas, Times
        <5> QED BY <1>0, <3>4, <5>1, <5>2 DEF Metas
      <4> QED BY <2>2, <3>4, <4>1
    <3> QED BY <3>1, <3>5, <3>6, <3>7
  <2> QED BY <2>1, <2>2 DEF OnScriptCompiled, saved
<1>4. m_compOutput' \in {"none", "source", "cache"}
  BY <1>1 DEF IInv, TypeOK
<1>5. IndexOK'
  BY <1>1 DEF IInv, IndexOK, ModuleIds
<1>6. TypeOK'
  BY <1>1, <1>2, <1>3, <1>4 DEF IInv, TypeOK, ModuleIds
<1> QED BY <1>2, <1>3, <1>5, <1>6 DEF IInv

-----------------------------------------------------------------------------
(* Every step keeps the invariant: sessions, edits and the host            *)

LEMMA scanDirectoryType ==
  ASSUME TypeOK, NEW metas \in [Paths -> Metas]
  PROVE  scanDirectory(metas) \in [Paths -> Metas]
<1> SUFFICES ASSUME NEW p \in Scripts, source[p] # NoFile
             PROVE  processScript(metas[p], source[p]) \in Metas
  BY DEF scanDirectory
<1>1. source[p].mtime \in Nat /\ metas[p] \in Metas
  BY DEF TypeOK, Files, Times, Paths
<1>2. metas[p] # NoMeta => metas[p] \in [modified_on : Nat, cached_on : Nat]
  BY <1>1 DEF Metas
<1> QED BY <1>1, <1>2 DEF processScript, Metas

LEMMA StartIInv ==
  ASSUME IInv, Start
  PROVE  IInv'
<1>1. /\ ~up /\ sessions' = sessions + 1 /\ up' = TRUE /\ quiet' = TRUE
      /\ m_scripts' = scanDirectory(restored)
      /\ UNCHANGED <<clock, imports, disk, m_sources, m_modules, m_moduleIndices, module, errors,
                     m_compOutput, stack, returned>>
  BY DEF Start
<1>2. m_scripts' \in [Paths -> Metas]
  <2>1. restored \in [Paths -> Metas]
    BY DEF restored, IInv, TypeOK, NoState, TornState, Metas
  <2> QED BY <1>1, <2>1, scanDirectoryType DEF IInv
<1>3. stack = <<>> /\ stack' = <<>> /\ Top' = Top
  BY <1>1 DEF IInv, TypeOK, Top
<1>4. StackOK' /\ ReliesOK' /\ AnswerOK' /\ TopOK'
  BY <1>1, <1>3 DEF IInv, StackOK, ReliesOK, AnswerOK, TopOK, disk
<1>5. CacheOK' /\ IndexOK'
  BY <1>1 DEF IInv, CacheOK, IndexOK, ModuleIds, disk
<1>6. TypeOK'
  BY <1>1, <1>2 DEF IInv, TypeOK, ModuleIds, disk
<1> QED BY <1>4, <1>5, <1>6 DEF IInv

LEMMA serviceIInv ==
  ASSUME IInv, service
  PROVE  IInv'
<1>1. /\ up /\ stack = <<>> /\ m_scripts' = scanDirectory(m_scripts)
      /\ UNCHANGED <<clock, sessions, imports, disk, up, m_sources, m_modules, m_moduleIndices,
                     module, errors, m_compOutput, stack, returned, fault, quiet>>
  BY DEF service
<1>2. m_scripts' \in [Paths -> Metas]
  BY <1>1, scanDirectoryType DEF IInv, TypeOK
<1>3. StackOK' /\ ReliesOK' /\ AnswerOK' /\ TopOK'
  BY <1>1 DEF IInv, StackOK, ReliesOK, AnswerOK, TopOK, disk
<1>4. CacheOK' /\ IndexOK'
  BY <1>1 DEF IInv, CacheOK, IndexOK, ModuleIds, disk
<1>5. TypeOK'
  BY <1>1, <1>2 DEF IInv, TypeOK, ModuleIds, disk
<1> QED BY <1>3, <1>4, <1>5 DEF IInv

LEMMA RestoreTwiceDeletedIInv ==
  ASSUME IInv, RestoreTwiceDeleted
  PROVE  IInv'
<1>1. Fault("double_delete") /\ imports' = imports /\ sessions' \in Nat
  BY DEF RestoreTwiceDeleted, IInv, TypeOK
<1> QED BY <1>1, FaultIInv

LEMMA ShutdownIInv ==
  ASSUME IInv, Shutdown
  PROVE  IInv'
<1>1. /\ up' = FALSE /\ EmptyMemory
      /\ last_state' = [kind |-> "metas", metas |-> m_scripts]
      /\ UNCHANGED <<clock, sessions, imports, source, cache, quiet>>
  BY DEF Shutdown
<1>2. CacheOK'
  BY <1>1 DEF IInv, CacheOK
<1>3. /\ clock' \in Times /\ sessions' \in Nat /\ quiet' \in BOOLEAN
      /\ cache' \in [Paths -> {NoFile} \cup CacheFiles]
      /\ last_state' \in {NoState, TornState} \cup [kind : {"metas"}, metas : [Paths -> Metas]]
  BY <1>1 DEF IInv, TypeOK
<1> QED BY <1>1, <1>2, <1>3, StopIInv

LEMMA KillIInv ==
  ASSUME IInv, Kill
  PROVE  IInv'
<1>1. /\ up' = FALSE /\ EmptyMemory
      /\ UNCHANGED <<sessions, imports, source, fault, quiet>>
  BY DEF Kill
<1>2. /\ clock' \in Times /\ cache' \in [Paths -> {NoFile} \cup CacheFiles] /\ CacheOK'
      /\ last_state' \in {NoState, TornState} \cup [kind : {"metas"}, metas : [Paths -> Metas]]
  <2>1. CASE UNCHANGED <<clock, cache, last_state>>
    BY <1>1, <2>1 DEF IInv, TypeOK, CacheOK
  <2>2. CASE /\ stack # <<>> /\ Top.pc = "save"
             /\ clock' \in Now
             /\ cache' = [cache EXCEPT ![Top.path] = [mtime |-> clock', torn |-> TRUE, deps |-> <<>>]]
             /\ UNCHANGED last_state
    <3> DEFINE c == [mtime |-> clock', torn |-> TRUE, deps |-> <<>>]
    <3>1. clock' \in Times
      BY <2>2, NowType
    <3>2. c \in CacheFiles /\ ToSet(c.deps) = {}
      BY <3>1 DEF CacheFiles, CutFiles, ToSet
    <3>3. cache' = [cache EXCEPT ![Top.path] = c]
      BY <2>2
    <3> HIDE DEF c
    <3>4. Top.path \in Paths /\ FrameOK(imports, source, Top)
      BY <2>2, TopFacts
    <3>5. cache' \in [Paths -> {NoFile} \cup CacheFiles] /\ CacheOK'
      BY <1>1, <3>2, <3>3, <3>4 DEF IInv, TypeOK, CacheOK, FrameOK
    <3> QED BY <2>2, <3>1, <3>5 DEF IInv, TypeOK
  <2>3. CASE stack = <<>> /\ last_state' = TornState /\ UNCHANGED <<clock, cache>>
    BY <1>1, <2>3 DEF IInv, TypeOK, CacheOK
  <2> QED BY <2>1, <2>2, <2>3 DEF Kill
<1>3. sessions' \in Nat /\ quiet' \in BOOLEAN
  BY <1>1 DEF IInv, TypeOK
<1> QED BY <1>1, <1>2, <1>3, StopIInv

LEMMA EditIInv ==
  ASSUME IInv, NEW p \in Scripts, Edit(p)
  PROVE  IInv'
<1>1. PICK quality \in {"sound", "unparsable", "ill_typed"} :
        source' = [source EXCEPT ![p] = [mtime |-> NextEdit, quality |-> quality]]
  BY DEF Edit
<1>2. /\ clock' = NextEdit /\ quiet' = (quiet /\ ~up)
      /\ UNCHANGED <<sessions, imports, cache, last_state, up, m_scripts, m_sources, m_modules,
                     m_moduleIndices, module, errors, m_compOutput, stack, returned, fault>>
  BY DEF Edit, memory
<1>3. NextEdit \in Times
  <2>1. clock \in Nat /\ clock > 0
    BY DEF IInv, TypeOK, Times
  <2> QED BY <2>1 DEF NextEdit, Times
<1>4. /\ source' \in [Scripts -> Files] /\ source'[p] # NoFile
      /\ \A q \in Scripts : source[q] # NoFile => source'[q] # NoFile
  BY <1>1, <1>3 DEF IInv, TypeOK, Files, NoFile, Times
<1>5. Top' = Top
  BY <1>2 DEF Top
<1>6. StackOK'
  BY <1>2, <1>4 DEF IInv, StackOK, StackShape, FrameOK
<1>7. CacheOK'
  BY <1>2, <1>4 DEF IInv, CacheOK
<1>8. AnswerOK' /\ TopOK' /\ ReliesOK' /\ IndexOK'
  BY <1>2, <1>5 DEF IInv, AnswerOK, TopOK, ReliesOK, IndexOK, ModuleIds
<1>9. TypeOK'
  BY <1>2, <1>3, <1>4 DEF IInv, TypeOK, ModuleIds
<1> QED BY <1>6, <1>7, <1>8, <1>9 DEF IInv

LEMMA HostLoadIInv ==
  ASSUME IInv, NEW p \in Scripts, HostLoad(p)
  PROVE  IInv'
<1>1. /\ up /\ stack = <<>> /\ returned = Nothing /\ getModule(p, stack) /\ p \in Paths
      /\ UNCHANGED <<clock, sessions, imports, disk, up, m_scripts, m_sources, m_modules,
                     m_moduleIndices, module, errors, m_compOutput, fault, quiet>>
  BY DEF HostLoad, Paths
<1>2. /\ stack' \in Seq(Frames) /\ returned' \in {Nothing, Failed} \cup Paths
      /\ StackOK' /\ ReliesOK' /\ AnswerOK' /\ TopOK'
  BY <1>1, GetModuleProps DEF disk
<1>3. CacheOK' /\ IndexOK'
  BY <1>1 DEF IInv, CacheOK, IndexOK, ModuleIds, disk
<1>4. TypeOK'
  BY <1>1, <1>2 DEF IInv, TypeOK, ModuleIds, disk
<1> QED BY <1>2, <1>3, <1>4 DEF IInv

LEMMA HostInitIInv ==
  ASSUME IInv, HostInit
  PROVE  IInv'
<1>1. /\ up /\ stack = <<>> /\ returned # Nothing /\ returned' = Nothing
      /\ module' = IF returned = Failed THEN module
                   ELSE [module EXCEPT ![returned] = Initialised(@)]
      /\ UNCHANGED <<clock, sessions, imports, disk, up, m_scripts, m_sources, m_modules,
                     m_moduleIndices, errors, m_compOutput, stack, fault, quiet>>
  BY DEF HostInit
<1>2. /\ module' \in [Paths -> {NoModule} \cup Modules]
      /\ \A d \in ModuleIds' : module'[d] \in Modules
  <2>1. CASE returned = Failed
    BY <1>1, <2>1 DEF IInv, TypeOK, ModuleIds
  <2>2. CASE returned # Failed
    <3>1. returned \in Paths
      BY <1>1, <2>2 DEF IInv, TypeOK
    <3>2. Initialised(module[returned]) \in Modules
      BY <3>1, InitialisedType DEF IInv, TypeOK, AnswerOK, ModuleIds
    <3> QED BY <1>1, <2>2, <3>1, <3>2 DEF IInv, TypeOK, ModuleIds
  <2> QED BY <2>1, <2>2
<1>3. StackOK' /\ ReliesOK' /\ AnswerOK' /\ TopOK'
  BY <1>1, AnswersAssumption DEF IInv, StackOK, ReliesOK, AnswerOK, TopOK, disk
<1>4. CacheOK' /\ IndexOK'
  BY <1>1 DEF IInv, CacheOK, IndexOK, ModuleIds, disk
<1>5. TypeOK'
  BY <1>1, <1>2 DEF IInv, TypeOK, ModuleIds, disk
<1> QED BY <1>3, <1>4, <1>5 DEF IInv

LEMMA InitIInv ==
  ASSUME Init
  PROVE  IInv
<1>1. /\ clock = 2 /\ sessions = 0 /\ imports \in ImportGraphs
      /\ cache = [p \in Paths |-> NoFile] /\ last_state = NoState /\ up = FALSE
      /\ m_scripts = [p \in Paths |-> NoMeta] /\ m_sources = [p \in Scripts |-> 0]
      /\ m_modules = <<>> /\ m_moduleIndices = [p \in Paths |-> 0]
      /\ module = [p \in Paths |-> NoModule] /\ errors = FALSE /\ m_compOutput = "none"
      /\ stack = <<>> /\ returned = Nothing /\ quiet = TRUE
  BY DEF Init
<1>2. source \in [Scripts -> Files]
  BY DEF Init, Files, Times
<1>3. ModuleIds = {}
  BY <1>1 DEF ModuleIds
<1>4. TypeOK
  <2>1. clock \in Times /\ sessions \in Nat /\ m_modules \in Seq(Paths) /\ stack \in Seq(Frames)
    BY <1>1 DEF Times
  <2>2. m_scripts \in [Paths -> Metas] /\ m_sources \in [Scripts -> Nat]
    BY <1>1 DEF Metas
  <2>3. /\ m_moduleIndices \in [Paths -> Nat] /\ module \in [Paths -> {NoModule} \cup Modules]
        /\ cache \in [Paths -> {NoFile} \cup CacheFiles]
    BY <1>1
  <2> QED BY <1>1, <1>2, <1>3, <2>1, <2>2, <2>3 DEF TypeOK
<1>5. StackOK /\ ReliesOK
  BY <1>1 DEF StackOK, StackShape, ReliesOK, StackRelies
<1>6. AnswerOK /\ TopOK /\ CacheOK /\ IndexOK
  BY <1>1, <1>3, AnswersAssumption, EmptySeq DEF AnswerOK, TopOK, CacheOK, IndexOK
<1> QED BY <1>4, <1>5, <1>6 DEF IInv

LEMMA BuildStepIInv ==
  ASSUME IInv, BuildStep
  PROVE  IInv'
<1>1. up /\ stack # <<>> /\ UNCHANGED <<sessions, imports>>
  BY DEF BuildStep
<1>2. CASE LoadModule \/ BuildFromCached \/ AskDependency \/ TakeDependency \/ CompareVersions
  BY <1>1, <1>2, LoadModuleIInv, BuildFromCachedIInv, AskDependencyIInv, TakeDependencyIInv,
     CompareVersionsIInv
<1>3. CASE Link \/ LinkFails \/ BuildFromSource \/ AskImport \/ TakeImport \/ CompileError
  BY <1>1, <1>3, LinkIInv, LinkFailsIInv, BuildFromSourceIInv, AskImportIInv, TakeImportIInv,
     CompileErrorIInv
<1>4. CASE Specialize \/ TakeSpecialization \/ Remake \/ PostCompile \/ OnScriptCompiled
  BY <1>1, <1>4, SpecializeIInv, TakeSpecializationIInv, RemakeIInv, PostCompileIInv,
     OnScriptCompiledIInv
<1> QED BY <1>2, <1>3, <1>4 DEF BuildStep

LEMMA NextIInv ==
  ASSUME IInv, [Next]_vars
  PROVE  IInv'
<1>1. CASE UNCHANGED vars
  BY <1>1 DEF vars, disk, memory, IInv, TypeOK, StackOK, ReliesOK, CacheOK, AnswerOK, TopOK, IndexOK,
              ModuleIds, Top
<1>2. CASE Start \/ RestoreTwiceDeleted \/ Shutdown \/ Kill \/ service \/ HostInit
  BY <1>2, StartIInv, RestoreTwiceDeletedIInv, ShutdownIInv, KillIInv, serviceIInv, HostInitIInv
<1>3. CASE \E p \in Scripts : Edit(p) \/ HostLoad(p)
  BY <1>3, EditIInv, HostLoadIInv
<1>4. CASE BuildStep
  BY <1>4, BuildStepIInv
<1> QED BY <1>1, <1>2, <1>3, <1>4 DEF Next

(* The invariant holds in every state.                                     *)
THEOREM Invariant == Spec => []IInv
<1>1. Init => IInv
  BY InitIInv
<1>2. IInv /\ [Next]_vars => IInv'
  BY NextIInv
<1> QED BY <1>1, <1>2, PTL DEF Spec

(* The variables have their types, and a stopped process has no memory.    *)
THEOREM TypesKept == Spec => []TypeOK
<1>1. IInv => TypeOK
  BY DEF IInv
<1> QED BY <1>1, Invariant, PTL

(* The index of a path finds the module of that path although modules are  *)
(* destroyed and the others not renumbered (Context::destroyModule), and a *)
(* path has no second module although cache files of scripts that import   *)
(* each other ask for one (Context::createModule), for any number of       *)
(* modules: the module that is destroyed is the one made last.             *)
THEOREM IndexIsRight == Spec => []IndicesFind
<1>1. IInv => IndicesFind
  <2> SUFFICES ASSUME IInv PROVE IndicesFind
    OBVIOUS
  <2>1. IndexOK /\ DOMAIN m_modules = 1 .. Len(m_modules)
    BY LenProperties DEF IInv, TypeOK
  <2>2. \A p \in ModuleIds : <<m_moduleIndices[p], p>> \in {<<k, m_modules[k]>> : k \in DOMAIN m_modules}
    BY <2>1 DEF IndexOK
  <2>3. IsInjective(m_modules)
    BY <2>1 DEF IndexOK, IsInjective
  <2> QED BY <2>2, <2>3 DEF IndicesFind
<1> QED BY <1>1, Invariant, PTL
=============================================================================
