----------------------- MODULE BuildCacheOrder_proofs -----------------------
(***************************************************************************)
(* Proofs about BuildCache, continued: when scripts do not import each     *)
(* other, no build is under way twice (a path that is on the stack twice   *)
(* would close a walk of imports).  So no build finds a module of its path *)
(* made by another, and a module is initialised only when its build is     *)
(* over: code finds what it imports initialised, and faults have the       *)
(* causes that FaultsNamed gives.                                          *)
(***************************************************************************)
EXTENDS BuildCache_proofs, FiniteSetTheorems

(* Cyclic, of the imports g.                                               *)
HasCycle(g) ==
  \E group \in SUBSET Scripts :
    group # {} /\ \A p \in group : \E q \in group : q \in ToSet(g[p])

(* What the table of modules says of a frame f: nothing before its module  *)
(* is made, which is then not initialised, while what it has imported is;  *)
(* the module it is made for is its own.  A build that starts from the     *)
(* source has imported nothing yet.                                        *)
FrameKnown(f, idx, mods) ==
  IF Registered(f)
  THEN /\ f.m_mod
       /\ ~mods[f.path].didInit
       /\ f.pc # "read" => \A d \in ToSet(f.deps) \cap Scripts : mods[d].didInit
  ELSE /\ idx[f.path] = 0
       /\ f.pc \in {"load", "source"} => f.deps = <<>>

ModuleKnown(p, idx, mods) ==
  /\ mods[p].ran = (mods[p].didInit /\ mods[p].built /\ mods[p].generated)
  /\ mods[p].from = "source" /\ mods[p].built =>
       \A d \in mods[p].deps \cap Scripts :
         idx[d] # 0 /\ mods[d].didInit /\ (mods[d].built => mods[d].generated)

(* Code was generated for all modules that are built, except by a root     *)
(* that had errors: the next build resets it, and does not survive that.   *)
AllGenerated == \A p \in ModuleIds : module[p].built => module[p].generated

GeneratedOK ==
  \/ AllGenerated
  \/ /\ errors /\ m_compOutput = "cache"
     /\ stack # <<>> => IsRoot /\ Top.pc \in {"load", "source", "cached"}

(* The second part of the invariant, for scripts that do not import each   *)
(* other.                                                                  *)
FramesOK == \A n \in 1 .. Len(stack) : FrameKnown(stack[n], m_moduleIndices, module)
ModulesOK == \A p \in ModuleIds : ModuleKnown(p, m_moduleIndices, module)
ReadOK == stack # <<>> /\ Top.pc = "read" => module[Top.path].from = "cache"

Order == FramesOK /\ ModulesOK /\ ReadOK

OrderInv == ~HasCycle(imports) => Order

(* Before the first session there are no cache files, and in it those      *)
(* there are belong to modules that are there: none is ever read.          *)
FirstSession ==
  /\ sessions = 0 => ~up /\ \A p \in Paths : cache[p] = NoFile
  /\ sessions <= 1 /\ up =>
       /\ \A p \in Paths : cache[p] # NoFile => m_moduleIndices[p] # 0
       /\ \A n \in 1 .. Len(stack) : stack[n].pc \notin {"cached", "deps", "read"}

(* Until the first edit of a session, sources are what the scan and the    *)
(* builds have seen.                                                       *)
QuietOK ==
  up /\ quiet => \A p \in Scripts : source[p] # NoFile =>
                   /\ m_scripts[p] # NoMeta
                   /\ m_sources[p] # 0 => m_sources[p] = source[p].mtime

(* And as long as nothing is wrong with them, builds have no errors: a     *)
(* module that is not built is that of a build under way.                  *)
AllSound(src) == \A p \in Scripts : src[p] # NoFile /\ src[p].quality = "sound"

UnderWay(s, p) == \E n \in 1 .. Len(s) : s[n].path = p /\ s[n].pc \in {"imports", "read"}

SoundFrames == {f \in Frames : ~f.illTyped}

StackSound(s, idx, mods) ==
  /\ \A p \in Paths : idx[p] # 0 => mods[p].built \/ UnderWay(s, p)
  /\ \A n \in 1 .. Len(s) : ~s[n].illTyped

NoErrors ==
  /\ ~errors
  /\ StackSound(stack, m_moduleIndices, module)
  /\ stack # <<>> /\ Top.pc = "imports" => returned # Failed

SoundOK == up /\ quiet /\ ~HasCycle(imports) /\ AllSound(source) => NoErrors

FaultInv == FirstSession /\ QuietOK /\ SoundOK

-----------------------------------------------------------------------------
(* Builds within builds                                                    *)

(* A walk from module to module that it uses, which comes back to where it *)
(* began, passes scripts that import each other: a template on it lies     *)
(* between a script and the one that declares the template, which the      *)
(* script imports.                                                         *)
LEMMA WalkIsCycle ==
  ASSUME NEW g \in ImportGraphs, NEW i \in Nat, NEW j \in Nat, i < j,
         NEW walk \in [i .. j -> Paths],
         \A k \in i .. j - 1 : walk[k + 1] \in Uses(g, walk[k]),
         walk[i] = walk[j]
  PROVE  HasCycle(g)
<1>0. /\ i \in i .. j /\ j \in i .. j /\ i \in i .. j - 1 /\ i + 1 \in i .. j
      /\ \A k \in i .. j : k \in i .. j - 1 \/ k = j
      /\ \A k \in i .. j - 1 : k \in i .. j /\ k + 1 \in i .. j
  OBVIOUS
<1> DEFINE group == {p \in Scripts : \E k \in i .. j : walk[k] = p}
<1>1. ASSUME NEW k \in i .. j PROVE \E m \in i .. j - 1 : walk[m] = walk[k]
  BY <1>0
<1>2. ASSUME NEW k \in i .. j, walk[k] \in Templates
      PROVE  Origin[walk[k]] \in group
  <2>1. PICK m \in i .. j - 1 : walk[m] = walk[k]
    BY <1>1
  <2>2. walk[m + 1] = Origin[walk[k]]
    BY <2>1, <1>2 DEF Uses
  <2>3. Origin[walk[k]] \in Scripts
    BY <1>2, GraphFacts
  <2>4. m + 1 \in i .. j
    BY <1>0
  <2> QED BY <2>2, <2>3, <2>4
<1>3. group # {}
  <2>1. CASE walk[i] \in Templates
    BY <2>1, <1>0, <1>2
  <2>2. CASE walk[i] \notin Templates
    BY <2>2, <1>0 DEF Paths
  <2> QED BY <2>1, <2>2
<1>4. ASSUME NEW p \in group PROVE \E q \in group : q \in ToSet(g[p])
  <2>1. PICK m \in i .. j - 1 : walk[m] = p
    BY <1>1
  <2>2. p \in Scripts /\ p \notin Templates /\ m + 1 \in i .. j
    BY <1>0, GraphFacts DEF Paths
  <2>3. /\ walk[m + 1] \in ToSet(g[p])
        /\ walk[m + 1] \in Scripts \/ Origin[walk[m + 1]] \in ToSet(g[p])
    BY <2>1, <2>2 DEF Uses
  <2>4. CASE walk[m + 1] \in Scripts
    BY <2>2, <2>3, <2>4
  <2>5. CASE walk[m + 1] \notin Scripts
    <3>1. walk[m + 1] \in Templates
      BY <2>2, <2>5 DEF Paths
    <3> QED BY <3>1, <2>2, <2>3, <2>5, <1>2
  <2> QED BY <2>4, <2>5
<1>5. group \in SUBSET Scripts
  OBVIOUS
<1> HIDE DEF group
<1> QED BY <1>3, <1>4, <1>5 DEF HasCycle

LEMMA AskedByUses ==
  ASSUME NEW g \in ImportGraphs, NEW src, NEW f \in Frames, FrameOK(g, src, f),
         NEW h, AskedBy(g, f, h)
  PROVE  h.path \in Uses(g, f.path)
<1>1. Asks(g, f, h.path)
  BY DEF AskedBy, Asks
<1> QED BY <1>1, AsksUses

LEMMA FrameTypes ==
  ASSUME NEW s \in Seq(Frames), NEW n \in 1 .. Len(s)
  PROVE  s[n] \in Frames /\ s[n].path \in Paths
<1>1. s[n] \in Frames
  BY ElementOfSeq
<1> QED BY <1>1 DEF Frames

(* No module is under way twice, and none that is under way is asked for.  *)
LEMMA PathsDistinct ==
  ASSUME NEW g \in ImportGraphs, ~HasCycle(g), NEW src, NEW s \in Seq(Frames), StackShape(g, src, s),
         NEW i \in 1 .. Len(s), NEW j \in 1 .. Len(s), i < j
  PROVE  s[i].path # s[j].path
<1>0. /\ i \in Nat /\ j \in Nat
      /\ \A k \in i .. j : k \in 1 .. Len(s)
      /\ \A k \in i .. j - 1 : k \in 1 .. Len(s) - 1 /\ k \in i .. j /\ k + 1 \in i .. j
      /\ i \in i .. j /\ j \in i .. j
  BY LenProperties
<1> DEFINE walk == [k \in i .. j |-> s[k].path]
<1>1. \A k \in 1 .. Len(s) : s[k] \in Frames /\ s[k].path \in Paths
  BY FrameTypes
<1>2. walk \in [i .. j -> Paths]
  BY <1>0, <1>1
<1>3. ASSUME NEW k \in i .. j - 1 PROVE walk[k + 1] \in Uses(g, walk[k])
  <2>1. FrameOK(g, src, s[k]) /\ AskedBy(g, s[k], s[k + 1]) /\ s[k] \in Frames
    BY <1>0, <1>1 DEF StackShape
  <2>2. s[k + 1].path \in Uses(g, s[k].path)
    BY <2>1, AskedByUses
  <2> QED BY <2>2, <1>0
<1>4. walk[i] = s[i].path /\ walk[j] = s[j].path
  BY <1>0
<1> HIDE DEF walk
<1> QED BY <1>0, <1>2, <1>3, <1>4, WalkIsCycle

LEMMA AskedIsNew ==
  ASSUME NEW g \in ImportGraphs, ~HasCycle(g), NEW src, NEW s \in Seq(Frames), StackShape(g, src, s),
         s # <<>>, NEW p \in Paths, Asks(g, s[Len(s)], p), NEW i \in 1 .. Len(s)
  PROVE  s[i].path # p
<1> DEFINE j == Len(s) + 1
           walk == [k \in i .. j |-> IF k = j THEN p ELSE s[k].path]
<1>0. /\ i \in Nat /\ j \in Nat /\ i < j /\ Len(s) \in 1 .. Len(s)
      /\ \A k \in i .. j : k = j \/ k \in 1 .. Len(s)
      /\ \A k \in i .. j - 1 : k \in i .. j /\ k + 1 \in i .. j /\ k # j /\ k \in 1 .. Len(s)
                              /\ (k = Len(s) \/ k \in 1 .. Len(s) - 1)
                              /\ (k + 1 = j <=> k = Len(s))
      /\ i \in i .. j /\ j \in i .. j /\ i # j
  BY LenProperties, EmptySeq
<1>1. \A k \in 1 .. Len(s) : s[k] \in Frames /\ s[k].path \in Paths /\ FrameOK(g, src, s[k])
  BY FrameTypes DEF StackShape
<1> HIDE DEF j
<1>2. walk \in [i .. j -> Paths]
  BY <1>0, <1>1
<1>3. ASSUME NEW k \in i .. j - 1 PROVE walk[k + 1] \in Uses(g, walk[k])
  <2>1. CASE k = Len(s)
    <3>1. p \in Uses(g, s[k].path)
      BY <2>1, <1>0, <1>1, AsksUses
    <3> QED BY <3>1, <2>1, <1>0
  <2>2. CASE k # Len(s)
    <3>1. AskedBy(g, s[k], s[k + 1])
      BY <2>2, <1>0 DEF StackShape
    <3>2. s[k + 1].path \in Uses(g, s[k].path)
      BY <3>1, <1>0, <1>1, AskedByUses
    <3> QED BY <3>2, <2>2, <1>0
  <2> QED BY <2>1, <2>2
<1>4. walk[i] = s[i].path /\ walk[j] = p
  BY <1>0
<1> HIDE DEF walk
<1> QED BY <1>0, <1>2, <1>3, <1>4, WalkIsCycle

(* So the C++ stack has room for all builds.                               *)
LEMMA NoOverflow ==
  ASSUME IInv, ~HasCycle(imports), stack # <<>>
  PROVE  ~Overflows
<1>1. /\ imports \in ImportGraphs /\ stack \in Seq(Frames) /\ StackShape(imports, source, stack)
      /\ Len(stack) \in Nat
  BY TopFacts
<1>2. \A i, j \in 1 .. Len(stack) : i < j => stack[i].path # stack[j].path
  BY <1>1, PathsDistinct
<1> DEFINE path == [n \in 1 .. Len(stack) |-> stack[n].path]
<1>3. path \in [1 .. Len(stack) -> Paths]
  <2>1. \A n \in 1 .. Len(stack) : stack[n].path \in Paths
    BY <1>1, FrameTypes
  <2> QED BY <2>1
<1>4. \A i, j \in 1 .. Len(stack) : i # j => path[i] # path[j]
  <2>1. \A i, j \in 1 .. Len(stack) : i # j => i < j \/ j < i
    OBVIOUS
  <2> QED BY <1>2, <2>1
<1>5. IsFiniteSet(1 .. Len(stack)) /\ Cardinality(1 .. Len(stack)) = Len(stack)
  <2>1. Cardinality(1 .. Len(stack)) = IF 1 > Len(stack) THEN 0 ELSE Len(stack) - 1 + 1
    BY <1>1, FS_Interval
  <2> QED BY <2>1, <1>1, FS_Interval
<1> HIDE DEF path
<1>6. ~(Cardinality(Paths) < Cardinality(1 .. Len(stack)))
  BY <1>3, <1>4, <1>5, FS_PigeonHole, DepthAssumption
<1>7. Cardinality(Paths) \in Nat /\ MaxDepth \in Nat /\ Cardinality(Paths) <= MaxDepth
  BY FS_CardinalityType, DepthAssumption, GraphAssumption
<1> QED BY <1>1, <1>5, <1>6, <1>7 DEF Overflows

-----------------------------------------------------------------------------
(* The table of modules while builds are under way                         *)

(* The paths on the stack, seen from the frame on top.                     *)
LEMMA BelowFacts ==
  ASSUME IInv, ~HasCycle(imports), stack # <<>>, NEW n \in 1 .. Len(stack) - 1
  PROVE  /\ stack[n] \in Frames /\ stack[n].path \in Paths /\ stack[n].path # Top.path
         /\ n \in 1 .. Len(stack) /\ n # Len(stack)
         /\ Top.path \notin ToSet(stack[n].deps) /\ ToSet(stack[n].deps) \subseteq Paths
<1>1. /\ imports \in ImportGraphs /\ stack \in Seq(Frames) /\ StackShape(imports, source, stack)
      /\ Len(stack) \in Nat /\ StackRelies(stack, m_moduleIndices)
  BY TopFacts
<1>2. n \in 1 .. Len(stack) /\ n # Len(stack) /\ n < Len(stack) /\ Len(stack) \in n + 1 .. Len(stack)
      /\ Len(stack) \in 1 .. Len(stack)
  BY <1>1
<1>3. stack[n] \in Frames
  BY <1>1, <1>2, ElementOfSeq
<1>4. stack[n].path # Top.path
  BY <1>1, <1>2, PathsDistinct DEF Top
<1>5. \A d \in ToSet(stack[n].deps) : d # Top.path
  BY <1>1, <1>2 DEF StackRelies, Relies, Top
<1> QED BY <1>2, <1>3, <1>4, <1>5, ReliesType DEF Frames

(* Nothing but the module of the frame on top changes, or it is the answer *)
(* to that frame that is initialised.                                      *)
OnlyTopChanges ==
  \A d \in Paths : d # Top.path =>
    /\ m_moduleIndices'[d] = m_moduleIndices[d]
    /\ \/ module'[d] = module[d]
       \/ d = returned /\ module'[d] = Initialised(module[d])

LEMMA InitialisedProps ==
  ASSUME NEW mod \in Modules
  PROVE  /\ Initialised(mod).didInit = TRUE
         /\ Initialised(mod).from = mod.from /\ Initialised(mod).deps = mod.deps
         /\ Initialised(mod).built = mod.built /\ Initialised(mod).generated = mod.generated
         /\ Initialised(mod).ran = IF mod.didInit THEN mod.ran ELSE mod.built /\ mod.generated
<1>1. CASE mod.didInit
  BY <1>1 DEF Initialised, Modules
<1>2. CASE ~mod.didInit
  BY <1>2 DEF Initialised, Modules
<1> QED BY <1>1, <1>2

LEMMA BelowKept ==
  ASSUME IInv, ~HasCycle(imports), Order, stack # <<>>, OnlyTopChanges, NEW n \in 1 .. Len(stack) - 1
  PROVE  FrameKnown(stack[n], m_moduleIndices', module')
<1>1. /\ stack[n].path \in Paths /\ stack[n].path # Top.path /\ n \in 1 .. Len(stack)
      /\ Top.path \notin ToSet(stack[n].deps) /\ ToSet(stack[n].deps) \subseteq Paths
  BY BelowFacts
<1>2. FrameKnown(stack[n], m_moduleIndices, module)
  BY <1>1 DEF Order, FramesOK
<1>3. CASE ~Registered(stack[n])
  BY <1>1, <1>2, <1>3 DEF FrameKnown, OnlyTopChanges
<1>4. CASE Registered(stack[n])
  <2>1. stack[n].path # returned
    <3>1. returned \in Paths => Asks(imports, Top, returned)
      BY AnswersAssumption DEF IInv, AnswerOK
    <3>2. /\ imports \in ImportGraphs /\ stack \in Seq(Frames) /\ StackShape(imports, source, stack)
      BY TopFacts
    <3> QED BY <1>1, <3>1, <3>2, AskedIsNew DEF Top
  <2>2. stack[n].m_mod /\ ~module'[stack[n].path].didInit
    BY <1>1, <1>2, <1>4, <2>1 DEF FrameKnown, OnlyTopChanges
  <2>3. ASSUME stack[n].pc # "read", NEW d \in ToSet(stack[n].deps) \cap Scripts
        PROVE  module'[d].didInit
    <3>1. module[d].didInit /\ d \in Paths /\ d # Top.path
      BY <1>1, <1>2, <1>4, <2>3 DEF FrameKnown
    <3>2. CASE module'[d] = module[d]
      BY <3>1, <3>2
    <3>3. CASE module'[d] # module[d]
      <4>1. d = returned /\ module'[d] = Initialised(module[d])
        BY <3>1, <3>3 DEF OnlyTopChanges
      <4>2. module[d] \in Modules
        BY <3>1, <4>1 DEF IInv, AnswerOK, TypeOK, ModuleIds
      <4>3. Initialised(module[d]).didInit
        BY <4>2, InitialisedProps
      <4> QED BY <4>1, <4>3
    <3> QED BY <3>2, <3>3
  <2> QED BY <1>4, <2>2, <2>3 DEF FrameKnown
<1> QED BY <1>3, <1>4

(* The frames after a step that replaces the one on top, or ends it.       *)
LEMMA FramesStay ==
  ASSUME IInv, ~HasCycle(imports), Order, stack # <<>>, OnlyTopChanges,
         NEW f \in Frames, stack' = WithTop(f), FrameKnown(f, m_moduleIndices', module')
  PROVE  FramesOK' /\ Top' = f /\ stack' # <<>>
<1>1. stack \in Seq(Frames)
  BY TopFacts
<1> DEFINE t == [stack EXCEPT ![Len(stack)] = f]
<1>2. /\ t # <<>> /\ Len(t) = Len(stack) /\ t[Len(stack)] = f
      /\ \A n \in 1 .. Len(stack) - 1 : t[n] = stack[n]
      /\ Len(stack) \in Nat /\ Len(stack) > 0
  BY <1>1, ReplaceTop
<1>3. stack' = t
  BY DEF WithTop
<1> HIDE DEF t
<1>4. ASSUME NEW n \in 1 .. Len(t)
      PROVE  FrameKnown(t[n], m_moduleIndices', module')
  <2>1. CASE n = Len(stack)
    BY <1>2, <2>1
  <2>2. CASE n # Len(stack)
    <3>1. n \in 1 .. Len(stack) - 1
      BY <1>2, <2>2
    <3> QED BY <3>1, <1>2, BelowKept
  <2> QED BY <2>1, <2>2
<1> QED BY <1>2, <1>3, <1>4 DEF FramesOK, Top

LEMMA FramesPop ==
  ASSUME IInv, ~HasCycle(imports), Order, stack # <<>>, OnlyTopChanges, stack' = Front(stack)
  PROVE  FramesOK'
<1>1. stack \in Seq(Frames)
  BY TopFacts
<1>2. /\ Len(stack') = Len(stack) - 1
      /\ \A n \in 1 .. Len(stack) - 1 : stack'[n] = stack[n]
  BY <1>1, PopTop
<1> QED BY <1>2, BelowKept DEF FramesOK

(* A step that makes, destroys and changes no module.                      *)
Moves ==
  /\ UNCHANGED <<m_modules, m_moduleIndices, module>>
  /\ \/ stack' = stack
     \/ stack # <<>> /\ stack' = Front(stack) /\ returned' # Nothing
     \/ /\ stack # <<>>
        /\ \E f \in Frames :
             /\ stack' = WithTop(f) /\ f.path = Top.path /\ f.pc # "read"
             /\ f.pc \in {"load", "source"} => f.deps = <<>>
             /\ Registered(f) <=> Registered(Top)
             /\ Registered(f) => /\ Top.pc # "read" /\ f.m_mod = Top.m_mod
                                /\ ToSet(f.deps) \cap Scripts \subseteq ToSet(Top.deps)
     \/ \E f \in Frames :
          /\ stack' = Append(stack, f) /\ ~Registered(f) /\ m_moduleIndices[f.path] = 0
          /\ f.pc \in {"load", "source"} => f.deps = <<>>

LEMMA MovesOrder ==
  ASSUME IInv, IInv', ~HasCycle(imports), Order, Moves
  PROVE  Order'
<1>1. UNCHANGED <<m_modules, m_moduleIndices, module>>
  BY DEF Moves
<1>2. ModulesOK'
  BY <1>1 DEF Order, ModulesOK, ModuleIds
<1>3. OnlyTopChanges
  BY <1>1 DEF OnlyTopChanges
<1>4. CASE stack' = stack
  <2>1. FramesOK' /\ ReadOK'
    BY <1>1, <1>4 DEF Order, FramesOK, ReadOK, Top
  <2> QED BY <1>2, <2>1 DEF Order
<1>5. CASE stack # <<>> /\ stack' = Front(stack) /\ returned' # Nothing
  <2>1. FramesOK'
    BY <1>3, <1>5, FramesPop
  <2>2. ReadOK'
    BY <1>5 DEF IInv, AnswerOK, ReadOK
  <2> QED BY <1>2, <2>1, <2>2 DEF Order
<1>6. ASSUME stack # <<>>, NEW f \in Frames, stack' = WithTop(f), f.path = Top.path, f.pc # "read",
             f.pc \in {"load", "source"} => f.deps = <<>>,
             Registered(f) <=> Registered(Top),
             Registered(f) => /\ Top.pc # "read" /\ f.m_mod = Top.m_mod
                              /\ ToSet(f.deps) \cap Scripts \subseteq ToSet(Top.deps)
      PROVE  Order'
  <2>1. FrameKnown(Top, m_moduleIndices, module)
    <3>1. Len(stack) \in 1 .. Len(stack)
      BY <1>6, TopFacts
    <3> QED BY <3>1 DEF Order, FramesOK, Top
  <2>2. FrameKnown(f, m_moduleIndices', module')
    BY <1>1, <1>6, <2>1 DEF FrameKnown
  <2>3. FramesOK' /\ Top' = f
    BY <1>3, <1>6, <2>2, FramesStay
  <2>4. ReadOK'
    BY <1>6, <2>3 DEF ReadOK
  <2> QED BY <1>2, <2>3, <2>4 DEF Order
<1>7. ASSUME NEW f \in Frames, stack' = Append(stack, f), ~Registered(f), m_moduleIndices[f.path] = 0,
             f.pc \in {"load", "source"} => f.deps = <<>>
      PROVE  Order'
  <2>1. stack \in Seq(Frames)
    BY DEF IInv, TypeOK
  <2>2. /\ Len(stack') = Len(stack) + 1 /\ Len(stack) \in Nat
        /\ stack'[Len(stack) + 1] = f
        /\ \A n \in 1 .. Len(stack) : stack'[n] = stack[n]
    BY <1>7, <2>1, PushTop
  <2>3. FramesOK'
    BY <1>1, <1>7, <2>2 DEF Order, FramesOK, FrameKnown
  <2>4. ReadOK'
    BY <1>7, <2>2 DEF ReadOK, Top, Registered
  <2> QED BY <1>2, <2>3, <2>4 DEF Order
<1> QED BY <1>4, <1>5, <1>6, <1>7 DEF Moves

(* What is known of the module of the frame on top.                        *)
LEMMA TopKnown ==
  ASSUME IInv, Order, stack # <<>>
  PROVE  FrameKnown(Top, m_moduleIndices, module) /\ Top.path \in Paths /\ Top \in Frames
<1>1. Len(stack) \in 1 .. Len(stack)
  BY TopFacts
<1> QED BY <1>1, TopFacts DEF Order, FramesOK, Top

(* A module that is not initialised is in no other that has been compiled. *)
LEMMA OthersKept ==
  ASSUME IInv, Order, stack # <<>>,
         \A d \in Paths : d # Top.path => m_moduleIndices'[d] = m_moduleIndices[d] /\ module'[d] = module[d],
         NEW p \in ModuleIds', p # Top.path
  PROVE  ModuleKnown(p, m_moduleIndices', module')
<1>1. p \in ModuleIds /\ p \in Paths /\ module'[p] = module[p] /\ ModuleKnown(p, m_moduleIndices, module)
  BY DEF ModuleIds, Order, ModulesOK
<1>2. m_moduleIndices[Top.path] = 0 \/ ~module[Top.path].didInit
  BY TopKnown DEF FrameKnown
<1>3. \A d \in Scripts : m_moduleIndices[d] # 0 /\ module[d].didInit =>
                          m_moduleIndices'[d] # 0 /\ module'[d] = module[d]
  BY <1>2 DEF Paths
<1> QED BY <1>1, <1>3 DEF ModuleKnown

LEMMA CreateTop ==
  ASSUME IInv, stack # <<>>, NEW own \in Nat, NEW from \in {"source", "cache"},
         m_moduleIndices[Top.path] = 0, createModule(Top.path, own, from)
  PROVE  /\ m_moduleIndices'[Top.path] # 0
         /\ \A d \in Paths : d # Top.path =>
              m_moduleIndices'[d] = m_moduleIndices[d] /\ module'[d] = module[d]
         /\ module'[Top.path].from = from /\ module'[Top.path].built = FALSE
         /\ module'[Top.path].didInit = FALSE /\ module'[Top.path].ran = FALSE
<1>1. Top.path \in Paths /\ TypeOK /\ IndexOK
  BY TopFacts DEF IInv
<1> DEFINE p == Top.path
<1>2. p \in Paths /\ createModule(p, own, from) /\ m_moduleIndices[p] = 0
  BY <1>1
<1> HIDE DEF p
<1>3. /\ m_moduleIndices'[p] # 0
      /\ \A d \in Paths : d # p => m_moduleIndices'[d] = m_moduleIndices[d]
      /\ \A d \in Paths : d # p => module'[d] = module[d]
  <2>1. Len(m_modules) + 1 # 0
    BY <1>1, LenProperties DEF TypeOK
  <2> QED BY <1>1, <1>2, <2>1 DEF createModule, TypeOK
<1>4. module'[p] = [own |-> own, from |-> from, deps |-> {}, made |-> {}, against |-> {},
                    built |-> FALSE, generated |-> FALSE, didInit |-> FALSE, ran |-> FALSE,
                    trusted |-> FALSE]
  BY <1>1, <1>2 DEF createModule, TypeOK
<1>5. /\ module'[p].from = from /\ module'[p].built = FALSE
      /\ module'[p].didInit = FALSE /\ module'[p].ran = FALSE
  BY <1>4
<1> QED BY <1>3, <1>5 DEF p

(* A module is made: there was none of its path.                           *)
LEMMA CreateOrder ==
  ASSUME IInv, ~HasCycle(imports), Order, stack # <<>>, ~Registered(Top),
         NEW own \in Nat, NEW from \in {"source", "cache"}, createModule(Top.path, own, from),
         NEW f \in Frames, stack' = WithTop(f), f.path = Top.path, f.m_mod,
         f.pc \in {"imports", "read"}, f.pc = "read" => from = "cache",
         f.pc = "imports" => \A d \in ToSet(f.deps) \cap Scripts : d # Top.path /\ module[d].didInit
  PROVE  Order'
<1>1. /\ Top.path \in Paths /\ m_moduleIndices[Top.path] = 0
  BY TopKnown DEF FrameKnown
<1>2. /\ \A d \in Paths : d # Top.path => m_moduleIndices'[d] = m_moduleIndices[d] /\ module'[d] = module[d]
      /\ module'[Top.path].from = from /\ module'[Top.path].built = FALSE
      /\ module'[Top.path].didInit = FALSE /\ module'[Top.path].ran = FALSE
  BY <1>1, CreateTop
<1>3. OnlyTopChanges
  BY <1>2 DEF OnlyTopChanges
<1>4. FrameKnown(f, m_moduleIndices', module')
  <2>1. Registered(f) /\ ~module'[Top.path].didInit
    BY <1>2 DEF Registered
  <2>2. ASSUME f.pc # "read", NEW d \in ToSet(f.deps) \cap Scripts PROVE module'[d].didInit
    BY <2>2, <1>2 DEF Paths
  <2> QED BY <2>1, <2>2 DEF FrameKnown
<1>5. FramesOK' /\ Top' = f
  BY <1>3, <1>4, FramesStay
<1>6. ModulesOK'
  <2> SUFFICES ASSUME NEW p \in ModuleIds' PROVE ModuleKnown(p, m_moduleIndices', module')
    BY DEF ModulesOK
  <2>1. CASE p = Top.path
    BY <1>2, <2>1 DEF ModuleKnown
  <2>2. CASE p # Top.path
    BY <1>2, <2>2, OthersKept
  <2> QED BY <2>1, <2>2
<1>7. ReadOK'
  BY <1>2, <1>5 DEF ReadOK
<1> QED BY <1>5, <1>6, <1>7 DEF Order

(* The module of the frame on top has been compiled or linked.             *)
LEMMA BuiltOrder ==
  ASSUME IInv, ~HasCycle(imports), Order, stack # <<>>, Top.pc \in {"imports", "read"},
         UNCHANGED <<m_modules, m_moduleIndices>>, Top.pc = "imports" => AllGenerated,
         NEW r, r.didInit = module[Top.path].didInit, r.ran = module[Top.path].ran,
         r.from = module[Top.path].from, r.deps = ToSet(Top.deps),
         module' = [module EXCEPT ![Top.path] = r]
  PROVE  /\ OnlyTopChanges /\ ModulesOK'
         /\ module'[Top.path] = r
<1>0. module \in [Paths -> {NoModule} \cup Modules]
  BY DEF IInv, TypeOK
<1>1. /\ Top.path \in Paths /\ Top \in Frames /\ FrameKnown(Top, m_moduleIndices, module) /\ Registered(Top)
  BY TopKnown DEF Registered
<1>2. /\ module'[Top.path] = r
      /\ \A d \in Paths : d # Top.path => m_moduleIndices'[d] = m_moduleIndices[d] /\ module'[d] = module[d]
  BY <1>0, <1>1
<1>3. OnlyTopChanges
  BY <1>2 DEF OnlyTopChanges
<1>4. ModuleKnown(Top.path, m_moduleIndices', module')
  <2>1. r.didInit = FALSE /\ r.ran = FALSE
    <3>1. Top.path \in ModuleIds /\ ~module[Top.path].didInit /\ module[Top.path] \in Modules
      BY <1>1, RegisteredModules DEF FrameKnown
    <3>2. ModuleKnown(Top.path, m_moduleIndices, module)
      BY <3>1 DEF Order, ModulesOK
    <3>3. module[Top.path].didInit = FALSE /\ module[Top.path].ran = FALSE
      BY <3>1, <3>2 DEF ModuleKnown, Modules
    <3> QED BY <3>3
  <2>2. ASSUME r.from = "source", NEW d \in r.deps \cap Scripts
        PROVE  m_moduleIndices'[d] # 0 /\ module'[d].didInit /\ (module'[d].built => module'[d].generated)
    <3>1. Top.pc = "imports"
      BY <2>2 DEF Order, ReadOK
    <3>2. module[d].didInit /\ m_moduleIndices[d] # 0 /\ d \in Paths
      BY <1>1, <2>2, <3>1, RegisteredModules DEF FrameKnown
    <3>3. d # Top.path
      BY <1>1, <3>2 DEF FrameKnown
    <3>4. module[d].built => module[d].generated
      BY <3>1, <3>2 DEF AllGenerated, ModuleIds
    <3> QED BY <1>2, <3>2, <3>3, <3>4
  <2>3. module'[Top.path].ran = (module'[Top.path].didInit /\ module'[Top.path].built
                                  /\ module'[Top.path].generated)
    <3>1. module'[Top.path].didInit = FALSE /\ module'[Top.path].ran = FALSE
      BY <1>2, <2>1
    <3> QED BY <3>1
  <2> QED BY <1>2, <2>2, <2>3 DEF ModuleKnown
<1>5. ModulesOK'
  BY <1>2, <1>4, OthersKept DEF ModulesOK
<1> QED BY <1>2, <1>3, <1>5

(* A module is initialised: by the host, or by the build that imports it.  *)
LEMMA InitialisedOrder ==
  ASSUME IInv, Order, returned \in Paths,
         UNCHANGED <<m_modules, m_moduleIndices>>,
         module' = [module EXCEPT ![returned] = Initialised(@)]
  PROVE  /\ ModulesOK' /\ module'[returned].didInit
         /\ stack # <<>> => OnlyTopChanges
<1>0. /\ module \in [Paths -> {NoModule} \cup Modules]
      /\ m_moduleIndices[returned] # 0 /\ returned \in ModuleIds /\ module[returned] \in Modules
  BY DEF IInv, TypeOK, AnswerOK, ModuleIds
<1>1. /\ module'[returned] = Initialised(module[returned])
      /\ \A d \in Paths : d # returned => module'[d] = module[d]
  BY <1>0
<1> DEFINE new == module'[returned]
<1>2. /\ new.didInit = TRUE
      /\ new.from = module[returned].from /\ new.built = module[returned].built
      /\ new.deps = module[returned].deps /\ new.generated = module[returned].generated
      /\ new.ran = IF module[returned].didInit THEN module[returned].ran
                   ELSE module[returned].built /\ module[returned].generated
  BY <1>0, <1>1, InitialisedProps
<1> HIDE DEF new
<1>3. \A d \in Paths : module[d].didInit => module'[d].didInit
  BY <1>1, <1>2 DEF new
<1>4. ASSUME NEW p \in ModuleIds PROVE ModuleKnown(p, m_moduleIndices', module')
  <2>1. ModuleKnown(p, m_moduleIndices, module) /\ p \in Paths
    BY DEF Order, ModulesOK, ModuleIds
  <2>2. /\ module'[p].from = module[p].from /\ module'[p].built = module[p].built
        /\ module'[p].deps = module[p].deps
        /\ \A d \in Paths : module'[d].built = module[d].built /\ module'[d].generated = module[d].generated
    BY <1>1, <1>2, <2>1 DEF new
  <2>3. module'[p].ran = (module'[p].didInit /\ module'[p].built /\ module'[p].generated)
    <3>1. CASE p = returned
      BY <1>0, <1>2, <2>1, <3>1 DEF new, ModuleKnown, Modules
    <3>2. CASE p # returned
      BY <1>1, <2>1, <3>2 DEF ModuleKnown
    <3> QED BY <3>1, <3>2
  <2>4. ASSUME module'[p].from = "source", module'[p].built, NEW d \in module'[p].deps \cap Scripts
        PROVE  m_moduleIndices'[d] # 0 /\ module'[d].didInit /\ (module'[d].built => module'[d].generated)
    BY <1>3, <2>1, <2>2, <2>4 DEF ModuleKnown, Paths
  <2> QED BY <2>3, <2>4 DEF ModuleKnown
<1>5. ModulesOK'
  BY <1>4 DEF ModulesOK, ModuleIds
<1>6. OnlyTopChanges
  BY <1>1 DEF OnlyTopChanges
<1> QED BY <1>2, <1>5, <1>6 DEF new

-----------------------------------------------------------------------------
(* Every step keeps the order                                              *)

LEMMA StopOrder ==
  ASSUME EmptyMemory
  PROVE  Order'
<1>1. /\ m_modules' = <<>> /\ m_moduleIndices' = [p \in Paths |-> 0] /\ stack' = <<>>
  BY DEF EmptyMemory
<1> QED BY <1>1 DEF Order, FramesOK, ModulesOK, ModuleIds, ReadOK

LEMMA MissedMoves ==
  ASSUME IInv, stack # <<>>, Top.pc \in {"cached", "deps"}, Missed,
         UNCHANGED <<m_modules, m_moduleIndices, module>>
  PROVE  Moves
<1>0. Top \in Frames /\ Top.caller \in {"load", "dependency", "specialize"} /\ ~Registered(Top)
  BY TopFacts DEF Frames, Registered
<1>1. CASE Top.caller = "load"
  <2> DEFINE f == Frame(Top.path, "source", "load")
  <2>1. f \in Frames /\ f.path = Top.path /\ f.pc = "source" /\ f.deps = <<>>
    BY <1>0 DEF Frame, Frames, Times
  <2>2. stack' = WithTop(f)
    BY <1>1 DEF Missed
  <2> HIDE DEF f
  <2> QED BY <1>0, <2>1, <2>2 DEF Moves, Registered
<1>2. CASE Top.caller = "dependency"
  <2>1. stack' = Front(stack) /\ returned' = Failed
    BY <1>2 DEF Missed, Return
  <2>2. Failed # Nothing
    BY DEF Failed, Nothing
  <2> QED BY <2>1, <2>2 DEF Moves
<1>3. CASE Top.caller = "specialize"
  <2> DEFINE f == [Top EXCEPT !.pc = "remake"]
  <2>1. f \in Frames /\ f.path = Top.path /\ f.pc = "remake"
    BY <1>0 DEF Frames
  <2>2. stack' = WithTop(f)
    BY <1>3 DEF Missed
  <2> HIDE DEF f
  <2> QED BY <1>0, <2>1, <2>2 DEF Moves, Registered
<1> QED BY <1>0, <1>1, <1>2, <1>3

LEMMA getModuleMoves ==
  ASSUME IInv, NEW p \in Paths, getModule(p, stack), UNCHANGED <<m_modules, m_moduleIndices, module>>
  PROVE  Moves
<1>1. CASE stack' = stack
  BY <1>1 DEF Moves
<1>2. ASSUME stack' # stack
      PROVE  /\ m_moduleIndices[p] = 0
             /\ \E f \in {Frame(p, "load", "load"), Frame(p, "cached", "dependency")} :
                  stack' = Append(stack, f)
  BY <1>2 DEF getModule
<1> DEFINE f == Frame(p, "load", "load")
           h == Frame(p, "cached", "dependency")
<1>3. f \in Frames /\ f.pc = "load" /\ f.path = p /\ f.deps = <<>>
  BY DEF Frame, Frames, Times
<1>4. h \in Frames /\ h.pc = "cached" /\ h.path = p
  BY DEF Frame, Frames, Times
<1>5. stack' # stack => m_moduleIndices[p] = 0 /\ stack' \in {Append(stack, f), Append(stack, h)}
  BY <1>2
<1> HIDE DEF f, h
<1> QED BY <1>1, <1>3, <1>4, <1>5 DEF Moves, Registered

(* A step to the frame f, of the same module, which is as registered.      *)
LEMMA StayMoves ==
  ASSUME stack # <<>>, NEW f \in Frames, stack' = WithTop(f), f.path = Top.path, f.pc # "read",
         f.pc \in {"load", "source"} => f.deps = <<>>,
         Registered(f) <=> Registered(Top),
         Registered(f) => /\ Top.pc # "read" /\ f.m_mod = Top.m_mod
                          /\ ToSet(f.deps) \cap Scripts \subseteq ToSet(Top.deps),
         UNCHANGED <<m_modules, m_moduleIndices, module>>
  PROVE  Moves
  BY DEF Moves

LEMMA LoadModuleOrder ==
  ASSUME IInv, IInv', ~HasCycle(imports), Order, stack # <<>>, LoadModule
  PROVE  Order'
<1>1. CASE \E kind \in {"overflow", "no_metadata"} : Fault(kind)
  BY <1>1, StopOrder DEF Fault
<1>2. CASE ~ \E kind \in {"overflow", "no_metadata"} : Fault(kind)
  <2> DEFINE pc == IF cacheNewer(Top.path) THEN "cached" ELSE "source"
             f == [Top EXCEPT !.pc = pc]
  <2>1. /\ Top.pc = "load" /\ stack' = WithTop(f)
        /\ UNCHANGED <<m_modules, m_moduleIndices, module>>
    BY <1>2 DEF LoadModule
  <2>2. pc \in {"cached", "source"}
    OBVIOUS
  <2> HIDE DEF pc
  <2>3. Top \in Frames
    BY TopFacts
  <2>4. f \in Frames /\ f.path = Top.path /\ f.pc = pc /\ f.deps = Top.deps
    BY <2>2, <2>3 DEF Frames
  <2>6. Top.deps = <<>>
    BY <2>1, TopKnown DEF FrameKnown, Registered
  <2> HIDE DEF f
  <2>5. Moves
    BY <2>1, <2>2, <2>4, <2>6, StayMoves DEF Registered
  <2> QED BY <2>5, MovesOrder
<1> QED BY <1>1, <1>2

LEMMA BuildFromCachedOrder ==
  ASSUME IInv, IInv', ~HasCycle(imports), Order, stack # <<>>, BuildFromCached
  PROVE  Order'
<1>1. CASE Fault("no_compiler")
  BY <1>1, StopOrder DEF Fault
<1>2. CASE ~Fault("no_compiler")
  <2> DEFINE f == [Top EXCEPT !.pc = "deps", !.entry = cache[Top.path]]
  <2>1. /\ Top.pc = "cached" /\ UNCHANGED <<m_modules, m_moduleIndices, module>>
        /\ Missed \/ stack' = WithTop(f)
    BY <1>2 DEF BuildFromCached
  <2>2. cache[Top.path] \in CacheFiles /\ Top \in Frames
    BY <2>1, TopFacts DEF IInv, TypeOK, TopOK
  <2>3. f \in Frames /\ f.path = Top.path /\ f.pc = "deps"
    BY <2>2 DEF Frames
  <2> HIDE DEF f
  <2>4. Moves
    BY <2>1, <2>3, StayMoves, MissedMoves DEF Registered
  <2> QED BY <2>4, MovesOrder
<1> QED BY <1>1, <1>2

LEMMA AskDependencyOrder ==
  ASSUME IInv, IInv', ~HasCycle(imports), Order, stack # <<>>, AskDependency
  PROVE  Order'
<1> DEFINE p == Top.entry.deps[Top.i].path
<1>1. /\ getModule(p, stack) /\ UNCHANGED <<m_modules, m_moduleIndices, module>>
      /\ AsksDep(Top, p)
  BY DEF AskDependency, MoreDependencies, AsksDep
<1> HIDE DEF p
<1>2. p \in Paths
  <2>1. p \in Uses(imports, Top.path)
    BY <1>1, TopFacts, AsksUses DEF Asks
  <2> QED BY <2>1, TopFacts, GraphFacts
<1>3. Moves
  BY <1>1, <1>2, getModuleMoves
<1> QED BY <1>3, MovesOrder

LEMMA AskImportOrder ==
  ASSUME IInv, IInv', ~HasCycle(imports), Order, stack # <<>>, AskImport
  PROVE  Order'
<1> DEFINE p == imports[Top.path][Top.i]
<1>1. getModule(p, stack) /\ UNCHANGED <<m_modules, m_moduleIndices, module>> /\ p \in Paths
  BY DEF AskImport, MoreImports, Paths
<1> HIDE DEF p
<1>2. Moves
  BY <1>1, getModuleMoves
<1> QED BY <1>2, MovesOrder

LEMMA TakeDependencyOrder ==
  ASSUME IInv, IInv', ~HasCycle(imports), Order, stack # <<>>, TakeDependency
  PROVE  Order'
<1>0. Top \in Frames /\ Top.pc = "deps" /\ returned \in {Failed} \cup Paths
      /\ UNCHANGED <<m_modules, m_moduleIndices, module>>
  BY TopFacts DEF TakeDependency, IInv, TypeOK
<1>1. CASE returned = Failed
  <2>1. Moves
    BY <1>0, <1>1, MissedMoves DEF TakeDependency
  <2> QED BY <2>1, MovesOrder
<1>2. CASE returned # Failed
  <2> DEFINE f == [Top EXCEPT !.i = @ + 1, !.deps = Append(@, returned)]
  <2>1. stack' = WithTop(f) /\ returned \in Paths
    BY <1>0, <1>2 DEF TakeDependency
  <2>2. Top.i + 1 \in Times /\ Append(Top.deps, returned) \in Seq(Paths)
    BY <1>0, <2>1, AppendProperties DEF Frames, Times
  <2>3. f \in Frames /\ f.path = Top.path /\ f.pc = "deps"
    BY <1>0, <2>2 DEF Frames
  <2> HIDE DEF f
  <2>4. Moves
    BY <1>0, <2>1, <2>3, StayMoves DEF Registered
  <2> QED BY <2>4, MovesOrder
<1> QED BY <1>1, <1>2

LEMMA CompareVersionsOrder ==
  ASSUME IInv, IInv', ~HasCycle(imports), Order, stack # <<>>, CompareVersions
  PROVE  Order'
<1>0. Top \in Frames /\ FrameOK(imports, source, Top) /\ Top.pc = "deps"
  BY TopFacts DEF CompareVersions
<1>1. CASE Missed /\ UNCHANGED <<m_modules, m_moduleIndices, module>>
  <2>1. Moves
    BY <1>0, <1>1, MissedMoves
  <2> QED BY <2>1, MovesOrder
<1>2. CASE /\ createModule(Top.path, IF Top.entry.torn THEN 0 ELSE Top.entry.own, "cache")
           /\ stack' = WithTop([Top EXCEPT !.pc = "read", !.m_mod = TRUE])
  <2> DEFINE own == IF Top.entry.torn THEN 0 ELSE Top.entry.own
             f == [Top EXCEPT !.pc = "read", !.m_mod = TRUE]
  <2>1. own \in Nat
    BY <1>0 DEF FrameOK, Frames, CacheFiles, CutFiles, WholeFiles
  <2>2. createModule(Top.path, own, "cache") /\ stack' = WithTop(f)
    BY <1>2
  <2> HIDE DEF own
  <2>3. f \in Frames /\ f.path = Top.path /\ f.pc = "read" /\ f.m_mod
    BY <1>0 DEF Frames
  <2> HIDE DEF f
  <2> QED BY <1>0, <2>1, <2>2, <2>3, CreateOrder DEF Registered
<1> QED BY <1>1, <1>2 DEF CompareVersions

LEMMA LinkOrder ==
  ASSUME IInv, IInv', ~HasCycle(imports), Order, stack # <<>>, Link
  PROVE  Order'
<1>0. /\ Top.pc = "read" /\ Top.path \in Paths /\ module[Top.path] \in Modules
  BY TopFacts, RegisteredModules DEF Link, Registered
<1>1. CASE Fault("no_compiler")
  BY <1>1, StopOrder DEF Fault
<1>2. CASE ~Fault("no_compiler")
  <2> DEFINE r == [module[Top.path] EXCEPT !.built = TRUE, !.generated = ~errors,
                         !.deps = ToSet(Top.deps), !.made = Top.entry.made,
                         !.against = {[path |-> d.path, made |-> d.made] : d \in ToSet(Top.entry.deps)},
                         !.trusted = Top.entry.quiet /\ quiet /\ AllTrusted(Top.deps)]
  <2>1. /\ module' = [module EXCEPT ![Top.path] = r]
        /\ stack' = Front(stack) /\ returned' = Top.path
        /\ UNCHANGED <<m_modules, m_moduleIndices>>
    BY <1>2 DEF Link, Return
  <2>2. /\ r.didInit = module[Top.path].didInit /\ r.ran = module[Top.path].ran
        /\ r.from = module[Top.path].from /\ r.deps = ToSet(Top.deps)
    BY <1>0 DEF Modules
  <2> HIDE DEF r
  <2>3. OnlyTopChanges /\ ModulesOK'
    BY <1>0, <2>1, <2>2, BuiltOrder
  <2>4. FramesOK'
    BY <2>1, <2>3, FramesPop
  <2>5. ReadOK'
    BY <1>0, <2>1, AnswersAssumption DEF IInv, AnswerOK, ReadOK
  <2> QED BY <2>3, <2>4, <2>5 DEF Order
<1> QED BY <1>1, <1>2

(* The module made last is destroyed: it is not initialised yet, so no     *)
(* other uses it.                                                          *)
LEMMA LinkFailsOrder ==
  ASSUME IInv, IInv', ~HasCycle(imports), Order, stack # <<>>, LinkFails
  PROVE  Order'
<1>0. /\ Top \in Frames /\ Top.pc = "read" /\ Top.path \in ModuleIds
      /\ m_moduleIndices[Top.path] = Len(m_modules)
      /\ TypeOK /\ IndexOK /\ Len(m_modules) \in Nat
  <2>1. /\ Top \in Frames /\ Top.pc = "read" /\ Top.path \in ModuleIds
        /\ m_moduleIndices[Top.path] = Len(m_modules) /\ TypeOK /\ IndexOK
    BY TopFacts, RegisteredModules DEF LinkFails, Registered, IInv, TopOK
  <2> QED BY <2>1, LenProperties DEF TypeOK
<1>1. CASE Top.caller = "load"
  BY <1>1, StopOrder DEF LinkFails
<1>2. CASE Top.caller # "load"
  <2>1. destroyModule(Top.path) /\ Missed
    BY <1>2 DEF LinkFails
  <2> DEFINE p == Top.path
  <2>2. p \in ModuleIds /\ m_moduleIndices[p] = Len(m_modules) /\ destroyModule(p)
    BY <1>0, <2>1
  <2> HIDE DEF p
  <2>3. /\ Len(m_modules') = Len(m_modules) - 1
        /\ \A k \in 1 .. Len(m_modules) - 1 : m_modules'[k] = m_modules[k]
        /\ m_moduleIndices'[p] = 0
        /\ \A d \in Paths : d # p => m_moduleIndices'[d] = m_moduleIndices[d] /\ module'[d] = module[d]
    BY <1>0, <2>2, DestroyProps
  <2>4. OnlyTopChanges
    BY <2>3 DEF OnlyTopChanges, p
  <2>5. ModulesOK'
    <3> SUFFICES ASSUME NEW q \in ModuleIds' PROVE ModuleKnown(q, m_moduleIndices', module')
      BY DEF ModulesOK
    <3>1. q # Top.path
      BY <2>3 DEF ModuleIds, p
    <3> QED BY <2>3, <3>1, OthersKept DEF p
  <2>6. FramesOK' /\ ReadOK'
    <3>1. CASE Top.caller = "dependency"
      <4>1. stack' = Front(stack) /\ returned' = Failed /\ Failed # Nothing
        BY <2>1, <3>1 DEF Missed, Return, Failed, Nothing
      <4> QED BY <2>4, <4>1, FramesPop DEF IInv, AnswerOK, ReadOK
    <3>2. CASE Top.caller = "specialize"
      <4> DEFINE f == [Top EXCEPT !.pc = "remake"]
      <4>1. f \in Frames /\ f.path = Top.path /\ f.pc = "remake"
        BY <1>0 DEF Frames
      <4>2. stack' = WithTop(f)
        BY <2>1, <3>2 DEF Missed
      <4> HIDE DEF f
      <4>3. FrameKnown(f, m_moduleIndices', module')
        BY <2>3, <4>1 DEF FrameKnown, Registered, p
      <4>4. FramesOK' /\ Top' = f
        BY <2>4, <4>1, <4>2, <4>3, FramesStay
      <4> QED BY <4>1, <4>4 DEF ReadOK
    <3> QED BY <1>0, <1>2, <3>1, <3>2 DEF Frames
  <2> QED BY <2>5, <2>6 DEF Order
<1> QED BY <1>1, <1>2

LEMMA BuildFromSourceOrder ==
  ASSUME IInv, IInv', ~HasCycle(imports), Order, stack # <<>>, BuildFromSource
  PROVE  Order'
<1>0. Top \in Frames /\ FrameOK(imports, source, Top) /\ Top.pc = "source" /\ Top.path \in Scripts
  BY TopFacts DEF BuildFromSource, FrameOK
<1>1. CASE Fault("no_compiler")
  BY <1>1, StopOrder DEF Fault
<1>2. CASE ~Fault("no_compiler")
  <2> DEFINE version == getSource(Top.path)[Top.path]
  <2>0. Top.deps = <<>> /\ ~Registered(Top) /\ m_moduleIndices[Top.path] = 0
    BY <1>0, TopKnown DEF FrameKnown, Registered
  <2>1. PICK illTyped \in BOOLEAN :
          \/ Return(Failed) /\ UNCHANGED <<m_modules, m_moduleIndices, module>>
          \/ /\ createModule(Top.path, version, "source")
             /\ stack' = WithTop([Top EXCEPT !.pc = "imports", !.own = version,
                                    !.m_mod = (m_moduleIndices[Top.path] = 0),
                                    !.illTyped = illTyped])
    BY <1>2 DEF BuildFromSource
  <2>2. version \in Nat
    BY <1>0, getSourceType DEF IInv
  <2> HIDE DEF version
  <2>3. CASE Return(Failed) /\ UNCHANGED <<m_modules, m_moduleIndices, module>>
    <3>1. stack' = Front(stack) /\ returned' # Nothing
      BY <2>3 DEF Return, Failed, Nothing
    <3>2. Moves
      BY <2>3, <3>1 DEF Moves
    <3> QED BY <3>2, MovesOrder
  <2>4. CASE /\ createModule(Top.path, version, "source")
             /\ stack' = WithTop([Top EXCEPT !.pc = "imports", !.own = version,
                                    !.m_mod = (m_moduleIndices[Top.path] = 0),
                                    !.illTyped = illTyped])
    <3> DEFINE f == [Top EXCEPT !.pc = "imports", !.own = version,
                                !.m_mod = (m_moduleIndices[Top.path] = 0),
                                !.illTyped = illTyped]
    <3>1. f \in Frames /\ f.path = Top.path /\ f.pc = "imports" /\ f.deps = Top.deps /\ f.m_mod
      BY <1>0, <2>0, <2>2 DEF Frames
    <3>2. ToSet(f.deps) = {}
      BY <2>0, <3>1 DEF ToSet
    <3>3. stack' = WithTop(f)
      BY <2>4
    <3> HIDE DEF f
    <3> QED BY <2>0, <2>2, <2>4, <3>1, <3>2, <3>3, CreateOrder
  <2> QED BY <2>1, <2>3, <2>4
<1> QED BY <1>1, <1>2

(* What is answered is not under way.                                      *)
LEMMA AnswerIsNew ==
  ASSUME IInv, ~HasCycle(imports), stack # <<>>, returned \in Paths
  PROVE  returned # Top.path /\ \A n \in 1 .. Len(stack) : stack[n].path # returned
<1>1. Asks(imports, Top, returned)
  BY AnswersAssumption DEF IInv, AnswerOK
<1>2. /\ imports \in ImportGraphs /\ stack \in Seq(Frames) /\ StackShape(imports, source, stack)
      /\ Len(stack) \in 1 .. Len(stack)
  BY TopFacts
<1>3. \A n \in 1 .. Len(stack) : stack[n].path # returned
  BY <1>1, <1>2, AskedIsNew DEF Top
<1> QED BY <1>2, <1>3 DEF Top

LEMMA TakeImportOrder ==
  ASSUME IInv, IInv', ~HasCycle(imports), Order, stack # <<>>, TakeImport
  PROVE  Order'
<1>0. /\ Top \in Frames /\ Top.path \in Paths /\ Top.pc = "imports" /\ returned \in {Failed} \cup Paths
      /\ Top.deps \in Seq(Paths) /\ Top.i + 1 \in Times
      /\ UNCHANGED <<m_modules, m_moduleIndices>>
  <2>1. /\ Top \in Frames /\ Top.path \in Paths /\ Top.pc = "imports" /\ returned \in {Failed} \cup Paths
        /\ UNCHANGED <<m_modules, m_moduleIndices>>
    BY TopFacts DEF TakeImport, TakeImportOf, IInv, TypeOK
  <2> QED BY <2>1 DEF Frames, Times
<1>1. CASE returned = Failed
  <2> DEFINE f == [Top EXCEPT !.i = @ + 1]
  <2>1. stack' = WithTop(f) /\ UNCHANGED module
    BY <1>1 DEF TakeImport, TakeImportOf
  <2>2. f \in Frames /\ f.path = Top.path /\ f.pc = "imports" /\ f.deps = Top.deps
        /\ f.m_mod = Top.m_mod
    BY <1>0 DEF Frames
  <2> HIDE DEF f
  <2>3. Moves
    BY <1>0, <2>1, <2>2, StayMoves DEF Registered
  <2> QED BY <2>3, MovesOrder
<1>2. CASE returned # Failed
  <2> DEFINE deps == addDependency(Top.deps, returned)
             f == [Top EXCEPT !.i = @ + 1, !.deps = deps]
  <2>1. /\ returned \in Paths /\ stack' = WithTop(f)
        /\ module' = [module EXCEPT ![returned] = Initialised(@)]
    BY <1>0, <1>2 DEF TakeImport, TakeImportOf
  <2>2. deps \in Seq(Paths) /\ \A d \in ToSet(deps) : d \in ToSet(Top.deps) \/ d = returned
    <3>1. CASE deps = Top.deps
      BY <1>0, <3>1
    <3>2. CASE deps = Append(Top.deps, returned)
      <4>1. ToSet(deps) = ToSet(Top.deps) \cup {returned}
        BY <1>0, <2>1, <3>2, AppendSet
      <4> QED BY <1>0, <2>1, <3>2, <4>1, AppendProperties
    <3> QED BY <3>1, <3>2 DEF addDependency
  <2> HIDE DEF deps
  <2>3. f \in Frames /\ f.path = Top.path /\ f.pc = "imports" /\ f.deps = deps
        /\ f.m_mod = Top.m_mod
    BY <1>0, <2>2 DEF Frames
  <2> HIDE DEF f
  <2>4. OnlyTopChanges /\ ModulesOK' /\ module'[returned].didInit
    BY <1>0, <2>1, InitialisedOrder
  <2>5. FrameKnown(f, m_moduleIndices', module')
    <3>1. \A d \in Paths : d # returned => module'[d] = module[d]
      BY <2>1 DEF IInv, TypeOK
    <3>2. returned # Top.path
      BY <2>1, AnswerIsNew
    <3>3. /\ ~module[Top.path].didInit /\ Top.m_mod
          /\ \A d \in ToSet(Top.deps) \cap Scripts : module[d].didInit
      BY <1>0, TopKnown DEF FrameKnown, Registered
    <3>4. ASSUME NEW d \in ToSet(deps) \cap Scripts PROVE module'[d].didInit
      <4>1. CASE d = returned
        BY <2>4, <4>1
      <4>2. CASE d # returned
        BY <2>2, <3>1, <3>3, <4>2 DEF Paths
      <4> QED BY <4>1, <4>2
    <3> QED BY <1>0, <2>3, <3>1, <3>2, <3>3, <3>4 DEF FrameKnown, Registered
  <2>6. FramesOK' /\ Top' = f
    BY <2>1, <2>3, <2>4, <2>5, FramesStay
  <2>7. ReadOK'
    BY <2>3, <2>6 DEF ReadOK
  <2> QED BY <2>4, <2>6, <2>7 DEF Order
<1> QED BY <1>1, <1>2

LEMMA CompileErrorOrder ==
  ASSUME IInv, IInv', ~HasCycle(imports), Order, stack # <<>>, CompileError
  PROVE  Order'
<1> DEFINE f == [Top EXCEPT !.illTyped = FALSE]
<1>1. Top.pc = "imports" /\ stack' = WithTop(f) /\ UNCHANGED <<m_modules, m_moduleIndices, module>>
  BY DEF CompileError
<1>2. f \in Frames /\ f.path = Top.path /\ f.pc = "imports" /\ f.deps = Top.deps /\ f.m_mod = Top.m_mod
  BY <1>1, TopFacts DEF Frames
<1> HIDE DEF f
<1>3. Moves
  BY <1>1, <1>2, StayMoves DEF Registered
<1> QED BY <1>3, MovesOrder

LEMMA SpecializeOrder ==
  ASSUME IInv, IInv', ~HasCycle(imports), Order, stack # <<>>, Specialize
  PROVE  Order'
<1>1. UNCHANGED <<m_modules, m_moduleIndices, module>>
  BY DEF Specialize
<1>2. PICK t \in Wanted :
         \/ stack' = stack
         \/ /\ m_moduleIndices[t] = 0
            /\ stack' = Append(stack, Frame(t, IF cache[t] = NoFile THEN "remake" ELSE "cached",
                                            "specialize"))
  BY DEF Specialize
<1>3. t \in Paths
  BY DEF Wanted, Paths
<1>4. CASE stack' = stack
  <2>1. Moves
    BY <1>1, <1>4 DEF Moves
  <2> QED BY <2>1, MovesOrder
<1>5. CASE stack' # stack
  <2> DEFINE pc == IF cache[t] = NoFile THEN "remake" ELSE "cached"
             f == Frame(t, pc, "specialize")
  <2>1. m_moduleIndices[t] = 0 /\ stack' = Append(stack, f)
    BY <1>2, <1>5
  <2>2. pc \in {"remake", "cached"}
    OBVIOUS
  <2> HIDE DEF pc
  <2>3. f \in Frames /\ f.path = t /\ f.pc = pc
    BY <1>3, <2>2 DEF Frame, Frames, Times
  <2> HIDE DEF f
  <2>4. Moves
    BY <1>1, <2>1, <2>2, <2>3 DEF Moves, Registered
  <2> QED BY <2>4, MovesOrder
<1> QED BY <1>4, <1>5

LEMMA TakeSpecializationOrder ==
  ASSUME IInv, IInv', ~HasCycle(imports), Order, stack # <<>>, TakeSpecialization
  PROVE  Order'
<1>0. /\ Top \in Frames /\ Top.pc = "imports" /\ ~MoreImports /\ returned # Nothing
      /\ stack' = WithTop([Top EXCEPT !.deps = Append(@, returned)])
      /\ UNCHANGED <<m_modules, m_moduleIndices, module>>
      /\ imports \in ImportGraphs
  BY TopFacts DEF TakeSpecialization
<1>1. returned \in Paths /\ returned \notin Scripts
  <2>1. ~ImportsLeft(imports, Top)
    BY <1>0 DEF MoreImports, ImportsLeft
  <2>2. returned \in Paths
    BY <1>0, <2>1 DEF IInv, TypeOK, AnswerOK
  <2>3. Asks(imports, Top, returned)
    BY <1>0, <2>2 DEF IInv, AnswerOK
  <2>4. returned \in Templates
    BY <1>0, <2>1, <2>3 DEF Asks, AsksDep, AsksImport, AsksTemplate
  <2> QED BY <1>0, <2>2, <2>4, GraphFacts
<1> DEFINE f == [Top EXCEPT !.deps = Append(@, returned)]
<1>2. Top.deps \in Seq(Paths) /\ Append(Top.deps, returned) \in Seq(Paths)
  BY <1>0, <1>1, AppendProperties DEF Frames
<1>3. /\ f \in Frames /\ f.path = Top.path /\ f.pc = "imports" /\ f.deps = Append(Top.deps, returned)
      /\ stack' = WithTop(f) /\ f.m_mod = Top.m_mod
  BY <1>0, <1>2 DEF Frames
<1> HIDE DEF f
<1>4. ToSet(f.deps) \cap Scripts \subseteq ToSet(Top.deps)
  <2>1. ToSet(f.deps) = ToSet(Top.deps) \cup {returned}
    BY <1>1, <1>2, <1>3, AppendSet
  <2> QED BY <1>1, <2>1
<1>5. Moves
  BY <1>0, <1>3, <1>4, StayMoves DEF Registered
<1> QED BY <1>5, MovesOrder

(* The script whose template is made has been imported by the build below. *)
LEMMA OriginIsInitialised ==
  ASSUME IInv, Order, stack # <<>>, Top.caller = "specialize"
  PROVE  module[Origin[Top.path]].didInit
<1>0. /\ Len(stack) \in Nat /\ Len(stack) > 0 /\ stack \in Seq(Frames)
      /\ StackShape(imports, source, stack) /\ imports \in ImportGraphs
  BY TopFacts
<1>1. Len(stack) - 1 \in 1 .. Len(stack) - 1 /\ Len(stack) - 1 \in 1 .. Len(stack)
  <2>1. stack[1].caller = "load"
    BY <1>0 DEF StackShape
  <2>2. Len(stack) \in Nat /\ Len(stack) > 0 /\ Len(stack) # 1
    BY <1>0, <2>1 DEF Top
  <2>3. \A n \in Nat : n > 0 /\ n # 1 => n - 1 \in 1 .. n - 1 /\ n - 1 \in 1 .. n
    OBVIOUS
  <2> QED BY <2>2, <2>3
<1> DEFINE below == stack[Len(stack) - 1]
<1>2. AskedBy(imports, below, Top)
  BY <1>0, <1>1 DEF StackShape, Top
<1>3. /\ below.pc = "imports" /\ Top.path \in Templates /\ Origin[Top.path] \in ToSet(below.deps)
  BY <1>2 DEF AskedBy, AsksTemplate
<1>4. FrameKnown(below, m_moduleIndices, module)
  BY <1>1 DEF Order, FramesOK
<1>5. Origin[Top.path] \in Scripts
  BY <1>0, <1>3, GraphFacts
<1> HIDE DEF below
<1> QED BY <1>3, <1>4, <1>5 DEF FrameKnown, Registered

LEMMA RemakeOrder ==
  ASSUME IInv, IInv', ~HasCycle(imports), Order, stack # <<>>, Remake
  PROVE  Order'
<1>0. /\ Top \in Frames /\ Top.pc = "remake" /\ Top.caller = "specialize"
      /\ Top.path \in Templates /\ Origin[Top.path] \in ModuleIds /\ Origin[Top.path] \in Paths
      /\ module[Origin[Top.path]].didInit
      /\ Origin[Top.path] \in Scripts /\ Top.path \notin Scripts /\ imports \in ImportGraphs
  <2>1. Top \in Frames /\ Top.pc = "remake" /\ Top.caller = "specialize" /\ imports \in ImportGraphs
        /\ Top.path \in Paths
    BY TopFacts DEF Remake, FrameOK
  <2> QED BY <2>1, OriginIsThere, OriginIsInitialised, GraphFacts DEF ModuleIds
<1> DEFINE own == module[Origin[Top.path]].own
           f == [Top EXCEPT !.pc = "imports", !.deps = <<Origin[Top.path]>>, !.own = own,
                            !.m_mod = (m_moduleIndices[Top.path] = 0)]
<1>1. createModule(Top.path, own, "source") /\ stack' = WithTop(f)
  BY DEF Remake
<1>2. own \in Nat
  BY <1>0 DEF IInv, TypeOK, Modules
<1> HIDE DEF own
<1>3. f \in Frames /\ f.path = Top.path /\ f.pc = "imports" /\ f.deps = <<Origin[Top.path]>>
      /\ f.m_mod
  <2>1. <<Origin[Top.path]>> \in Seq(Paths)
    BY <1>0
  <2>2. m_moduleIndices[Top.path] = 0
    BY <1>0, TopKnown DEF FrameKnown, Registered
  <2> QED BY <1>0, <1>2, <2>1, <2>2 DEF Frames
<1> HIDE DEF f
<1>4. ToSet(f.deps) = {Origin[Top.path]}
  BY <1>3 DEF ToSet
<1>5. \A d \in ToSet(f.deps) \cap Scripts : d # Top.path /\ module[d].didInit
  BY <1>0, <1>4
<1>6. ~Registered(Top)
  BY <1>0 DEF Registered
<1> QED BY <1>1, <1>2, <1>3, <1>5, <1>6, CreateOrder

LEMMA PostCompileOrder ==
  ASSUME IInv, IInv', ~HasCycle(imports), Order, GeneratedOK, stack # <<>>, PostCompile
  PROVE  Order'
<1>0. /\ Top \in Frames /\ Top.path \in Paths /\ Top.pc = "imports" /\ module[Top.path] \in Modules
      /\ Top.m_mod /\ UNCHANGED <<m_modules, m_moduleIndices>>
  <2>1. /\ Top \in Frames /\ Top.path \in Paths /\ Top.pc = "imports" /\ module[Top.path] \in Modules
    BY TopFacts, RegisteredModules DEF PostCompile, Registered
  <2>2. Top.m_mod
    BY <2>1, TopKnown DEF FrameKnown, Registered
  <2> QED BY <2>1, <2>2 DEF PostCompile
<1>1. CASE errors
  <2>1. stack' = Front(stack) /\ returned' = Top.path /\ module' = module
    BY <1>0, <1>1 DEF PostCompile, Return
  <2>2. Moves
    BY <1>0, <2>1, AnswersAssumption DEF Moves
  <2> QED BY <2>2, MovesOrder
<1>2. CASE ~errors
  <2> DEFINE r == [module[Top.path] EXCEPT !.built = TRUE, !.generated = TRUE,
                       !.deps = ToSet(Top.deps), !.made = madeOf(Top),
                       !.against = {[path |-> d, made |-> module[d].made] : d \in ToSet(Top.deps)},
                       !.trusted = AllTrusted(Top.deps)]
             f == [Top EXCEPT !.pc = "save"]
  <2>1. module' = [module EXCEPT ![Top.path] = r] /\ stack' = WithTop(f)
    BY <1>0, <1>2 DEF PostCompile
  <2>2. /\ r.didInit = module[Top.path].didInit /\ r.ran = module[Top.path].ran
        /\ r.from = module[Top.path].from /\ r.deps = ToSet(Top.deps)
    BY <1>0 DEF Modules
  <2> HIDE DEF r
  <2>3. f \in Frames /\ f.path = Top.path /\ f.pc = "save" /\ f.deps = Top.deps /\ f.m_mod
    BY <1>0 DEF Frames
  <2> HIDE DEF f
  <2>4. OnlyTopChanges /\ ModulesOK' /\ module'[Top.path] = r
    BY <1>0, <1>2, <2>1, <2>2, BuiltOrder DEF GeneratedOK
  <2>5. FrameKnown(f, m_moduleIndices', module')
    <3>1. /\ ~module[Top.path].didInit
          /\ \A d \in ToSet(Top.deps) \cap Scripts : module[d].didInit
      BY <1>0, TopKnown DEF FrameKnown, Registered
    <3>2. \A d \in ToSet(f.deps) \cap Scripts : module'[d].didInit
      BY <2>1, <2>3, <3>1 DEF IInv, TypeOK, Paths
    <3> QED BY <2>2, <2>3, <2>4, <3>1, <3>2 DEF FrameKnown, Registered
  <2>6. FramesOK' /\ Top' = f
    BY <2>1, <2>3, <2>4, <2>5, FramesStay
  <2>7. ReadOK'
    BY <2>3, <2>6 DEF ReadOK
  <2> QED BY <2>4, <2>6, <2>7 DEF Order
<1> QED BY <1>1, <1>2

LEMMA OnScriptCompiledOrder ==
  ASSUME IInv, IInv', ~HasCycle(imports), Order, stack # <<>>, OnScriptCompiled
  PROVE  Order'
<1>1. /\ stack' = Front(stack) /\ returned' = Top.path /\ Top.path \in Paths
      /\ UNCHANGED <<m_modules, m_moduleIndices, module>>
  BY TopFacts DEF OnScriptCompiled, Return
<1>2. Moves
  BY <1>1, AnswersAssumption DEF Moves
<1> QED BY <1>2, MovesOrder

LEMMA HostLoadOrder ==
  ASSUME IInv, IInv', ~HasCycle(imports), Order, NEW p \in Scripts, HostLoad(p)
  PROVE  Order'
<1>1. getModule(p, stack) /\ p \in Paths /\ UNCHANGED <<m_modules, m_moduleIndices, module>>
  BY DEF HostLoad, Paths
<1>2. Moves
  BY <1>1, getModuleMoves
<1> QED BY <1>2, MovesOrder

LEMMA HostInitOrder ==
  ASSUME IInv, IInv', ~HasCycle(imports), Order, HostInit
  PROVE  Order'
<1>1. /\ stack = <<>> /\ stack' = stack /\ returned # Nothing
      /\ UNCHANGED <<m_modules, m_moduleIndices>>
  BY DEF HostInit
<1>2. CASE returned = Failed
  <2>1. Moves
    BY <1>1, <1>2 DEF HostInit, Moves
  <2> QED BY <2>1, MovesOrder
<1>3. CASE returned # Failed
  <2>1. returned \in Paths /\ module' = [module EXCEPT ![returned] = Initialised(@)]
    BY <1>1, <1>3 DEF HostInit, IInv, TypeOK
  <2>2. ModulesOK'
    BY <1>1, <2>1, InitialisedOrder
  <2>3. FramesOK' /\ ReadOK'
    BY <1>1 DEF FramesOK, ReadOK
  <2> QED BY <2>2, <2>3 DEF Order
<1> QED BY <1>2, <1>3

LEMMA BuildStepOrder ==
  ASSUME IInv, IInv', ~HasCycle(imports), Order, GeneratedOK, BuildStep
  PROVE  Order'
<1>1. stack # <<>>
  BY DEF BuildStep
<1>2. CASE LoadModule \/ BuildFromCached \/ AskDependency \/ TakeDependency \/ CompareVersions
  BY <1>1, <1>2, LoadModuleOrder, BuildFromCachedOrder, AskDependencyOrder, TakeDependencyOrder,
     CompareVersionsOrder
<1>3. CASE Link \/ LinkFails \/ BuildFromSource \/ AskImport \/ TakeImport
  BY <1>1, <1>3, LinkOrder, LinkFailsOrder, BuildFromSourceOrder, AskImportOrder, TakeImportOrder
<1>4. CASE CompileError \/ Specialize \/ TakeSpecialization \/ Remake \/ PostCompile \/ OnScriptCompiled
  BY <1>1, <1>4, CompileErrorOrder, SpecializeOrder, TakeSpecializationOrder, RemakeOrder,
     PostCompileOrder, OnScriptCompiledOrder
<1> QED BY <1>2, <1>3, <1>4 DEF BuildStep

LEMMA NextOrder ==
  ASSUME IInv, IInv', ~HasCycle(imports), Order, GeneratedOK, [Next]_vars
  PROVE  Order'
<1>1. CASE UNCHANGED vars \/ Start \/ service \/ \E p \in Scripts : Edit(p)
  <2>1. UNCHANGED <<m_modules, m_moduleIndices, module, stack>>
    BY <1>1 DEF vars, memory, Start, service, Edit
  <2>2. Moves
    BY <2>1 DEF Moves
  <2> QED BY <2>2, MovesOrder
<1>2. CASE RestoreTwiceDeleted \/ Shutdown \/ Kill
  BY <1>2, StopOrder DEF RestoreTwiceDeleted, Fault, Shutdown, Kill
<1>3. CASE HostInit \/ \E p \in Scripts : HostLoad(p)
  BY <1>3, HostInitOrder, HostLoadOrder
<1>4. CASE BuildStep
  BY <1>4, BuildStepOrder
<1> QED BY <1>1, <1>2, <1>3, <1>4 DEF Next

LEMMA ImportsKept ==
  ASSUME [Next]_vars
  PROVE  imports' = imports
  BY DEF Next, vars, Start, RestoreTwiceDeleted, Shutdown, Kill, service, HostInit, Edit, HostLoad,
         BuildStep

LEMMA InitOrder ==
  ASSUME Init
  PROVE  Order
<1>1. m_modules = <<>> /\ m_moduleIndices = [p \in Paths |-> 0] /\ stack = <<>>
  BY DEF Init
<1> QED BY <1>1 DEF Order, FramesOK, ModulesOK, ModuleIds, ReadOK

-----------------------------------------------------------------------------
(* Modules without code                                                    *)

LEMMA StayGenerated ==
  ASSUME AllGenerated,
         \A p \in Paths : m_moduleIndices'[p] # 0 /\ module'[p].built =>
           module'[p].generated \/ (m_moduleIndices[p] # 0 /\ UNCHANGED module[p])
  PROVE  AllGenerated'
  BY DEF AllGenerated, ModuleIds

LEMMA CreateGenerated ==
  ASSUME IInv, AllGenerated, NEW p \in Paths, NEW own \in Nat, NEW from \in {"source", "cache"},
         createModule(p, own, from)
  PROVE  AllGenerated'
<1>1. CASE m_moduleIndices[p] # 0
  BY <1>1, StayGenerated DEF createModule
<1>2. CASE m_moduleIndices[p] = 0
  <2>1. /\ \A d \in Paths : d # p => m_moduleIndices'[d] = m_moduleIndices[d]
        /\ \A d \in Paths : d # p => module'[d] = module[d]
    BY <1>2 DEF createModule, IInv, TypeOK
  <2>2. module'[p].built = FALSE
    BY <1>2 DEF createModule, IInv, TypeOK
  <2> QED BY <2>1, <2>2, StayGenerated
<1> QED BY <1>1, <1>2

LEMMA InitialisedGenerated ==
  ASSUME IInv, GeneratedOK, returned \in Paths, UNCHANGED <<m_moduleIndices>>,
         module' = [module EXCEPT ![returned] = Initialised(@)]
  PROVE  AllGenerated => AllGenerated'
<1>1. module[returned] \in Modules
  BY DEF IInv, AnswerOK, TypeOK, ModuleIds
<1>2. /\ Initialised(module[returned]).built = module[returned].built
      /\ Initialised(module[returned]).generated = module[returned].generated
  BY <1>1, InitialisedProps
<1>3. \A p \in Paths : module'[p].built = module[p].built /\ module'[p].generated = module[p].generated
  BY <1>2 DEF IInv, TypeOK
<1> QED BY <1>3 DEF AllGenerated, ModuleIds

(* A root that has no code for its module is not followed by another.      *)
LEMMA BuildStepGenerated ==
  ASSUME IInv, GeneratedOK, BuildStep
  PROVE  GeneratedOK'
<1>0. /\ up /\ stack # <<>> /\ Top \in Frames /\ Top.path \in Paths /\ FrameOK(imports, source, Top)
      /\ stack \in Seq(Frames)
  BY TopFacts DEF BuildStep
<1>1. CASE EmptyMemory
  BY <1>1 DEF EmptyMemory, GeneratedOK, AllGenerated, ModuleIds
<1>2. CASE ~AllGenerated /\ ~EmptyMemory
  <2>1. errors /\ m_compOutput = "cache" /\ IsRoot /\ Top.pc \in {"load", "source", "cached"}
    BY <1>0, <1>2 DEF GeneratedOK
  <2>2. CASE LoadModule
    <3> DEFINE pc == IF cacheNewer(Top.path) THEN "cached" ELSE "source"
               f == [Top EXCEPT !.pc = pc]
    <3>1. stack' = WithTop(f) /\ UNCHANGED <<errors, m_compOutput>>
      BY <1>2, <2>2 DEF LoadModule, Fault
    <3>2. pc \in {"cached", "source"}
      OBVIOUS
    <3> HIDE DEF pc
    <3>3. f \in Frames /\ f.pc = pc
      BY <1>0, <3>2 DEF Frames
    <3> HIDE DEF f
    <3>4. Len(stack') = Len(stack) /\ stack'[Len(stack)] = f
      BY <1>0, <3>1, <3>3, ReplaceTop DEF WithTop
    <3>5. IsRoot' /\ Top' = f
      BY <2>1, <3>4 DEF IsRoot, Top
    <3> QED BY <2>1, <3>1, <3>2, <3>3, <3>5 DEF GeneratedOK
  <2>3. CASE BuildFromCached \/ BuildFromSource
    <3>1. ResetFails
      BY <2>1 DEF ResetFails
    <3> QED BY <1>2, <2>1, <2>3, <3>1 DEF BuildFromCached, BuildFromSource, Fault
  <2>4. LoadModule \/ BuildFromCached \/ BuildFromSource
    BY <2>1 DEF BuildStep, AskDependency, TakeDependency, CompareVersions, Link, LinkFails, AskImport,
                TakeImport, TakeImportOf, CompileError, Specialize, TakeSpecialization, Remake,
                PostCompile, OnScriptCompiled
  <2> QED BY <2>2, <2>3, <2>4
<1> SUFFICES ASSUME AllGenerated, ~EmptyMemory PROVE GeneratedOK'
  BY <1>1, <1>2
<1>3. CASE \/ LoadModule \/ BuildFromCached \/ AskDependency \/ TakeDependency \/ AskImport
           \/ CompileError \/ Specialize \/ TakeSpecialization \/ OnScriptCompiled
  <2>1. UNCHANGED <<m_moduleIndices, module>>
    BY <1>3 DEF LoadModule, BuildFromCached, AskDependency, TakeDependency, AskImport, CompileError,
                Specialize, TakeSpecialization, OnScriptCompiled, Fault
  <2> QED BY <2>1, StayGenerated DEF GeneratedOK
<1>4. CASE CompareVersions
  <2> DEFINE own == IF Top.entry.torn THEN 0 ELSE Top.entry.own
  <2>1. UNCHANGED <<m_moduleIndices, module>> \/ createModule(Top.path, own, "cache")
    BY <1>4 DEF CompareVersions
  <2>2. own \in Nat
    BY <1>0, <1>4 DEF CompareVersions, FrameOK, Frames, CacheFiles, CutFiles, WholeFiles
  <2> HIDE DEF own
  <2> QED BY <1>0, <2>1, <2>2, StayGenerated, CreateGenerated DEF GeneratedOK
<1>5. CASE BuildFromSource
  <2> DEFINE version == getSource(Top.path)[Top.path]
  <2>1. UNCHANGED <<m_moduleIndices, module>> \/ createModule(Top.path, version, "source")
    BY <1>5 DEF BuildFromSource, Fault
  <2>2. version \in Nat
    BY <1>0, <1>5, getSourceType DEF IInv, FrameOK, BuildFromSource
  <2> HIDE DEF version
  <2> QED BY <1>0, <2>1, <2>2, StayGenerated, CreateGenerated DEF GeneratedOK
<1>6. CASE Remake
  <2> DEFINE own == module[Origin[Top.path]].own
  <2>1. createModule(Top.path, own, "source") /\ Top.caller = "specialize"
    BY <1>0, <1>6 DEF Remake, FrameOK
  <2>2. own \in Nat
    BY <1>0, <2>1, OriginIsThere DEF IInv, TypeOK, ModuleIds, Modules
  <2> HIDE DEF own
  <2> QED BY <1>0, <2>1, <2>2, CreateGenerated DEF GeneratedOK
<1>7. CASE TakeImport
  <2>1. /\ returned \in {Failed} \cup Paths /\ UNCHANGED m_moduleIndices
        /\ \/ UNCHANGED module
           \/ returned # Failed /\ module' = [module EXCEPT ![returned] = Initialised(@)]
    BY <1>7 DEF TakeImport, TakeImportOf, IInv, TypeOK
  <2> QED BY <2>1, StayGenerated, InitialisedGenerated DEF GeneratedOK
<1>8. CASE LinkFails
  <2>1. /\ Top.path \in ModuleIds /\ m_moduleIndices[Top.path] = Len(m_modules)
        /\ destroyModule(Top.path) /\ TypeOK /\ IndexOK
    BY <1>0, <1>8, RegisteredModules DEF LinkFails, Registered, IInv, TopOK
  <2> DEFINE p == Top.path
  <2>2. p \in ModuleIds /\ m_moduleIndices[p] = Len(m_modules) /\ destroyModule(p)
    BY <2>1
  <2> HIDE DEF p
  <2>3. /\ m_moduleIndices'[p] = 0
        /\ \A d \in Paths : d # p => m_moduleIndices'[d] = m_moduleIndices[d] /\ module'[d] = module[d]
    BY <2>1, <2>2, DestroyProps
  <2> QED BY <2>3, StayGenerated DEF GeneratedOK
<1>9. CASE Link
  <2>0. module[Top.path] \in Modules /\ module \in [Paths -> {NoModule} \cup Modules]
    BY <1>0, <1>9, RegisteredModules DEF Link, Registered, IInv, TypeOK
  <2> DEFINE r == [module[Top.path] EXCEPT !.built = TRUE, !.generated = ~errors,
                         !.deps = ToSet(Top.deps), !.made = Top.entry.made,
                         !.against = {[path |-> d.path, made |-> d.made] : d \in ToSet(Top.entry.deps)},
                         !.trusted = Top.entry.quiet /\ quiet /\ AllTrusted(Top.deps)]
  <2>4. module' = [module EXCEPT ![Top.path] = r]
    BY <1>9 DEF Link, Fault
  <2>5. ~errors => r.generated
    BY <2>0 DEF Modules
  <2> HIDE DEF r
  <2>6. /\ ~errors => module'[Top.path].generated
        /\ \A d \in Paths : d # Top.path => module'[d] = module[d]
    BY <1>0, <2>0, <2>4, <2>5
  <2>1. /\ UNCHANGED <<m_moduleIndices, errors>> /\ stack' = Front(stack)
        /\ ~IsRoot => ~errors
        /\ m_compOutput' = IF IsRoot THEN "cache" ELSE m_compOutput
    BY <1>9 DEF Link, Fault, Return
  <2>2. CASE ~errors
    BY <2>1, <2>2, <2>6, StayGenerated DEF GeneratedOK
  <2>3. CASE errors
    <3>1. Len(stack') = 0
      BY <1>0, <2>1, <2>3, PopTop DEF IsRoot
    <3>2. stack' = <<>>
      BY <1>0, <2>1, <3>1, PopTop, EmptySeq
    <3> QED BY <2>1, <2>3, <3>2 DEF GeneratedOK
  <2> QED BY <2>2, <2>3
<1>10. CASE PostCompile
  <2>0. module[Top.path] \in Modules /\ module \in [Paths -> {NoModule} \cup Modules]
    BY <1>0, <1>10, RegisteredModules DEF PostCompile, Registered, IInv, TypeOK
  <2>1. /\ UNCHANGED module \/ module'[Top.path].generated
        /\ \A d \in Paths : d # Top.path => module'[d] = module[d]
        /\ UNCHANGED m_moduleIndices
    BY <1>0, <1>10, <2>0 DEF PostCompile, Fault, Modules
  <2> QED BY <2>1, StayGenerated DEF GeneratedOK
<1> QED BY <1>3, <1>4, <1>5, <1>6, <1>7, <1>8, <1>9, <1>10 DEF BuildStep

LEMMA NextGenerated ==
  ASSUME IInv, GeneratedOK, [Next]_vars
  PROVE  GeneratedOK'
<1>1. CASE UNCHANGED vars \/ Start \/ service \/ \E p \in Scripts : Edit(p)
  <2>1. UNCHANGED <<m_moduleIndices, module, stack, errors, m_compOutput>>
    BY <1>1 DEF vars, memory, Start, service, Edit
  <2> QED BY <2>1 DEF GeneratedOK, AllGenerated, ModuleIds, Top, IsRoot
<1>2. CASE RestoreTwiceDeleted \/ Shutdown \/ Kill
  <2>1. EmptyMemory
    BY <1>2 DEF RestoreTwiceDeleted, Fault, Shutdown, Kill
  <2> QED BY <2>1 DEF EmptyMemory, GeneratedOK, AllGenerated, ModuleIds
<1>3. CASE HostInit
  <2>1. /\ returned \in {Failed} \cup Paths /\ stack' = <<>>
        /\ UNCHANGED <<m_moduleIndices, errors, m_compOutput>>
        /\ \/ UNCHANGED module
           \/ returned # Failed /\ module' = [module EXCEPT ![returned] = Initialised(@)]
    BY <1>3 DEF HostInit, IInv, TypeOK
  <2>2. AllGenerated => AllGenerated'
    BY <2>1, StayGenerated, InitialisedGenerated
  <2> QED BY <2>1, <2>2 DEF GeneratedOK
<1>4. ASSUME NEW p \in Scripts, HostLoad(p) PROVE GeneratedOK'
  <2>1. /\ UNCHANGED <<m_moduleIndices, module, errors, m_compOutput>>
        /\ getModule(p, <<>>)
    BY <1>4 DEF HostLoad
  <2>2. \/ stack' = <<>>
        \/ \E f \in {Frame(p, "load", "load"), Frame(p, "cached", "dependency")} : stack' = Append(<<>>, f)
    BY <2>1 DEF getModule
  <2>3. stack' # <<>> => IsRoot' /\ Top'.pc \in {"load", "source", "cached"}
    BY <2>2 DEF IsRoot, Top, Frame
  <2>4. AllGenerated => AllGenerated'
    BY <2>1, StayGenerated
  <2> QED BY <2>1, <2>3, <2>4 DEF GeneratedOK
<1>5. CASE BuildStep
  BY <1>5, BuildStepGenerated
<1> QED BY <1>1, <1>2, <1>3, <1>4, <1>5 DEF Next

(* Code was generated for every module that is built, but for that of a    *)
(* root which had errors, the last of its session (Pipeline::tryCache).    *)
THEOREM GeneratedKept == Spec => []GeneratedOK
<1>1. Init => GeneratedOK
  BY DEF Init, GeneratedOK, AllGenerated, ModuleIds
<1>2. IInv /\ GeneratedOK /\ [Next]_vars => GeneratedOK'
  BY NextGenerated
<1> QED BY <1>1, <1>2, Invariant, PTL DEF Spec

-----------------------------------------------------------------------------
(* Unless scripts import each other, no build finds its module made, and   *)
(* no module is initialised while it is built.                             *)
THEOREM OrderKept == Spec => []OrderInv
<1>1. Init => OrderInv
  BY InitOrder DEF OrderInv
<1>2. IInv /\ IInv' /\ GeneratedOK /\ OrderInv /\ [Next]_vars => OrderInv'
  <2> SUFFICES ASSUME IInv, IInv', GeneratedOK, OrderInv, [Next]_vars, ~HasCycle(imports')
               PROVE  Order'
    BY DEF OrderInv
  <2>1. ~HasCycle(imports) /\ Order
    BY ImportsKept DEF OrderInv
  <2> QED BY <2>1, NextOrder
<1> QED BY <1>1, <1>2, Invariant, GeneratedKept, PTL DEF Spec

(* Unless scripts import each other, code that runs finds the modules it   *)
(* imports initialised (compileImport, Module::init).                      *)
THEOREM InitBeforeUse == Spec => []InitBeforeUseApart
<1>1. OrderInv => InitBeforeUseApart
  <2> SUFFICES ASSUME OrderInv, ~Cyclic,
                      NEW p \in ModuleIds, module[p].ran, module[p].from = "source",
                      NEW d \in module[p].deps \cap Scripts, module[d].built
               PROVE  module[d].ran
    BY DEF InitBeforeUseApart
  <2>1. ModulesOK
    BY DEF OrderInv, Order, HasCycle, Cyclic
  <2>2. ModuleKnown(p, m_moduleIndices, module)
    BY <2>1 DEF ModulesOK
  <2>3. m_moduleIndices[d] # 0 /\ module[d].didInit /\ module[d].generated /\ module[p].built
    BY <2>2 DEF ModuleKnown
  <2>4. ModuleKnown(d, m_moduleIndices, module)
    BY <2>1, <2>3 DEF ModulesOK, ModuleIds, Paths
  <2> QED BY <2>3, <2>4 DEF ModuleKnown
<1> QED BY <1>1, OrderKept, PTL

-----------------------------------------------------------------------------
(* Causes of faults: the first session                                     *)

NotFromFiles == {f \in Frames : f.pc \notin {"cached", "deps", "read"}}

(* What a step does to the stack: the frames that it puts there are in S.  *)
StackSteps(S) ==
  \/ stack' = stack
  \/ stack # <<>> /\ stack' = Front(stack)
  \/ \E f \in S : stack' = Append(stack, f) \/ (stack # <<>> /\ stack' = WithTop(f))

LEMMA StepsIn ==
  ASSUME NEW S \in SUBSET Frames, stack \in Seq(Frames), \A n \in 1 .. Len(stack) : stack[n] \in S,
         StackSteps(S)
  PROVE  \A n \in 1 .. Len(stack') : stack'[n] \in S
<1> SUFFICES ASSUME NEW n \in 1 .. Len(stack') PROVE stack'[n] \in S
  OBVIOUS
<1>1. CASE stack' = stack
  BY <1>1
<1>2. CASE stack # <<>> /\ stack' = Front(stack)
  <2>1. /\ Len(stack') = Len(stack) - 1 /\ Len(stack) \in Nat
        /\ \A k \in 1 .. Len(stack) - 1 : stack'[k] = stack[k]
    BY <1>2, PopTop
  <2>2. n \in 1 .. Len(stack) - 1 /\ n \in 1 .. Len(stack)
    BY <2>1
  <2> QED BY <2>1, <2>2
<1>3. ASSUME NEW f \in S, stack' = Append(stack, f) PROVE stack'[n] \in S
  <2>1. /\ Len(stack') = Len(stack) + 1 /\ Len(stack) \in Nat /\ stack'[Len(stack) + 1] = f
        /\ \A k \in 1 .. Len(stack) : stack'[k] = stack[k]
    BY <1>3, PushTop
  <2>2. n = Len(stack) + 1 \/ n \in 1 .. Len(stack)
    BY <2>1
  <2> QED BY <2>1, <2>2
<1>4. ASSUME NEW f \in S, stack # <<>>, stack' = WithTop(f) PROVE stack'[n] \in S
  <2> DEFINE t == [stack EXCEPT ![Len(stack)] = f]
  <2>1. /\ Len(t) = Len(stack) /\ t[Len(stack)] = f /\ Len(stack) \in Nat
        /\ \A k \in 1 .. Len(stack) - 1 : t[k] = stack[k]
    BY <1>4, ReplaceTop
  <2>2. stack' = t
    BY <1>4 DEF WithTop
  <2> HIDE DEF t
  <2>3. n = Len(stack) \/ (n \in 1 .. Len(stack) - 1 /\ n \in 1 .. Len(stack))
    BY <2>1, <2>2
  <2> QED BY <2>1, <2>2, <2>3
<1> QED BY <1>1, <1>2, <1>3, <1>4 DEF StackSteps

LEMMA FileBuildsLater ==
  ASSUME IInv, FirstSession, up, stack # <<>>, Top.pc \in {"cached", "deps", "read"}
  PROVE  sessions > 1
<1>1. Len(stack) \in 1 .. Len(stack) /\ sessions \in Nat
  BY TopFacts DEF IInv, TypeOK
<1>2. ~(sessions <= 1)
  BY <1>1 DEF FirstSession, Top
<1> QED BY <1>1, <1>2

LEMMA FirstKept ==
  ASSUME IInv, FirstSession, up, sessions' = sessions,
         sessions <= 1 =>
           /\ StackSteps(NotFromFiles)
           /\ \A p \in Paths : cache'[p] # NoFile => cache[p] # NoFile \/ m_moduleIndices'[p] # 0
           /\ \A p \in Paths : m_moduleIndices[p] # 0 => m_moduleIndices'[p] # 0
  PROVE  FirstSession'
<1>1. sessions # 0
  BY DEF FirstSession
<1> SUFFICES ASSUME sessions <= 1
             PROVE  /\ \A p \in Paths : cache'[p] # NoFile => m_moduleIndices'[p] # 0
                    /\ \A n \in 1 .. Len(stack') : stack'[n].pc \notin {"cached", "deps", "read"}
  BY <1>1 DEF FirstSession
<1>2. \A p \in Paths : cache'[p] # NoFile => m_moduleIndices'[p] # 0
  BY DEF FirstSession
<1>3. /\ stack \in Seq(Frames)
      /\ \A n \in 1 .. Len(stack) : stack[n] \in NotFromFiles
  <2>1. stack \in Seq(Frames)
    BY DEF IInv, TypeOK
  <2> QED BY <2>1, FrameTypes DEF FirstSession, NotFromFiles
<1>4. \A n \in 1 .. Len(stack') : stack'[n] \in NotFromFiles
  <2>1. NotFromFiles \in SUBSET Frames
    BY DEF NotFromFiles
  <2> QED BY <1>3, <2>1, StepsIn
<1> QED BY <1>2, <1>4 DEF NotFromFiles

(* In the first session what is not registered has no cache file.          *)
LEMMA getModuleFirst ==
  ASSUME IInv, FirstSession, up, sessions <= 1, NEW p \in Paths, getModule(p, stack)
  PROVE  StackSteps(NotFromFiles)
<1> DEFINE f == Frame(p, "load", "load")
<1>1. f \in NotFromFiles
  BY DEF Frame, Frames, Times, NotFromFiles
<1>2. m_moduleIndices[p] = 0 => cache[p] = NoFile
  BY DEF FirstSession
<1>3. stack' = stack \/ stack' = Append(stack, f)
  BY <1>2 DEF getModule
<1> HIDE DEF f
<1> QED BY <1>1, <1>3 DEF StackSteps

LEMMA StopFirst ==
  ASSUME FirstSession, up, sessions' = sessions, up' = FALSE
  PROVE  FirstSession'
  BY DEF FirstSession

LEMMA StayFirst ==
  ASSUME IInv, FirstSession, up, sessions' = sessions, cache' = cache, StackSteps(NotFromFiles),
         \A p \in Paths : m_moduleIndices[p] # 0 => m_moduleIndices'[p] # 0
  PROVE  FirstSession'
  BY FirstKept

LEMMA CreateKeeps ==
  ASSUME IInv, NEW q \in Paths, NEW own, NEW from, createModule(q, own, from)
  PROVE  \A p \in Paths : m_moduleIndices[p] # 0 => m_moduleIndices'[p] # 0
<1>1. Len(m_modules) + 1 # 0 /\ m_moduleIndices \in [Paths -> Nat]
  BY LenProperties DEF IInv, TypeOK
<1> QED BY <1>1 DEF createModule

LEMMA BuildStepFirst ==
  ASSUME IInv, FirstSession, BuildStep
  PROVE  FirstSession'
<1>0. /\ up /\ stack # <<>> /\ sessions' = sessions
      /\ Top \in Frames /\ Top.path \in Paths /\ imports \in ImportGraphs /\ FrameOK(imports, source, Top)
  BY TopFacts DEF BuildStep
<1>1. CASE Top.pc \in {"cached", "deps", "read"}
  <2>1. sessions > 1 /\ sessions \in Nat
    BY <1>0, <1>1, FileBuildsLater DEF IInv, TypeOK
  <2>2. ~(sessions <= 1)
    BY <2>1
  <2> QED BY <1>0, <2>2, FirstKept
<1>2. CASE up' = FALSE
  BY <1>0, <1>2, StopFirst
<1>3. ASSUME Top.pc \notin {"cached", "deps", "read"}, up' # FALSE, LoadModule PROVE FirstSession'
  <2> DEFINE pc == IF cacheNewer(Top.path) THEN "cached" ELSE "source"
             f == [Top EXCEPT !.pc = pc]
  <2>1. Top.pc = "load" /\ stack' = WithTop(f) /\ UNCHANGED <<cache, m_moduleIndices>>
    BY <1>3 DEF LoadModule, Fault, disk
  <2>2. sessions <= 1 => cache[Top.path] = NoFile
    BY <1>0, <2>1 DEF FirstSession, IInv, TopOK
  <2>3. sessions <= 1 => pc = "source"
    BY <2>2 DEF cacheNewer
  <2> HIDE DEF pc
  <2>4. pc = "source" => f \in NotFromFiles
    BY <1>0 DEF Frames, NotFromFiles
  <2> HIDE DEF f
  <2> QED BY <1>0, <2>1, <2>3, <2>4, FirstKept DEF StackSteps
<1>4. ASSUME up' # FALSE, BuildFromSource PROVE FirstSession'
  <2> DEFINE version == getSource(Top.path)[Top.path]
             f(illTyped) == [Top EXCEPT !.pc = "imports", !.own = version,
                                        !.m_mod = (m_moduleIndices[Top.path] = 0),
                                        !.illTyped = illTyped]
  <2>1. /\ Top.pc = "source" /\ cache' = cache
        /\ \/ stack' = Front(stack) /\ m_moduleIndices' = m_moduleIndices
           \/ /\ \E illTyped \in BOOLEAN : stack' = WithTop(f(illTyped))
              /\ createModule(Top.path, version, "source")
    BY <1>4 DEF BuildFromSource, Return, Fault, disk
  <2>2. version \in Nat
    BY <1>0, <2>1, getSourceType DEF FrameOK, IInv
  <2> HIDE DEF version
  <2>3. \A illTyped \in BOOLEAN : f(illTyped) \in NotFromFiles
    BY <1>0, <2>2 DEF Frames, NotFromFiles
  <2> HIDE DEF f
  <2>4. StackSteps(NotFromFiles)
    BY <1>0, <2>1, <2>3 DEF StackSteps
  <2>5. \A p \in Paths : m_moduleIndices[p] # 0 => m_moduleIndices'[p] # 0
    BY <1>0, <2>1, <2>2, CreateKeeps
  <2> QED BY <1>0, <2>1, <2>4, <2>5, StayFirst
<1>5. ASSUME AskImport PROVE FirstSession'
  <2> DEFINE p == imports[Top.path][Top.i]
  <2>1. getModule(p, stack) /\ p \in Paths /\ UNCHANGED <<cache, m_moduleIndices>>
    BY <1>5 DEF AskImport, MoreImports, Paths, disk
  <2> HIDE DEF p
  <2> QED BY <1>0, <2>1, getModuleFirst, FirstKept
<1>6. ASSUME TakeImport PROVE FirstSession'
  <2>1. Top.pc = "imports" /\ returned \in {Failed} \cup Paths /\ UNCHANGED <<cache, m_moduleIndices>>
    BY <1>6 DEF TakeImport, TakeImportOf, IInv, TypeOK, disk
  <2>2. PICK deps \in Seq(Paths) : stack' = WithTop([Top EXCEPT !.i = @ + 1, !.deps = deps])
    <3>1. Top.deps \in Seq(Paths)
      BY <1>0 DEF Frames
    <3>2. CASE returned = Failed
      <4>1. [Top EXCEPT !.i = @ + 1] = [Top EXCEPT !.i = @ + 1, !.deps = Top.deps]
        BY <1>0 DEF Frames
      <4> QED BY <1>6, <3>1, <3>2, <4>1 DEF TakeImport, TakeImportOf
    <3>3. CASE returned # Failed
      <4>1. addDependency(Top.deps, returned) \in Seq(Paths)
        BY <2>1, <3>1, <3>3, AppendProperties DEF addDependency
      <4> QED BY <1>6, <3>3, <4>1 DEF TakeImport, TakeImportOf
    <3> QED BY <3>2, <3>3
  <2> DEFINE f == [Top EXCEPT !.i = @ + 1, !.deps = deps]
  <2>3. f \in NotFromFiles
    <3>1. Top.i + 1 \in Times
      BY <1>0 DEF Frames, Times
    <3>2. f \in Frames /\ f.pc = "imports"
      BY <1>0, <2>1, <3>1 DEF Frames
    <3> QED BY <3>2 DEF NotFromFiles
  <2>4. stack' = WithTop(f)
    BY <2>2
  <2> HIDE DEF f
  <2> QED BY <1>0, <2>1, <2>3, <2>4, StayFirst DEF StackSteps
<1>7. ASSUME Specialize PROVE FirstSession'
  <2>1. UNCHANGED <<cache, m_moduleIndices>>
    BY <1>7 DEF Specialize, disk
  <2>2. PICK t \in Wanted :
           \/ stack' = stack
           \/ /\ m_moduleIndices[t] = 0
              /\ stack' = Append(stack, Frame(t, IF cache[t] = NoFile THEN "remake" ELSE "cached",
                                              "specialize"))
    BY <1>7 DEF Specialize
  <2> DEFINE f == Frame(t, "remake", "specialize")
  <2>3. t \in Paths
    BY DEF Wanted, Paths
  <2>4. f \in NotFromFiles
    BY <2>3 DEF Frame, Frames, Times, NotFromFiles
  <2>5. sessions <= 1 => stack' = stack \/ stack' = Append(stack, f)
    BY <1>0, <2>2, <2>3 DEF FirstSession
  <2> HIDE DEF f
  <2> QED BY <1>0, <2>1, <2>4, <2>5, FirstKept DEF StackSteps
<1>8. ASSUME TakeSpecialization PROVE FirstSession'
  <2>1. /\ Top.pc = "imports" /\ returned \in Paths /\ UNCHANGED <<cache, m_moduleIndices>>
        /\ stack' = WithTop([Top EXCEPT !.deps = Append(@, returned)])
    <3>1. /\ Top.pc = "imports" /\ ~MoreImports /\ returned # Nothing
          /\ UNCHANGED <<cache, m_moduleIndices>>
          /\ stack' = WithTop([Top EXCEPT !.deps = Append(@, returned)])
      BY <1>8 DEF TakeSpecialization, disk
    <3>2. ~ImportsLeft(imports, Top)
      BY <3>1 DEF MoreImports, ImportsLeft
    <3> QED BY <1>0, <3>1, <3>2 DEF IInv, TypeOK, AnswerOK
  <2> DEFINE f == [Top EXCEPT !.deps = Append(@, returned)]
  <2>2. f \in NotFromFiles
    <3>1. Append(Top.deps, returned) \in Seq(Paths)
      BY <1>0, <2>1, AppendProperties DEF Frames
    <3> QED BY <1>0, <2>1, <3>1 DEF Frames, NotFromFiles
  <2>3. stack' = WithTop(f)
    BY <2>1
  <2> HIDE DEF f
  <2> QED BY <1>0, <2>1, <2>2, <2>3, StayFirst DEF StackSteps
<1>9. ASSUME Remake PROVE FirstSession'
  <2>0. /\ Top.pc = "remake" /\ Top.caller = "specialize" /\ Top.path \in Templates
        /\ Origin[Top.path] \in ModuleIds
    BY <1>0, <1>9, OriginIsThere DEF Remake, FrameOK
  <2> DEFINE own == module[Origin[Top.path]].own
             f == [Top EXCEPT !.pc = "imports", !.deps = <<Origin[Top.path]>>, !.own = own,
                              !.m_mod = (m_moduleIndices[Top.path] = 0)]
  <2>1. createModule(Top.path, own, "source") /\ stack' = WithTop(f) /\ cache' = cache
    BY <1>9 DEF Remake, disk
  <2>2. own \in Nat /\ Origin[Top.path] \in Paths
    BY <2>0 DEF IInv, TypeOK, ModuleIds, Modules
  <2> HIDE DEF own
  <2>3. f \in NotFromFiles
    <3>1. <<Origin[Top.path]>> \in Seq(Paths)
      BY <2>2
    <3> QED BY <1>0, <2>2, <3>1 DEF Frames, NotFromFiles
  <2> HIDE DEF f
  <2>4. \A p \in Paths : m_moduleIndices[p] # 0 => m_moduleIndices'[p] # 0
    BY <1>0, <2>1, <2>2, CreateKeeps
  <2> QED BY <1>0, <2>1, <2>3, <2>4, StayFirst DEF StackSteps
<1>10. ASSUME up' # FALSE, PostCompile PROVE FirstSession'
  <2> DEFINE f == [Top EXCEPT !.pc = "save"]
  <2>1. f \in NotFromFiles
    BY <1>0 DEF Frames, NotFromFiles
  <2>2. /\ stack' = Front(stack) \/ stack' = WithTop(f)
        /\ UNCHANGED <<cache, m_moduleIndices>>
    BY <1>10 DEF PostCompile, Return, Fault, disk
  <2> HIDE DEF f
  <2> QED BY <1>0, <2>1, <2>2, StayFirst DEF StackSteps
<1>11. ASSUME OnScriptCompiled PROVE FirstSession'
  <2>1. Top.pc = "save" /\ stack' = Front(stack) /\ m_moduleIndices' = m_moduleIndices /\ saved
    BY <1>11 DEF OnScriptCompiled, Return
  <2>2. m_moduleIndices[Top.path] # 0
    BY <1>0, <2>1, RegisteredModules DEF Registered, ModuleIds
  <2>3. \A p \in Paths : cache'[p] # NoFile => cache[p] # NoFile \/ m_moduleIndices'[p] # 0
    <3>1. \A p \in Paths : p # Top.path => cache'[p] = cache[p]
      BY <2>1 DEF saved, IInv, TypeOK
    <3> QED BY <2>1, <2>2, <3>1
  <2> QED BY <1>0, <2>1, <2>3, FirstKept DEF StackSteps
<1>12. ASSUME CompileError PROVE FirstSession'
  <2> DEFINE f == [Top EXCEPT !.illTyped = FALSE]
  <2>1. Top.pc = "imports" /\ stack' = WithTop(f) /\ UNCHANGED <<cache, m_moduleIndices>>
    BY <1>12 DEF CompileError, disk
  <2>2. f \in NotFromFiles
    BY <1>0, <2>1 DEF Frames, NotFromFiles
  <2> HIDE DEF f
  <2> QED BY <1>0, <2>1, <2>2, StayFirst DEF StackSteps
<1>13. LoadModule \/ BuildFromSource \/ AskImport \/ TakeImport \/ Specialize \/ TakeSpecialization
       \/ Remake \/ PostCompile \/ OnScriptCompiled \/ CompileError \/ Top.pc \in {"cached", "deps", "read"}
  BY DEF BuildStep, BuildFromCached, AskDependency, TakeDependency, CompareVersions, Link, LinkFails
<1> QED BY <1>1, <1>2, <1>3, <1>4, <1>5, <1>6, <1>7, <1>8, <1>9, <1>10, <1>11, <1>12, <1>13

LEMMA NextFirst ==
  ASSUME IInv, FirstSession, [Next]_vars
  PROVE  FirstSession'
<1>0. sessions \in Nat /\ (sessions = 0 => ~up)
  BY DEF IInv, TypeOK, FirstSession
<1>1. CASE UNCHANGED vars \/ service \/ HostInit \/ \E p \in Scripts : Edit(p)
  <2>1. UNCHANGED <<sessions, up, cache, stack, m_moduleIndices>>
    BY <1>1 DEF vars, memory, disk, service, HostInit, Edit
  <2> QED BY <2>1 DEF FirstSession
<1>2. CASE Start
  <2>1. sessions' = sessions + 1 /\ cache' = cache /\ stack' = <<>>
    BY <1>2 DEF Start, disk, IInv, TypeOK
  <2>2. sessions' <= 1 => sessions = 0
    BY <1>0, <2>1
  <2> QED BY <1>0, <2>1, <2>2 DEF FirstSession
<1>3. CASE RestoreTwiceDeleted
  <2>1. sessions' = sessions + 1 /\ up' = FALSE
    BY <1>3 DEF RestoreTwiceDeleted, Fault
  <2> QED BY <1>0, <2>1 DEF FirstSession
<1>4. CASE Shutdown \/ Kill
  BY <1>4, StopFirst DEF Shutdown, Kill
<1>5. ASSUME NEW p \in Scripts, HostLoad(p) PROVE FirstSession'
  <2>1. /\ up /\ getModule(p, stack) /\ p \in Paths
        /\ UNCHANGED <<sessions, cache, m_moduleIndices>>
    BY <1>5 DEF HostLoad, Paths, disk
  <2> QED BY <2>1, getModuleFirst, FirstKept
<1>6. CASE BuildStep
  BY <1>6, BuildStepFirst
<1> QED BY <1>1, <1>2, <1>3, <1>4, <1>5, <1>6 DEF Next

-----------------------------------------------------------------------------
(* Causes of faults: until the first edit                                  *)

LEMMA StayQuiet ==
  ASSUME QuietOK, up, quiet' = quiet, source' = source,
         \A p \in Scripts : m_scripts[p] # NoMeta => m_scripts'[p] # NoMeta,
         \A p \in Scripts : m_sources'[p] = m_sources[p] \/ m_sources'[p] = source[p].mtime
  PROVE  QuietOK'
  BY DEF QuietOK

LEMMA scanFinds ==
  ASSUME IInv, NEW metas \in [Paths -> Metas], NEW p \in Scripts, source[p] # NoFile
  PROVE  scanDirectory(metas)[p] # NoMeta
<1>1. source[p].mtime \in Nat /\ metas[p] \in Metas /\ p \in Paths
  BY DEF IInv, TypeOK, Files, Times, Paths
<1>2. scanDirectory(metas)[p] = processScript(metas[p], source[p])
  BY <1>1 DEF scanDirectory
<1>3. processScript(metas[p], source[p]) \in [modified_on : Nat, cached_on : Nat]
  <2>1. CASE metas[p] = NoMeta
    BY <1>1, <2>1 DEF processScript
  <2>2. CASE metas[p] # NoMeta
    <3>1. metas[p] \in [modified_on : Nat, cached_on : Nat]
      BY <1>1, <2>2 DEF Metas
    <3> QED BY <1>1, <2>2, <3>1 DEF processScript
  <2> QED BY <2>1, <2>2
<1>4. \A meta \in [modified_on : Nat, cached_on : Nat] : meta # NoMeta
  BY DEF NoMeta
<1> QED BY <1>2, <1>3, <1>4

LEMMA BuildStepQuiet ==
  ASSUME IInv, QuietOK, BuildStep
  PROVE  QuietOK'
<1>0. /\ up /\ stack # <<>> /\ Top \in Frames /\ Top.path \in Paths /\ FrameOK(imports, source, Top)
      /\ imports \in ImportGraphs /\ m_scripts \in [Paths -> Metas] /\ m_sources \in [Scripts -> Nat]
      /\ \A p \in Paths : p \in Scripts <=> p \notin Templates
  BY TopFacts, GraphFacts DEF BuildStep, IInv, TypeOK
<1>1. CASE up' = FALSE
  BY <1>1 DEF QuietOK
<1>2. CASE \/ AskDependency \/ TakeDependency \/ CompareVersions \/ AskImport \/ TakeImport
           \/ CompileError \/ TakeSpecialization
           \/ (LoadModule \/ Link \/ PostCompile) /\ up' # FALSE
  <2>1. UNCHANGED <<quiet, source, m_scripts, m_sources>>
    BY <1>2 DEF AskDependency, TakeDependency, CompareVersions, AskImport, TakeImport, TakeImportOf,
                CompileError, TakeSpecialization, PostCompile, LoadModule, Link, Fault, disk
  <2> QED BY <1>0, <2>1, StayQuiet
<1>3. CASE (BuildFromCached \/ BuildFromSource) /\ up' # FALSE
  <2>1. UNCHANGED <<quiet, source, m_scripts>> /\ m_sources' = getSource(Top.path)
    BY <1>3 DEF BuildFromCached, BuildFromSource, Fault, disk
  <2>2. \A p \in Scripts : m_sources'[p] = m_sources[p] \/ m_sources'[p] = source[p].mtime
    BY <1>0, <2>1 DEF getSource
  <2> QED BY <1>0, <2>1, <2>2, StayQuiet
<1>4. CASE LinkFails /\ up' # FALSE
  <2>1. /\ Top.caller # "load" /\ m_scripts' = [m_scripts EXCEPT ![Top.path] = NoMeta]
        /\ UNCHANGED <<quiet, source, m_sources>>
    BY <1>4 DEF LinkFails
  <2>2. \A p \in Scripts : m_scripts'[p] = m_scripts[p]
    BY <1>0, <2>1 DEF FrameOK, Paths
  <2> QED BY <1>0, <2>1, <2>2, StayQuiet
<1>5. CASE Specialize
  <2>1. UNCHANGED <<quiet, source, m_sources>>
    BY <1>5 DEF Specialize, disk
  <2>2. PICK t \in Templates :
          \/ m_scripts' = m_scripts
          \/ m_scripts' = [m_scripts EXCEPT ![t] = [modified_on |-> 0, cached_on |-> 0]]
    BY <1>5 DEF Specialize, Wanted
  <2>3. \A p \in Scripts : m_scripts'[p] = m_scripts[p]
    BY <1>0, <2>2 DEF Paths
  <2> QED BY <1>0, <2>1, <2>3, StayQuiet
<1>6. CASE Remake
  <2>1. /\ UNCHANGED <<quiet, source, m_sources>> /\ Top.pc = "remake"
        /\ m_scripts' = [m_scripts EXCEPT ![Top.path] =
             [modified_on |-> clock', cached_on |-> IF @ = NoMeta THEN 0 ELSE @.cached_on]]
    BY <1>6 DEF Remake, disk
  <2>2. \A p \in Scripts : m_scripts'[p] = m_scripts[p]
    BY <1>0, <2>1 DEF FrameOK, Paths
  <2> QED BY <1>0, <2>1, <2>2, StayQuiet
<1>7. CASE OnScriptCompiled
  <2>1. UNCHANGED <<quiet, source, m_sources>>
    BY <1>7 DEF OnScriptCompiled
  <2>2. \/ m_scripts' = m_scripts
        \/ m_scripts' = [m_scripts EXCEPT ![Top.path] = [@ EXCEPT !.cached_on = clock']]
    BY <1>7 DEF OnScriptCompiled, saved
  <2>3. ASSUME m_scripts[Top.path] # NoMeta
        PROVE  [m_scripts[Top.path] EXCEPT !.cached_on = clock'] # NoMeta
    <3>1. m_scripts[Top.path] \in [modified_on : Nat, cached_on : Nat]
      BY <1>0, <2>3 DEF Metas
    <3> QED BY <3>1 DEF NoMeta
  <2>4. \A p \in Scripts : m_scripts[p] # NoMeta => m_scripts'[p] # NoMeta
    BY <1>0, <2>2, <2>3 DEF Paths
  <2> QED BY <1>0, <2>1, <2>4, StayQuiet
<1>8. \/ AskDependency \/ TakeDependency \/ CompareVersions \/ AskImport \/ TakeImport
      \/ CompileError \/ TakeSpecialization \/ PostCompile \/ LoadModule \/ Link \/ BuildFromCached \/ BuildFromSource
      \/ LinkFails \/ Specialize \/ Remake \/ OnScriptCompiled
  BY DEF BuildStep
<1> QED BY <1>1, <1>2, <1>3, <1>4, <1>5, <1>6, <1>7, <1>8

LEMMA NextQuiet ==
  ASSUME IInv, QuietOK, [Next]_vars
  PROVE  QuietOK'
<1>1. CASE UNCHANGED vars \/ HostInit \/ \E p \in Scripts : HostLoad(p)
  <2>1. UNCHANGED <<up, quiet, source, m_scripts, m_sources>>
    BY <1>1 DEF vars, memory, disk, HostInit, HostLoad
  <2> QED BY <2>1 DEF QuietOK
<1>2. CASE RestoreTwiceDeleted \/ Shutdown \/ Kill
  BY <1>2 DEF RestoreTwiceDeleted, Fault, Shutdown, Kill, QuietOK
<1>3. CASE \E p \in Scripts : Edit(p)
  <2>1. up' = up /\ quiet' = (quiet /\ ~up)
    BY <1>3 DEF Edit
  <2>2. ~(up' /\ quiet')
    BY <2>1, Zenon
  <2> QED BY <2>2 DEF QuietOK
<1>4. CASE Start
  <2>1. /\ m_scripts' = scanDirectory(restored) /\ source' = source
        /\ m_sources' = [p \in Scripts |-> 0]
    BY <1>4 DEF Start, disk, IInv, TypeOK
  <2>2. restored \in [Paths -> Metas]
    BY DEF restored, IInv, TypeOK, NoState, TornState, Metas
  <2> QED BY <2>1, <2>2, scanFinds DEF QuietOK
<1>5. CASE service
  <2>1. /\ up /\ m_scripts' = scanDirectory(m_scripts) /\ UNCHANGED <<quiet, source, m_sources>>
    BY <1>5 DEF service, disk
  <2>2. m_scripts \in [Paths -> Metas]
    BY DEF IInv, TypeOK
  <2> QED BY <2>1, <2>2, scanFinds DEF QuietOK
<1>6. CASE BuildStep
  BY <1>6, BuildStepQuiet
<1> QED BY <1>1, <1>2, <1>3, <1>4, <1>5, <1>6 DEF Next

-----------------------------------------------------------------------------
(* Causes of faults: builds without errors                                 *)

LEMMA SoundTop ==
  ASSUME IInv, stack # <<>>, NoErrors
  PROVE  Top \in Frames /\ ~Top.illTyped /\ Top \in SoundFrames
<1>1. Top \in Frames /\ Len(stack) \in 1 .. Len(stack)
  BY TopFacts
<1>2. ~Top.illTyped
  BY <1>1 DEF NoErrors, StackSound, Top
<1> QED BY <1>1, <1>2 DEF SoundFrames

LEMMA SoundSteps ==
  ASSUME IInv, StackSound(stack, m_moduleIndices, module), StackSteps(SoundFrames)
  PROVE  \A n \in 1 .. Len(stack') : ~stack'[n].illTyped
<1>1. stack \in Seq(Frames) /\ SoundFrames \in SUBSET Frames
  BY DEF IInv, TypeOK, SoundFrames
<1>2. \A n \in 1 .. Len(stack) : stack[n] \in SoundFrames
  BY <1>1, FrameTypes DEF StackSound, SoundFrames
<1>3. \A n \in 1 .. Len(stack') : stack'[n] \in SoundFrames
  BY <1>1, <1>2, StepsIn
<1> QED BY <1>3 DEF SoundFrames

(* Nothing is lost that is under way and not built.                        *)
LEMMA UnderWayMoves ==
  ASSUME IInv, StackSound(stack, m_moduleIndices, module),
         \A p \in Paths : m_moduleIndices'[p] # 0 =>
           m_moduleIndices[p] # 0 /\ (module[p].built => module'[p].built),
         \/ stack' = stack
         \/ \E f \in SoundFrames : stack' = Append(stack, f)
         \/ /\ stack # <<>> /\ Top.pc \notin {"imports", "read"}
            /\ stack' = Front(stack) \/ \E f \in SoundFrames : stack' = WithTop(f)
         \/ stack # <<>> /\ \E f \in SoundFrames : stack' = WithTop(f) /\ f.path = Top.path /\ f.pc = Top.pc
  PROVE  StackSound(stack', m_moduleIndices', module')
<1>0. stack \in Seq(Frames) /\ \A f \in SoundFrames : f \in Frames
  BY DEF IInv, TypeOK, SoundFrames
<1>6. \A n \in 1 .. Len(stack') : ~stack'[n].illTyped
  <2>1. StackSteps(SoundFrames)
    BY DEF StackSteps
  <2> QED BY <2>1, SoundSteps
<1> SUFFICES ASSUME NEW p \in Paths, m_moduleIndices'[p] # 0, ~module'[p].built
             PROVE  UnderWay(stack', p)
  BY <1>6 DEF StackSound
<1>1. PICK n \in 1 .. Len(stack) : stack[n].path = p /\ stack[n].pc \in {"imports", "read"}
  BY DEF StackSound, UnderWay
<1>2. CASE stack' = stack
  BY <1>1, <1>2 DEF UnderWay
<1>3. ASSUME NEW f \in SoundFrames, stack' = Append(stack, f) PROVE UnderWay(stack', p)
  <2>1. /\ Len(stack') = Len(stack) + 1 /\ Len(stack) \in Nat
        /\ \A k \in 1 .. Len(stack) : stack'[k] = stack[k]
    BY <1>0, <1>3, PushTop
  <2>2. n \in 1 .. Len(stack')
    BY <2>1
  <2> QED BY <1>1, <2>1, <2>2 DEF UnderWay
<1>4. CASE stack # <<>> /\ Top.pc \notin {"imports", "read"} /\ stack' = Front(stack)
  <2>1. /\ Len(stack') = Len(stack) - 1 /\ Len(stack) \in Nat
        /\ \A k \in 1 .. Len(stack) - 1 : stack'[k] = stack[k]
    BY <1>0, <1>4, PopTop
  <2>2. n # Len(stack)
    BY <1>1, <1>4 DEF Top
  <2>3. n \in 1 .. Len(stack') /\ n \in 1 .. Len(stack) - 1
    BY <2>1, <2>2
  <2> QED BY <1>1, <2>1, <2>3 DEF UnderWay
<1>5. ASSUME stack # <<>>, NEW f \in SoundFrames, stack' = WithTop(f),
             Top.pc \notin {"imports", "read"} \/ (f.path = Top.path /\ f.pc = Top.pc)
      PROVE  UnderWay(stack', p)
  <2> DEFINE t == [stack EXCEPT ![Len(stack)] = f]
  <2>1. /\ Len(t) = Len(stack) /\ t[Len(stack)] = f /\ Len(stack) \in Nat
        /\ \A k \in 1 .. Len(stack) - 1 : t[k] = stack[k]
    BY <1>0, <1>5, ReplaceTop
  <2>2. stack' = t
    BY <1>5 DEF WithTop
  <2> HIDE DEF t
  <2>3. CASE n = Len(stack)
    BY <1>1, <1>5, <2>1, <2>2, <2>3 DEF UnderWay, Top
  <2>4. CASE n # Len(stack)
    <3>1. n \in 1 .. Len(stack) - 1
      BY <2>1, <2>4
    <3> QED BY <1>1, <2>1, <2>2, <3>1 DEF UnderWay
  <2> QED BY <2>3, <2>4
<1> QED BY <1>2, <1>3, <1>4, <1>5

(* The module of the frame on top is made, built or destroyed.             *)
LEMMA UnderWayTop ==
  ASSUME IInv, stack # <<>>, StackSound(stack, m_moduleIndices, module),
         \A p \in Paths : p # Top.path => m_moduleIndices'[p] = m_moduleIndices[p] /\ module'[p] = module[p],
         stack' = Front(stack) \/ \E f \in SoundFrames : stack' = WithTop(f),
         \/ m_moduleIndices'[Top.path] = 0
         \/ module'[Top.path].built
         \/ \E f \in SoundFrames : stack' = WithTop(f) /\ f.path = Top.path /\ f.pc \in {"imports", "read"}
  PROVE  StackSound(stack', m_moduleIndices', module')
<1>0. /\ stack \in Seq(Frames) /\ Len(stack) \in Nat /\ Len(stack) > 0
      /\ \A f \in SoundFrames : f \in Frames
  BY TopFacts DEF SoundFrames
<1>4. \A n \in 1 .. Len(stack') : ~stack'[n].illTyped
  <2>1. StackSteps(SoundFrames)
    BY DEF StackSteps
  <2> QED BY <2>1, SoundSteps
<1>1. /\ Len(stack') \in {Len(stack) - 1, Len(stack)}
      /\ \A k \in 1 .. Len(stack) - 1 : stack'[k] = stack[k]
      /\ \A f \in SoundFrames : stack' = WithTop(f) => Len(stack') = Len(stack) /\ stack'[Len(stack)] = f
  <2>1. CASE stack' = Front(stack)
    <3>1. /\ Len(stack') = Len(stack) - 1
          /\ \A k \in 1 .. Len(stack) - 1 : stack'[k] = stack[k]
      BY <1>0, <2>1, PopTop
    <3>2. ASSUME NEW f \in SoundFrames PROVE stack' # WithTop(f)
      <4> DEFINE t == [stack EXCEPT ![Len(stack)] = f]
      <4>1. Len(t) = Len(stack)
        BY <1>0, ReplaceTop
      <4>2. WithTop(f) = t
        BY DEF WithTop
      <4> HIDE DEF t
      <4> QED BY <1>0, <3>1, <4>1, <4>2
    <3> QED BY <3>1, <3>2
  <2>2. ASSUME NEW f \in SoundFrames, stack' = WithTop(f)
        PROVE  /\ Len(stack') = Len(stack) /\ stack'[Len(stack)] = f
               /\ \A k \in 1 .. Len(stack) - 1 : stack'[k] = stack[k]
    <3> DEFINE t == [stack EXCEPT ![Len(stack)] = f]
    <3>1. /\ Len(t) = Len(stack) /\ t[Len(stack)] = f
          /\ \A k \in 1 .. Len(stack) - 1 : t[k] = stack[k]
      BY <1>0, ReplaceTop
    <3>2. stack' = t
      BY <2>2 DEF WithTop
    <3> HIDE DEF t
    <3> QED BY <3>1, <3>2
  <2> QED BY <2>1, <2>2
<1> SUFFICES ASSUME NEW p \in Paths, m_moduleIndices'[p] # 0, ~module'[p].built
             PROVE  UnderWay(stack', p)
  BY <1>4 DEF StackSound
<1>2. CASE p = Top.path
  <2>1. PICK f \in SoundFrames : stack' = WithTop(f) /\ f.path = Top.path /\ f.pc \in {"imports", "read"}
    BY <1>2
  <2>2. Len(stack') = Len(stack) /\ stack'[Len(stack)] = f /\ Len(stack) \in 1 .. Len(stack)
    BY <1>0, <1>1, <2>1
  <2> QED BY <1>2, <2>1, <2>2 DEF UnderWay
<1>3. CASE p # Top.path
  <2>1. PICK n \in 1 .. Len(stack) : stack[n].path = p /\ stack[n].pc \in {"imports", "read"}
    BY <1>3 DEF StackSound, UnderWay
  <2>2. n # Len(stack)
    BY <1>3, <2>1 DEF Top
  <2>3. n \in 1 .. Len(stack) - 1 /\ n \in 1 .. Len(stack')
    BY <1>0, <1>1, <2>2
  <2> QED BY <1>1, <2>1, <2>3 DEF UnderWay
<1> QED BY <1>2, <1>3

(* Only a build that waits for a dependency hears that one has failed.     *)
LEMMA MissedAnswer ==
  ASSUME IInv, stack # <<>>, Missed, imports' = imports, source' = source, KeepsOthers(Top.path)
  PROVE  stack' # <<>> /\ Top'.pc = "imports" => returned' # Failed
<1>0. Top \in Frames /\ Failed # Nothing
  BY TopFacts DEF Failed, Nothing
<1>1. CASE Top.caller = "dependency"
  <2>1. stack' = Front(stack)
    BY <1>1 DEF Missed, Return
  <2>2. stack' # <<>> => AskedBy(imports, Top', Top)
    BY <2>1, PopStack
  <2>3. stack' # <<>> => Top'.pc = "deps"
    BY <1>1, <2>2 DEF AskedBy, AsksDep
  <2> QED BY <2>3
<1>2. CASE Top.caller # "dependency"
  <2>1. returned' = Nothing
    BY <1>0, <1>2 DEF Missed, Frames
  <2> QED BY <1>0, <2>1
<1> QED BY <1>1, <1>2

Undisturbed == quiet /\ ~HasCycle(imports) /\ AllSound(source)

LEMMA MissedStack ==
  ASSUME IInv, stack # <<>>, NoErrors, Missed
  PROVE  stack' = Front(stack) \/ \E f \in SoundFrames : stack' = WithTop(f)
<1>0. Top \in Frames /\ Top.path \in Paths /\ ~Top.illTyped
  BY TopFacts, SoundTop
<1>1. CASE Top.caller = "load"
  <2>1. Frame(Top.path, "source", "load") \in SoundFrames
    BY <1>0 DEF Frame, Frames, Times, SoundFrames
  <2> QED BY <1>1, <2>1 DEF Missed
<1>2. CASE Top.caller = "dependency"
  BY <1>2 DEF Missed, Return
<1>3. CASE Top.caller = "specialize"
  <2>1. [Top EXCEPT !.pc = "remake"] \in SoundFrames
    BY <1>0 DEF Frames, SoundFrames
  <2> QED BY <1>3, <2>1 DEF Missed
<1> QED BY <1>0, <1>1, <1>2, <1>3 DEF Frames

(* A build that does not wait has no answer, and a step that leaves it at  *)
(* that gives none.                                                        *)
LEMMA NoAnswer ==
  ASSUME IInv, stack # <<>>, Top.pc \notin {"deps", "imports"}
  PROVE  returned = Nothing /\ Nothing # Failed
  BY DEF IInv, AnswerOK, Nothing, Failed

LEMMA LoadModuleSound ==
  ASSUME IInv, stack # <<>>, NoErrors, LoadModule
  PROVE  up' => NoErrors'
<1> SUFFICES ASSUME up' PROVE NoErrors'
  OBVIOUS
<1> DEFINE pc == IF cacheNewer(Top.path) THEN "cached" ELSE "source"
           f == [Top EXCEPT !.pc = pc]
<1>1. /\ Top.pc = "load" /\ stack' = WithTop(f)
      /\ UNCHANGED <<m_moduleIndices, module, errors, returned>>
  BY DEF LoadModule, Fault
<1>2. pc \in {"cached", "source"}
  OBVIOUS
<1> HIDE DEF pc
<1>3. f \in SoundFrames
  BY <1>2, SoundTop DEF Frames, SoundFrames
<1> HIDE DEF f
<1>4. StackSound(stack', m_moduleIndices', module')
  BY <1>1, <1>3, UnderWayMoves DEF NoErrors
<1> QED BY <1>1, <1>4, NoAnswer DEF NoErrors

LEMMA BuildFromCachedSound ==
  ASSUME IInv, stack # <<>>, NoErrors, BuildFromCached, imports' = imports
  PROVE  up' => NoErrors'
<1> SUFFICES ASSUME up' PROVE NoErrors'
  OBVIOUS
<1> DEFINE f == [Top EXCEPT !.pc = "deps", !.entry = cache[Top.path]]
<1>1. /\ Top.pc = "cached" /\ Opened(FALSE)
      /\ UNCHANGED <<m_moduleIndices, module, source>>
      /\ Missed \/ (stack' = WithTop(f) /\ UNCHANGED returned)
  BY DEF BuildFromCached, Fault, disk
<1>2. f \in SoundFrames
  <2>1. cache[Top.path] \in CacheFiles
    BY <1>1, TopFacts DEF IInv, TypeOK, TopOK
  <2>2. Top \in Frames /\ ~Top.illTyped
    BY SoundTop
  <2> QED BY <2>1, <2>2 DEF Frames, SoundFrames
<1> HIDE DEF f
<1>3. stack' = Front(stack) \/ \E h \in SoundFrames : stack' = WithTop(h)
  BY <1>1, <1>2, MissedStack
<1>4. StackSound(stack', m_moduleIndices', module')
  BY <1>1, <1>3, UnderWayMoves DEF NoErrors
<1>5. ~errors'
  <2>1. errors' = (FALSE \/ (errors /\ ~IsRoot)) /\ ~errors
    BY <1>1 DEF Opened, NoErrors
  <2> QED BY <2>1, Zenon
<1>6. stack' # <<>> /\ Top'.pc = "imports" => returned' # Failed
  BY <1>1, NoAnswer, MissedAnswer DEF KeepsOthers
<1> QED BY <1>4, <1>5, <1>6 DEF NoErrors

LEMMA getModuleStack ==
  ASSUME IInv, NEW p \in Paths, getModule(p, stack)
  PROVE  stack' = stack \/ \E f \in SoundFrames : stack' = Append(stack, f)
<1>1. Frame(p, "load", "load") \in SoundFrames
  BY DEF Frame, Frames, Times, SoundFrames
<1>2. Frame(p, "cached", "dependency") \in SoundFrames
  BY DEF Frame, Frames, Times, SoundFrames
<1> QED BY <1>1, <1>2 DEF getModule

LEMMA AskDependencySound ==
  ASSUME IInv, stack # <<>>, NoErrors, AskDependency
  PROVE  NoErrors'
<1> DEFINE p == Top.entry.deps[Top.i].path
<1>1. /\ getModule(p, stack) /\ UNCHANGED <<m_moduleIndices, module, errors>>
      /\ Top.pc = "deps" /\ AsksDep(Top, p)
  BY DEF AskDependency, MoreDependencies, AsksDep
<1> HIDE DEF p
<1>2. p \in Paths
  <2>1. p \in Uses(imports, Top.path)
    BY <1>1, TopFacts, AsksUses DEF Asks
  <2> QED BY <2>1, TopFacts, GraphFacts
<1>3. stack' = stack \/ \E f \in SoundFrames : stack' = Append(stack, f)
  BY <1>1, <1>2, getModuleStack
<1>4. StackSound(stack', m_moduleIndices', module')
  BY <1>1, <1>3, UnderWayMoves DEF NoErrors
<1>5. stack' # <<>> /\ Top'.pc = "imports" => returned' # Failed
  <2>1. CASE stack' = stack
    BY <1>1, <2>1 DEF Top
  <2>2. CASE stack' # stack
    BY <1>1, <2>2 DEF getModule, Nothing, Failed
  <2> QED BY <2>1, <2>2
<1> QED BY <1>1, <1>4, <1>5 DEF NoErrors

LEMMA TakeDependencySound ==
  ASSUME IInv, stack # <<>>, NoErrors, TakeDependency, imports' = imports
  PROVE  NoErrors'
<1>0. /\ Top \in Frames /\ Top.pc = "deps" /\ returned \in {Failed} \cup Paths /\ ~Top.illTyped
      /\ UNCHANGED <<m_moduleIndices, module, errors, source>>
  BY SoundTop DEF TakeDependency, IInv, TypeOK, disk
<1>1. stack' = Front(stack) \/ \E f \in SoundFrames : stack' = WithTop(f)
  <2>1. CASE returned = Failed
    BY <2>1, MissedStack DEF TakeDependency
  <2>2. CASE returned # Failed
    <3>1. Top.i + 1 \in Times /\ Append(Top.deps, returned) \in Seq(Paths)
      BY <1>0, <2>2, AppendProperties DEF Frames, Times
    <3>2. [Top EXCEPT !.i = @ + 1, !.deps = Append(@, returned)] \in SoundFrames
      BY <1>0, <3>1 DEF Frames, SoundFrames
    <3> QED BY <2>2, <3>2 DEF TakeDependency
  <2> QED BY <2>1, <2>2
<1>2. StackSound(stack', m_moduleIndices', module')
  BY <1>0, <1>1, UnderWayMoves DEF NoErrors
<1>3. stack' # <<>> /\ Top'.pc = "imports" => returned' # Failed
  <2>1. CASE Missed
    BY <1>0, <2>1, MissedAnswer DEF KeepsOthers
  <2>2. CASE returned' = Nothing
    BY <2>2 DEF Nothing, Failed
  <2> QED BY <2>1, <2>2 DEF TakeDependency
<1> QED BY <1>0, <1>2, <1>3 DEF NoErrors

(* The module of the frame on top is made.                                 *)
LEMMA CreateUnderWay ==
  ASSUME IInv, stack # <<>>, StackSound(stack, m_moduleIndices, module),
         NEW own, NEW from, createModule(Top.path, own, from),
         NEW f \in SoundFrames, stack' = WithTop(f), f.path = Top.path, f.pc \in {"imports", "read"}
  PROVE  StackSound(stack', m_moduleIndices', module')
<1>1. \A p \in Paths : p # Top.path => m_moduleIndices'[p] = m_moduleIndices[p] /\ module'[p] = module[p]
  BY DEF createModule, IInv, TypeOK
<1> QED BY <1>1, UnderWayTop

LEMMA CompareVersionsSound ==
  ASSUME IInv, stack # <<>>, NoErrors, CompareVersions, imports' = imports
  PROVE  NoErrors'
<1>0. /\ Top \in Frames /\ FrameOK(imports, source, Top) /\ Top.pc = "deps" /\ returned = Nothing
      /\ ~Top.illTyped /\ UNCHANGED <<errors, source>>
  BY TopFacts, SoundTop DEF CompareVersions, disk
<1>1. CASE Missed /\ UNCHANGED <<m_modules, m_moduleIndices, module>>
  <2>1. StackSound(stack', m_moduleIndices', module')
    BY <1>0, <1>1, MissedStack, UnderWayMoves DEF NoErrors
  <2>2. stack' # <<>> /\ Top'.pc = "imports" => returned' # Failed
    BY <1>0, <1>1, MissedAnswer DEF KeepsOthers
  <2> QED BY <1>0, <2>1, <2>2 DEF NoErrors
<1>2. CASE /\ createModule(Top.path, IF Top.entry.torn THEN 0 ELSE Top.entry.own, "cache")
           /\ stack' = WithTop([Top EXCEPT !.pc = "read", !.m_mod = TRUE])
           /\ UNCHANGED returned
  <2> DEFINE own == IF Top.entry.torn THEN 0 ELSE Top.entry.own
             f == [Top EXCEPT !.pc = "read", !.m_mod = TRUE]
  <2>2. createModule(Top.path, own, "cache") /\ stack' = WithTop(f)
    BY <1>2
  <2> HIDE DEF own
  <2>3. f \in SoundFrames /\ f.path = Top.path /\ f.pc = "read"
    BY <1>0 DEF Frames, SoundFrames
  <2> HIDE DEF f
  <2>4. StackSound(stack', m_moduleIndices', module')
    BY <2>2, <2>3, CreateUnderWay DEF NoErrors
  <2> QED BY <1>0, <1>2, <2>4 DEF NoErrors, Nothing, Failed
<1> QED BY <1>1, <1>2 DEF CompareVersions

LEMMA LinkSound ==
  ASSUME IInv, stack # <<>>, NoErrors, Link
  PROVE  up' => NoErrors'
<1> SUFFICES ASSUME up' PROVE NoErrors'
  OBVIOUS
<1>0. Top.path \in Paths /\ module[Top.path] \in Modules
  BY TopFacts, RegisteredModules DEF Link, Registered
<1> DEFINE r == [module[Top.path] EXCEPT !.built = TRUE, !.generated = ~errors,
                       !.deps = ToSet(Top.deps), !.made = Top.entry.made,
                       !.against = {[path |-> d.path, made |-> d.made] : d \in ToSet(Top.entry.deps)},
                       !.trusted = Top.entry.quiet /\ quiet /\ AllTrusted(Top.deps)]
<1>1. /\ module' = [module EXCEPT ![Top.path] = r]
      /\ stack' = Front(stack) /\ returned' = Top.path
      /\ UNCHANGED <<m_moduleIndices, errors>>
  BY DEF Link, Return, Fault
<1>2. r.built = TRUE
  BY <1>0 DEF Modules
<1> HIDE DEF r
<1>3. /\ \A p \in Paths : p # Top.path => module'[p] = module[p]
      /\ module'[Top.path] = r
  BY <1>0, <1>1 DEF IInv, TypeOK
<1>4. StackSound(stack', m_moduleIndices', module')
  BY <1>1, <1>2, <1>3, UnderWayTop DEF NoErrors
<1> QED BY <1>0, <1>1, <1>4, AnswersAssumption DEF NoErrors

LEMMA LinkFailsSound ==
  ASSUME IInv, stack # <<>>, NoErrors, LinkFails, imports' = imports
  PROVE  up' => NoErrors'
<1> SUFFICES ASSUME up' PROVE NoErrors'
  OBVIOUS
<1>0. /\ Top.path \in ModuleIds /\ m_moduleIndices[Top.path] = Len(m_modules)
      /\ TypeOK /\ IndexOK /\ source' = source
  BY RegisteredModules DEF LinkFails, Registered, IInv, TopOK
<1>1. destroyModule(Top.path) /\ Missed /\ UNCHANGED errors
  BY DEF LinkFails
<1> DEFINE p == Top.path
<1>2. p \in ModuleIds /\ m_moduleIndices[p] = Len(m_modules) /\ destroyModule(p)
  BY <1>0, <1>1
<1> HIDE DEF p
<1>3. /\ m_moduleIndices'[p] = 0 /\ KeepsOthers(p)
      /\ \A d \in Paths : d # p => m_moduleIndices'[d] = m_moduleIndices[d] /\ module'[d] = module[d]
  BY <1>0, <1>2, DestroyProps
<1>4. StackSound(stack', m_moduleIndices', module')
  BY <1>1, <1>3, MissedStack, UnderWayTop DEF NoErrors, p
<1>5. stack' # <<>> /\ Top'.pc = "imports" => returned' # Failed
  BY <1>0, <1>1, <1>3, MissedAnswer DEF p
<1> QED BY <1>1, <1>4, <1>5 DEF NoErrors

(* Without edits the contents that are compiled are those that are there.  *)
LEMMA BuildFromSourceSound ==
  ASSUME IInv, up, stack # <<>>, Undisturbed, QuietOK, NoErrors, BuildFromSource
  PROVE  up' => NoErrors'
<1> SUFFICES ASSUME up' PROVE NoErrors'
  OBVIOUS
<1>0. /\ Top \in Frames /\ FrameOK(imports, source, Top) /\ Top.pc = "source" /\ Top.path \in Scripts
      /\ returned = Nothing /\ Nothing # Failed
  BY TopFacts, NoAnswer DEF BuildFromSource, FrameOK
<1> DEFINE version == getSource(Top.path)[Top.path]
<1>1. PICK quality \in Quality(Top.path, version) :
        /\ Opened(quality = "unparsable")
        /\ ~errors' =>
             /\ createModule(Top.path, version, "source")
             /\ stack' = WithTop([Top EXCEPT !.pc = "imports", !.own = version,
                                    !.m_mod = (m_moduleIndices[Top.path] = 0),
                                    !.illTyped = (quality = "ill_typed")])
             /\ UNCHANGED returned
  BY DEF BuildFromSource, Fault
<1>2. version \in Nat
  BY <1>0, getSourceType DEF IInv
<1>3. version = source[Top.path].mtime /\ source[Top.path].quality = "sound"
  <2>1. /\ source[Top.path] # NoFile /\ source[Top.path].quality = "sound"
        /\ m_sources[Top.path] # 0 => m_sources[Top.path] = source[Top.path].mtime
    BY <1>0 DEF Undisturbed, AllSound, QuietOK
  <2>2. m_sources \in [Scripts -> Nat]
    BY DEF IInv, TypeOK
  <2> QED BY <1>0, <2>1, <2>2 DEF getSource
<1>4. quality = "sound"
  BY <1>1, <1>3 DEF Quality
<1>8. ~errors'
  <2>1. errors' = (quality = "unparsable" \/ (errors /\ ~IsRoot)) /\ ~errors
    BY <1>1 DEF Opened, NoErrors
  <2>2. quality # "unparsable"
    BY <1>4
  <2> QED BY <2>1, <2>2, Zenon
<1> HIDE DEF version
<1> DEFINE m_mod == m_moduleIndices[Top.path] = 0
           f == [Top EXCEPT !.pc = "imports", !.own = version, !.m_mod = m_mod,
                            !.illTyped = (quality = "ill_typed")]
<1>5. createModule(Top.path, version, "source") /\ stack' = WithTop(f) /\ returned' = returned
  BY <1>1, <1>8
<1>9. m_mod \in BOOLEAN
  OBVIOUS
<1> HIDE DEF m_mod
<1>6. f \in SoundFrames /\ f.path = Top.path /\ f.pc = "imports"
  BY <1>0, <1>2, <1>4, <1>9 DEF Frames, SoundFrames
<1> HIDE DEF f
<1>7. StackSound(stack', m_moduleIndices', module')
  BY <1>5, <1>6, CreateUnderWay DEF NoErrors
<1> QED BY <1>0, <1>5, <1>7, <1>8 DEF NoErrors

LEMMA AskImportSound ==
  ASSUME IInv, stack # <<>>, Undisturbed, NoErrors, AskImport
  PROVE  NoErrors'
<1> DEFINE p == imports[Top.path][Top.i]
<1>1. getModule(p, stack) /\ UNCHANGED <<m_moduleIndices, module, errors>> /\ p \in Scripts
  BY DEF AskImport, MoreImports
<1> HIDE DEF p
<1>2. p \in Paths /\ source[p] # NoFile
  BY <1>1 DEF Paths, Undisturbed, AllSound
<1>3. stack' = stack \/ \E f \in SoundFrames : stack' = Append(stack, f)
  BY <1>1, <1>2, getModuleStack
<1>4. StackSound(stack', m_moduleIndices', module')
  BY <1>1, <1>3, UnderWayMoves DEF NoErrors
<1>5. returned' # Failed
  <2>1. CASE m_moduleIndices[p] # 0
    <3>1. m_modules[m_moduleIndices[p]] = p
      BY <1>2, <2>1 DEF IInv, IndexOK, ModuleIds
    <3> QED BY <1>1, <1>2, <2>1, <3>1, AnswersAssumption DEF getModule
  <2>2. CASE m_moduleIndices[p] = 0
    <3>1. returned' = Nothing
      BY <1>1, <1>2, <2>2 DEF getModule
    <3> QED BY <3>1 DEF Nothing, Failed
  <2> QED BY <2>1, <2>2
<1> QED BY <1>1, <1>4, <1>5 DEF NoErrors

(* What is imported has been built, since it is not under way.             *)
LEMMA TakeImportSound ==
  ASSUME IInv, stack # <<>>, Undisturbed, NoErrors, TakeImport
  PROVE  NoErrors'
<1>0. /\ Top \in Frames /\ Top.pc = "imports" /\ returned \in Paths /\ returned # Failed
      /\ ~Top.illTyped
      /\ Top.deps \in Seq(Paths) /\ Top.i + 1 \in Times
      /\ m_moduleIndices' = m_moduleIndices /\ returned' = Nothing
  <2>1. /\ Top \in Frames /\ ~Top.illTyped /\ Top.pc = "imports" /\ returned \in {Failed} \cup Paths
        /\ m_moduleIndices' = m_moduleIndices /\ returned' = Nothing
    BY SoundTop DEF TakeImport, TakeImportOf, IInv, TypeOK
  <2>2. returned # Failed
    BY <2>1 DEF NoErrors
  <2> QED BY <2>1, <2>2 DEF Frames, Times
<1> DEFINE deps == addDependency(Top.deps, returned)
           f == [Top EXCEPT !.i = @ + 1, !.deps = deps]
<1>1. /\ stack' = WithTop(f)
      /\ module' = [module EXCEPT ![returned] = Initialised(@)]
      /\ errors' = errors \/ errors' = (errors \/ ~module[returned].built)
  BY <1>0 DEF TakeImport, TakeImportOf
<1>2. deps \in Seq(Paths)
  BY <1>0, AppendProperties DEF addDependency
<1> HIDE DEF deps
<1>3. f \in SoundFrames /\ f.path = Top.path /\ f.pc = Top.pc
  BY <1>0, <1>2 DEF Frames, SoundFrames
<1> HIDE DEF f
<1>4. m_moduleIndices[returned] # 0 /\ module[returned] \in Modules
  BY <1>0 DEF IInv, AnswerOK, TypeOK, ModuleIds
<1>5. module[returned].built
  <2>1. ~UnderWay(stack, returned)
    BY <1>0, AnswerIsNew DEF UnderWay, Undisturbed
  <2> QED BY <1>0, <1>4, <2>1 DEF NoErrors, StackSound
<1>6. \A p \in Paths : module[p].built => module'[p].built
  <2>1. Initialised(module[returned]).built = module[returned].built
    BY <1>4, InitialisedProps
  <2> QED BY <1>0, <1>1, <2>1 DEF IInv, TypeOK
<1>7. StackSound(stack', m_moduleIndices', module')
  BY <1>0, <1>1, <1>3, <1>6, UnderWayMoves DEF NoErrors
<1>8. ~errors'
  <2>1. ~errors
    BY DEF NoErrors
  <2> QED BY <1>1, <1>5, <2>1, Zenon
<1>9. returned' # Failed
  BY <1>0 DEF Nothing, Failed
<1> QED BY <1>7, <1>8, <1>9 DEF NoErrors

LEMMA SpecializeSound ==
  ASSUME IInv, stack # <<>>, NoErrors, Specialize
  PROVE  NoErrors'
<1>1. UNCHANGED <<m_moduleIndices, module, errors>> /\ returned = Nothing
  BY DEF Specialize
<1>2. PICK t \in Wanted :
         \/ stack' = stack /\ returned' = t
         \/ /\ stack' = Append(stack, Frame(t, IF cache[t] = NoFile THEN "remake" ELSE "cached",
                                              "specialize"))
            /\ returned' = returned
  BY DEF Specialize
<1>3. t \in Paths
  BY DEF Wanted, Paths
<1>4. stack' = stack \/ \E f \in SoundFrames : stack' = Append(stack, f)
  <2> DEFINE pc == IF cache[t] = NoFile THEN "remake" ELSE "cached"
  <2>1. pc \in {"remake", "cached"} /\ (stack' = stack \/ stack' = Append(stack, Frame(t, pc, "specialize")))
    BY <1>2
  <2> HIDE DEF pc
  <2>2. Frame(t, pc, "specialize") \in SoundFrames
    BY <1>3, <2>1 DEF Frame, Frames, Times, SoundFrames
  <2> QED BY <2>1, <2>2
<1>5. StackSound(stack', m_moduleIndices', module')
  BY <1>1, <1>4, UnderWayMoves DEF NoErrors
<1>6. returned' # Failed
  <2>1. Nothing # Failed
    BY DEF Nothing, Failed
  <2> QED BY <1>1, <1>2, <1>3, <2>1, AnswersAssumption
<1> QED BY <1>1, <1>5, <1>6 DEF NoErrors

LEMMA CompileErrorSound ==
  ASSUME IInv, stack # <<>>, NoErrors
  PROVE  ~CompileError
  BY SoundTop DEF CompileError

LEMMA TakeSpecializationSound ==
  ASSUME IInv, stack # <<>>, NoErrors, TakeSpecialization
  PROVE  NoErrors'
<1>0. /\ Top \in Frames /\ ~Top.illTyped /\ Top.pc = "imports" /\ ~MoreImports /\ returned # Nothing
      /\ stack' = WithTop([Top EXCEPT !.deps = Append(@, returned)]) /\ returned' = Nothing
      /\ UNCHANGED <<m_moduleIndices, module, errors>>
  BY SoundTop DEF TakeSpecialization
<1>1. returned \in Paths
  BY <1>0 DEF NoErrors, IInv, TypeOK
<1> DEFINE f == [Top EXCEPT !.deps = Append(@, returned)]
<1>2. Append(Top.deps, returned) \in Seq(Paths)
  BY <1>0, <1>1, AppendProperties DEF Frames
<1>3. f \in SoundFrames /\ f.path = Top.path /\ f.pc = Top.pc /\ stack' = WithTop(f)
  BY <1>0, <1>2 DEF Frames, SoundFrames
<1> HIDE DEF f
<1>4. StackSound(stack', m_moduleIndices', module')
  BY <1>0, <1>3, UnderWayMoves DEF NoErrors
<1> QED BY <1>0, <1>4 DEF NoErrors, Nothing, Failed

LEMMA RemakeSound ==
  ASSUME IInv, stack # <<>>, NoErrors, Remake
  PROVE  NoErrors'
<1>0. /\ Top \in Frames /\ ~Top.illTyped /\ Top.caller = "specialize" /\ Top.path \in Paths
      /\ returned = Nothing /\ Nothing # Failed /\ UNCHANGED <<errors, returned>>
      /\ Origin[Top.path] \in ModuleIds /\ Origin[Top.path] \in Paths
  <2>1. /\ Top \in Frames /\ ~Top.illTyped /\ Top.caller = "specialize" /\ Top.path \in Paths
        /\ returned = Nothing /\ Nothing # Failed /\ UNCHANGED <<errors, returned>>
    BY TopFacts, SoundTop, NoAnswer DEF Remake, FrameOK
  <2> QED BY <2>1, OriginIsThere DEF ModuleIds
<1> DEFINE own == module[Origin[Top.path]].own
           m_mod == m_moduleIndices[Top.path] = 0
           f == [Top EXCEPT !.pc = "imports", !.deps = <<Origin[Top.path]>>, !.own = own, !.m_mod = m_mod]
<1>1. createModule(Top.path, own, "source") /\ stack' = WithTop(f)
  BY DEF Remake
<1>2. own \in Nat
  BY <1>0 DEF IInv, TypeOK, Modules
<1>5. m_mod \in BOOLEAN
  OBVIOUS
<1> HIDE DEF own, m_mod
<1>3. f \in SoundFrames /\ f.path = Top.path /\ f.pc = "imports"
  <2>1. <<Origin[Top.path]>> \in Seq(Paths)
    BY <1>0
  <2> QED BY <1>0, <1>2, <1>5, <2>1 DEF Frames, SoundFrames
<1> HIDE DEF f
<1>4. StackSound(stack', m_moduleIndices', module')
  BY <1>1, <1>3, CreateUnderWay DEF NoErrors
<1> QED BY <1>0, <1>4 DEF NoErrors

LEMMA PostCompileSound ==
  ASSUME IInv, stack # <<>>, NoErrors, PostCompile
  PROVE  up' => NoErrors'
<1> SUFFICES ASSUME up' PROVE NoErrors'
  OBVIOUS
<1>0. /\ Top \in Frames /\ ~Top.illTyped /\ Top.m_mod /\ Top.path \in Paths /\ Top.pc = "imports" /\ module[Top.path] \in Modules
      /\ UNCHANGED <<m_moduleIndices, errors>> /\ returned = Nothing
  BY TopFacts, SoundTop, RegisteredModules DEF PostCompile, Registered, Fault
<1> DEFINE r == [module[Top.path] EXCEPT !.built = TRUE, !.generated = TRUE,
                     !.deps = ToSet(Top.deps), !.made = madeOf(Top),
                     !.against = {[path |-> d, made |-> module[d].made] : d \in ToSet(Top.deps)},
                     !.trusted = AllTrusted(Top.deps)]
           f == [Top EXCEPT !.pc = "save"]
<1>1. module' = [module EXCEPT ![Top.path] = r] /\ stack' = WithTop(f) /\ returned' = returned
  BY <1>0 DEF PostCompile, NoErrors
<1>2. r.built = TRUE
  BY <1>0 DEF Modules
<1> HIDE DEF r
<1>3. f \in SoundFrames
  BY <1>0 DEF Frames, SoundFrames
<1> HIDE DEF f
<1>4. /\ \A p \in Paths : p # Top.path => module'[p] = module[p]
      /\ module'[Top.path] = r
  BY <1>0, <1>1 DEF IInv, TypeOK
<1>5. StackSound(stack', m_moduleIndices', module')
  BY <1>0, <1>1, <1>2, <1>3, <1>4, UnderWayTop DEF NoErrors
<1> QED BY <1>0, <1>1, <1>5 DEF NoErrors, Nothing, Failed

LEMMA OnScriptCompiledSound ==
  ASSUME IInv, stack # <<>>, NoErrors, OnScriptCompiled
  PROVE  NoErrors'
<1>1. /\ Top.pc = "save" /\ stack' = Front(stack) /\ returned' = Top.path /\ Top.path \in Paths
      /\ UNCHANGED <<m_moduleIndices, module, errors>>
  BY TopFacts DEF OnScriptCompiled, Return
<1>2. StackSound(stack', m_moduleIndices', module')
  BY <1>1, UnderWayMoves DEF NoErrors
<1> QED BY <1>1, <1>2, AnswersAssumption DEF NoErrors

LEMMA BuildStepSound ==
  ASSUME IInv, Undisturbed, QuietOK, NoErrors, BuildStep
  PROVE  up' => NoErrors'
<1>1. up /\ stack # <<>> /\ imports' = imports
  BY DEF BuildStep
<1>2. CASE LoadModule \/ BuildFromCached \/ AskDependency \/ TakeDependency \/ CompareVersions
  BY <1>1, <1>2, LoadModuleSound, BuildFromCachedSound, AskDependencySound, TakeDependencySound,
     CompareVersionsSound
<1>3. CASE Link \/ LinkFails \/ BuildFromSource \/ AskImport \/ TakeImport
  BY <1>1, <1>3, LinkSound, LinkFailsSound, BuildFromSourceSound, AskImportSound, TakeImportSound
<1>4. CASE CompileError \/ Specialize \/ TakeSpecialization \/ Remake \/ PostCompile \/ OnScriptCompiled
  BY <1>1, <1>4, CompileErrorSound, SpecializeSound, TakeSpecializationSound, RemakeSound, PostCompileSound,
     OnScriptCompiledSound
<1> QED BY <1>2, <1>3, <1>4 DEF BuildStep

LEMMA HostLoadSound ==
  ASSUME IInv, NoErrors, NEW p \in Scripts, HostLoad(p)
  PROVE  NoErrors'
<1>1. /\ getModule(p, stack) /\ p \in Paths /\ stack = <<>>
      /\ UNCHANGED <<m_moduleIndices, module, errors>>
  BY DEF HostLoad, Paths
<1>2. stack' = stack \/ \E f \in SoundFrames : stack' = Append(stack, f)
  BY <1>1, getModuleStack
<1>3. StackSound(stack', m_moduleIndices', module')
  BY <1>1, <1>2, UnderWayMoves DEF NoErrors
<1>4. stack' = <<>> \/ returned' = Nothing
  BY <1>1 DEF getModule
<1> QED BY <1>1, <1>3, <1>4 DEF NoErrors, Nothing, Failed

LEMMA HostInitSound ==
  ASSUME IInv, NoErrors, HostInit
  PROVE  NoErrors'
<1>1. /\ stack' = stack /\ returned # Nothing /\ returned' = Nothing
      /\ UNCHANGED <<m_moduleIndices, errors>>
      /\ module' = IF returned = Failed THEN module
                   ELSE [module EXCEPT ![returned] = Initialised(@)]
  BY DEF HostInit
<1>2. \A p \in Paths : module[p].built => module'[p].built
  <2>1. CASE returned = Failed
    BY <1>1, <2>1
  <2>2. CASE returned # Failed
    <3>1. returned \in Paths
      BY <1>1, <2>2 DEF IInv, TypeOK
    <3>2. module[returned] \in Modules
      BY <3>1 DEF IInv, AnswerOK, TypeOK, ModuleIds
    <3>3. Initialised(module[returned]).built = module[returned].built
      BY <3>2, InitialisedProps
    <3> QED BY <1>1, <2>2, <3>1, <3>3 DEF IInv, TypeOK
  <2> QED BY <2>1, <2>2
<1>3. StackSound(stack', m_moduleIndices', module')
  BY <1>1, <1>2, UnderWayMoves DEF NoErrors
<1> QED BY <1>1, <1>3 DEF NoErrors, Nothing, Failed

LEMMA NextSound ==
  ASSUME IInv, QuietOK, SoundOK, [Next]_vars
  PROVE  SoundOK'
<1>1. CASE UNCHANGED vars \/ service
  <2>1. UNCHANGED <<up, quiet, imports, source, errors, stack, m_moduleIndices, module, returned>>
    BY <1>1 DEF vars, memory, disk, service
  <2> QED BY <2>1 DEF SoundOK, NoErrors, Top
<1>2. CASE RestoreTwiceDeleted \/ Shutdown \/ Kill
  BY <1>2 DEF RestoreTwiceDeleted, Fault, Shutdown, Kill, SoundOK
<1>3. CASE \E p \in Scripts : Edit(p)
  <2>1. up' = up /\ quiet' = (quiet /\ ~up)
    BY <1>3 DEF Edit
  <2>2. ~(up' /\ quiet')
    BY <2>1, Zenon
  <2> QED BY <2>2 DEF SoundOK
<1>4. CASE Start
  <2>1. errors' = FALSE /\ stack' = <<>> /\ \A p \in Paths : m_moduleIndices'[p] = 0
    BY <1>4 DEF Start, IInv, TypeOK, ModuleIds
  <2> QED BY <2>1 DEF SoundOK, NoErrors, StackSound
<1>5. CASE HostInit \/ \E p \in Scripts : HostLoad(p)
  <2>1. UNCHANGED <<up, quiet, imports, source>>
    BY <1>5 DEF HostInit, HostLoad, disk
  <2> QED BY <1>5, <2>1, HostInitSound, HostLoadSound DEF SoundOK
<1>6. CASE BuildStep
  <2>1. up /\ UNCHANGED <<quiet, imports, source>>
    BY <1>6 DEF BuildStep, Fault, LoadModule, BuildFromCached, AskDependency, TakeDependency,
                CompareVersions, Link, LinkFails, BuildFromSource, AskImport, TakeImport, TakeImportOf,
                CompileError, Specialize, TakeSpecialization, Remake, PostCompile, OnScriptCompiled, disk
  <2> QED BY <1>6, <2>1, BuildStepSound DEF SoundOK, Undisturbed
<1> QED BY <1>1, <1>2, <1>3, <1>4, <1>5, <1>6 DEF Next

(* What the causes of faults rest on holds in every state.                 *)
THEOREM CausesKept == Spec => []FaultInv
<1>1. Init => FaultInv
  BY DEF Init, FaultInv, FirstSession, QuietOK, SoundOK
<1>2. IInv /\ FaultInv /\ [Next]_vars => FaultInv'
  BY NextFirst, NextQuiet, NextSound DEF FaultInv
<1> QED BY <1>1, <1>2, Invariant, PTL DEF Spec

LEMMA BuildStepFaults ==
  ASSUME IInv, OrderInv, FaultInv, BuildStep, fault' # fault
  PROVE  /\ fault' = "dangling_metadata" => sessions > 1
         /\ fault' \in {"overflow", "null_module"} => Cyclic
         /\ fault' = "no_metadata" => ~quiet
         /\ fault' = "no_compiler" =>
              ~quiet \/ Cyclic \/ \E p \in Scripts : source[p] = NoFile \/ source[p].quality # "sound"
<1>0. up /\ stack # <<>> /\ (Cyclic <=> HasCycle(imports))
  BY DEF BuildStep, Cyclic, HasCycle
<1>1. CASE LinkFails
  <2>1. fault' = "dangling_metadata" /\ Top.pc = "read"
    BY <1>1 DEF LinkFails
  <2>2. sessions > 1
    BY <1>0, <2>1, FileBuildsLater DEF FaultInv
  <2> QED BY <2>1, <2>2
<1>2. CASE LoadModule /\ Overflows
  <2>1. fault' = "overflow"
    BY <1>2 DEF LoadModule, Fault
  <2>2. HasCycle(imports)
    BY <1>0, <1>2, NoOverflow
  <2> QED BY <1>0, <2>1, <2>2
<1>3. CASE LoadModule /\ ~Overflows
  <2>1. fault' = "no_metadata" /\ m_scripts[Top.path] = NoMeta /\ Top.pc = "load"
    BY <1>3 DEF LoadModule, Fault
  <2>2. Top.path \in Scripts /\ source[Top.path] # NoFile
    BY <1>0, <2>1, TopFacts DEF FrameOK
  <2>3. ~quiet
    BY <1>0, <2>1, <2>2 DEF FaultInv, QuietOK
  <2> QED BY <2>1, <2>3
<1>4. CASE BuildFromCached \/ BuildFromSource \/ Link
  <2>1. fault' = "no_compiler" /\ errors
    BY <1>4 DEF BuildFromCached, BuildFromSource, Link, Fault, ResetFails
  <2>2. ~(quiet /\ ~HasCycle(imports) /\ AllSound(source))
    BY <1>0, <2>1 DEF FaultInv, SoundOK, NoErrors
  <2> QED BY <1>0, <2>1, <2>2 DEF AllSound
<1>5. CASE PostCompile
  <2>1. fault' = "null_module" /\ Top.pc = "imports" /\ ~Top.m_mod
    BY <1>5 DEF PostCompile, Fault
  <2>2. HasCycle(imports)
    BY <1>0, <2>1, TopKnown DEF OrderInv, FrameKnown, Registered
  <2> QED BY <1>0, <2>1, <2>2
<1>6. ~ \/ AskDependency \/ TakeDependency \/ CompareVersions \/ AskImport \/ TakeImport
        \/ CompileError \/ Specialize \/ TakeSpecialization \/ Remake \/ OnScriptCompiled
  BY DEF AskDependency, TakeDependency, CompareVersions, AskImport, TakeImport, TakeImportOf,
         CompileError, Specialize, TakeSpecialization, Remake, OnScriptCompiled
<1> QED BY <1>1, <1>2, <1>3, <1>4, <1>5, <1>6 DEF BuildStep

(* The destructors reset the root as the next load would.                  *)
LEMMA ShutdownFaults ==
  ASSUME IInv, FaultInv, Shutdown, fault' # fault
  PROVE  /\ fault' = "no_compiler"
         /\ ~quiet \/ Cyclic \/ \E p \in Scripts : source[p] = NoFile \/ source[p].quality # "sound"
<1>1. fault' = "no_compiler" /\ errors /\ up /\ (Cyclic <=> HasCycle(imports))
  BY DEF Shutdown, ResetFails, Cyclic, HasCycle
<1>2. ~(quiet /\ ~HasCycle(imports) /\ AllSound(source))
  BY <1>1 DEF FaultInv, SoundOK, NoErrors
<1> QED BY <1>1, <1>2 DEF AllSound

(* Undefined behaviour has its named cause in the step in which it ends    *)
(* the process (Workspace::loadModule, Pipeline::tryCache,                 *)
(* Pipeline::reset, Context::createModule).                                *)
THEOREM FaultsHaveCauses == Spec => FaultsNamed
<1> DEFINE Named ==
      fault' # fault =>
        /\ fault' = "dangling_metadata" => sessions > 1
        /\ fault' \in {"overflow", "null_module"} => Cyclic
        /\ fault' = "no_metadata" => ~quiet
        /\ fault' = "no_compiler" =>
             ~quiet \/ Cyclic \/ \E p \in Scripts : source[p] = NoFile \/ source[p].quality # "sound"
<1>1. IInv /\ OrderInv /\ FaultInv /\ [Next]_vars => Named
  <2> SUFFICES ASSUME IInv, OrderInv, FaultInv, [Next]_vars, fault' # fault PROVE Named
    OBVIOUS
  <2>1. CASE BuildStep
    BY <2>1, BuildStepFaults
  <2>2. CASE Start \/ RestoreTwiceDeleted
    <3>1. fault' \in {"none", "double_delete"}
      BY <2>2 DEF Start, RestoreTwiceDeleted, Fault
    <3> QED BY <3>1
  <2>3. CASE Shutdown
    BY <2>3, ShutdownFaults
  <2>4. ~ \/ UNCHANGED vars \/ Kill \/ service \/ HostInit
          \/ \E p \in Scripts : Edit(p) \/ HostLoad(p)
    BY DEF vars, Kill, service, HostInit, Edit, HostLoad
  <2> QED BY <2>1, <2>2, <2>3, <2>4 DEF Next
<1> QED BY <1>1, Invariant, OrderKept, CausesKept, PTL DEF Spec, FaultsNamed
=============================================================================
