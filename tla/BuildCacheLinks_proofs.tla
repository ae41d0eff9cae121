----------------------- MODULE BuildCacheLinks_proofs -----------------------
(***************************************************************************)
(* Proofs about BuildCache, continued: what a module was made from is what *)
(* it is linked with (LinkedAsCompiledApart).                              *)
(*                                                                         *)
(* A cache file is believed for two comparisons: its date with that of the *)
(* source, and the versions of what it uses with those that the workspace  *)
(* knows.  The first part of the invariant follows dates and versions from *)
(* the sources to the metadata, the database and the cache files and back, *)
(* over any number of sessions; the second follows the contents that went  *)
(* into a module to its cache file and to the modules linked from it.      *)
(***************************************************************************)
EXTENDS BuildCacheOrder_proofs

(* A cache file that can be read, of a build that no edit disturbed.       *)
Whole(c) == c # NoFile /\ ~c.torn
Calm(c) == Whole(c) /\ c.quiet

-----------------------------------------------------------------------------
(* Dates and versions                                                      *)

(* Metadata is never ahead of the files: versions of scripts are dates     *)
(* that their sources have had, and cached_on is that of the cache file at *)
(* most (a file that was cut short is younger than its metadata).          *)
MetasBehind(metas, src, files, t) ==
  \A p \in Paths : metas[p] # NoMeta =>
    /\ p \in Scripts => metas[p].modified_on <= src[p].mtime
    /\ metas[p].cached_on <= t
    /\ files[p] # NoFile => metas[p].cached_on <= files[p].mtime

DatesOK ==
  /\ \A p \in Scripts : source[p].mtime <= clock
  /\ \A p \in Paths : cache[p].mtime <= clock
  /\ MetasBehind(m_scripts, source, cache, clock)
  /\ last_state.kind = "metas" => MetasBehind(last_state.metas, source, cache, clock)

(* A cache file that is younger than its source was made from it.          *)
FileCurrent(src, p, c) == Calm(c) /\ src[p].mtime < c.mtime => c.own = src[p].mtime

FilesCurrent == \A p \in Scripts : FileCurrent(source, p, cache[p])

(* A build of a script has the contents the source has.                    *)
FrameCurrent(src, metas, f) ==
  f.path \in Scripts =>
    /\ f.pc \in {"imports", "save"} => f.own = src[f.path].mtime
    /\ f.pc \in {"deps", "read"} /\ Calm(f.entry) => f.entry.own = src[f.path].mtime
    /\ f.pc = "cached" => src[f.path].mtime < metas[f.path].cached_on

ModuleCurrent(src, p, mod) ==
  mod.from = "source" \/ (mod.built /\ mod.trusted) => mod.own = src[p].mtime

(* As long as nothing was edited since the session began.                  *)
CurrentOK ==
  up /\ quiet =>
    /\ \A p \in Scripts : source[p] # NoFile => m_scripts[p].modified_on = source[p].mtime
    /\ \A n \in 1 .. Len(stack) : FrameCurrent(source, m_scripts, stack[n])
    /\ \A p \in ModuleIds \cap Scripts : ModuleCurrent(source, p, module[p])

(* Modules of scripts have sources, and the module of a build has its      *)
(* contents from where the build has them, if the build has a module.      *)
FrameFrom(f, mods) ==
  /\ (f.pc = "imports" /\ f.m_mod) \/ f.pc = "save" =>
       mods[f.path].from = "source" /\ mods[f.path].own = f.own
  /\ f.pc = "read" =>
       mods[f.path].from = "cache" /\ (Whole(f.entry) => mods[f.path].own = f.entry.own)

FromOK ==
  /\ \A p \in ModuleIds \cap Scripts : source[p] # NoFile
  /\ \A n \in 1 .. Len(stack) : FrameFrom(stack[n], module)

DateInv == DatesOK /\ FilesCurrent /\ CurrentOK /\ FromOK

-----------------------------------------------------------------------------
(* Contents                                                                *)

(* The script that the contents of p come from.                            *)
Root(p) == IF p \in Templates THEN Origin[p] ELSE p

(* The cache file c of p: its own contents went into it.  If it is calm,   *)
(* the versions it was written with are the contents that went into it.    *)
EntryMade(p, c) ==
  /\ <<p, c.own>> \in c.made
  /\ c.quiet =>
       /\ p \in Templates => \E e \in ToSet(c.deps) : e.path = Origin[p] /\ e.version = c.own
       /\ \A d \in ToSet(c.deps) : d.made # {} =>
            \E e \in ToSet(c.deps) : e.path = Root(d.path) /\ <<d.path, e.version>> \in d.made

FilesMade == \A p \in Paths : Whole(cache[p]) => EntryMade(p, cache[p])

(* A build from a cache file has been given what the file asks for, up to  *)
(* the next to load; one of a template has the contents of its script.    *)
FrameMade(f, mods) ==
  /\ f.pc \in {"load", "cached"} => f.i = 1
  /\ f.pc \in {"deps", "read"} /\ Whole(f.entry) =>
       /\ EntryMade(f.path, f.entry)
       /\ \A k \in 1 .. Len(f.entry.deps) :
            f.pc = "read" \/ k < f.i => f.entry.deps[k].path \in ToSet(f.deps)
  /\ f.pc \in {"imports", "save"} =>
       /\ \A d \in ToSet(f.deps) \cap Templates : Origin[d] \in ToSet(f.deps)
       /\ f.path \in Templates =>
            Origin[f.path] \in ToSet(f.deps) /\ mods[Origin[f.path]].own = f.own

FramesMade == \A n \in 1 .. Len(stack) : FrameMade(stack[n], module)

(* The modules that p was made with are done, and have the contents that   *)
(* went into p.                                                            *)
Settled(s, idx, p) == idx[p] # 0 /\ \A n \in 1 .. Len(s) : s[n].path # p

AgainstMade(s, idx, mods, p) ==
  \A a \in mods[p].against :
    /\ Settled(s, idx, a.path)
    /\ mods[p].built /\ (mods[p].from = "cache" => mods[p].trusted) /\ mods[a.path].built /\ a.made # {} =>
         <<a.path, mods[a.path].own>> \in a.made

OwnMade(mods, p) ==
  mods[p].made # {} => mods[p].built /\ <<p, mods[p].own>> \in mods[p].made

ModulesMade ==
  \A p \in ModuleIds :
    /\ OwnMade(module, p)
    /\ AgainstMade(stack, m_moduleIndices, module, p)
    /\ module[p].from = "cache" /\ ~module[p].built => stack # <<>> /\ Top.pc = "read" /\ Top.path = p

TemplatesMade ==
  up /\ quiet => \A p \in ModuleIds \cap Templates :
    module[p].built /\ module[p].trusted => module[p].own = source[Origin[p]].mtime

(* What was decided on the step before.                                    *)
TopMade ==
  stack # <<>> =>
    /\ Top.pc = "read" /\ Whole(Top.entry) => ~versionsDiffer(Top.entry)
    /\ Top.pc = "save" => module[Top.path].built /\ (module[Top.path].trusted => AllTrusted(Top.deps))

Made == FilesMade /\ FramesMade /\ ModulesMade /\ TemplatesMade /\ TopMade

MadeInv == ~HasCycle(imports) => Made

-----------------------------------------------------------------------------
(* Types, and the frames after a step                                      *)

LEMMA DateTypes ==
  ASSUME TypeOK
  PROVE  /\ clock \in Nat
         /\ \A p \in Scripts : source[p].mtime \in Nat /\ p \in Paths
         /\ \A p \in Paths : cache[p].mtime \in Nat
<1>1. clock \in Nat
  BY DEF TypeOK, Times
<1>2. \A p \in Scripts : source[p].mtime \in Nat /\ p \in Paths
  <2>1. \A file \in Files : file.mtime \in Nat
    BY DEF Files, NoFile, Times
  <2> QED BY <2>1 DEF TypeOK, Paths
<1>3. \A p \in Paths : cache[p].mtime \in Nat
  <2>1. \A file \in CutFiles : file.mtime \in Nat
    BY DEF CutFiles, Times
  <2>2. \A file \in WholeFiles : file.mtime \in Nat
    BY DEF WholeFiles, Times
  <2>3. NoFile.mtime \in Nat
    BY DEF NoFile
  <2> QED BY <2>1, <2>2, <2>3 DEF TypeOK, CacheFiles
<1> QED BY <1>1, <1>2, <1>3

LEMMA MetaTypes ==
  ASSUME NEW meta \in Metas
  PROVE  meta # NoMeta => meta.modified_on \in Nat /\ meta.cached_on \in Nat
BY DEF Metas, NoMeta

LEMMA InitialisedKeeps ==
  ASSUME NEW mod
  PROVE  /\ Initialised(mod).own = mod.own /\ Initialised(mod).from = mod.from
         /\ Initialised(mod).built = mod.built /\ Initialised(mod).trusted = mod.trusted
         /\ Initialised(mod).made = mod.made /\ Initialised(mod).against = mod.against
<1>1. CASE mod.didInit
  BY <1>1 DEF Initialised
<1>2. CASE ~mod.didInit
  BY <1>2 DEF Initialised
<1> QED BY <1>1, <1>2

(* After a step all frames are in S, if those below the top and the one    *)
(* that the step puts there are, and the top, where it stays.              *)
LEMMA FramesIn ==
  ASSUME NEW S \in SUBSET Frames, NEW s \in Seq(Frames), NEW t,
         \/ t = s
         \/ s # <<>> /\ t = Front(s)
         \/ \E f \in S : t = Append(s, f)
         \/ \E f \in S : s # <<>> /\ t = [s EXCEPT ![Len(s)] = f],
         \A n \in 1 .. Len(s) - 1 : s[n] \in S,
         s # <<>> /\ (t = s \/ Len(t) > Len(s)) => s[Len(s)] \in S
  PROVE  \A n \in 1 .. Len(t) : t[n] \in S
<1>0. Len(s) \in Nat /\ (s = <<>> <=> Len(s) = 0)
  BY LenProperties, EmptySeq
<1>1. ASSUME s[Len(s)] \in S \/ s = <<>> PROVE \A n \in 1 .. Len(s) : s[n] \in S
  <2>1. \A n \in 1 .. Len(s) : n = Len(s) \/ n \in 1 .. Len(s) - 1
    BY <1>0
  <2> QED BY <1>0, <1>1, <2>1
<1>2. CASE t = s
  BY <1>0, <1>1, <1>2
<1>3. CASE s # <<>> /\ t = Front(s)
  <2>1. Len(t) = Len(s) - 1 /\ \A n \in 1 .. Len(s) - 1 : t[n] = s[n]
    BY <1>3, PopTop
  <2> QED BY <2>1
<1>4. ASSUME NEW f \in S, t = Append(s, f) PROVE \A n \in 1 .. Len(t) : t[n] \in S
  <2>1. /\ Len(t) = Len(s) + 1 /\ t[Len(s) + 1] = f
        /\ \A n \in 1 .. Len(s) : t[n] = s[n]
    BY <1>4, PushTop
  <2>2. \A n \in 1 .. Len(s) : s[n] \in S
    BY <1>0, <1>1, <2>1
  <2>3. \A n \in 1 .. Len(t) : n = Len(s) + 1 \/ n \in 1 .. Len(s)
    BY <1>0, <2>1
  <2> QED BY <1>4, <2>1, <2>2, <2>3
<1>5. ASSUME NEW f \in S, s # <<>>, t = [s EXCEPT ![Len(s)] = f]
      PROVE  \A n \in 1 .. Len(t) : t[n] \in S
  <2>1. /\ Len(t) = Len(s) /\ t[Len(s)] = f
        /\ \A n \in 1 .. Len(s) - 1 : t[n] = s[n]
    BY <1>5, ReplaceTop
  <2>2. \A n \in 1 .. Len(t) : n = Len(s) \/ n \in 1 .. Len(s) - 1
    BY <1>0, <2>1
  <2> QED BY <1>5, <2>1, <2>2
<1> QED BY <1>2, <1>3, <1>4, <1>5

-----------------------------------------------------------------------------
(* Dates and versions: the steps of a build                                *)

LEMMA StayDates ==
  ASSUME DatesOK, FilesCurrent, UNCHANGED <<clock, source, cache, last_state, m_scripts>>
  PROVE  DatesOK' /\ FilesCurrent'
BY DEF DatesOK, FilesCurrent

(* The module of a build below the top is not that of the top.             *)
LEMMA RegisteredBelow ==
  ASSUME IInv, stack # <<>>, NEW n \in 1 .. Len(stack) - 1, Registered(stack[n])
  PROVE  stack[n].path # Top.path /\ stack[n].path \in Paths
<1>1. stack \in Seq(Frames) /\ Len(stack) \in Nat /\ StackRelies(stack, m_moduleIndices)
  BY TopFacts
<1>2. n \in 1 .. Len(stack) /\ Len(stack) \in n + 1 .. Len(stack)
  BY <1>1
<1>3. stack[n].path \in Relies(stack[n])
  BY DEF Relies
<1> QED BY <1>1, <1>2, <1>3, FrameTypes DEF StackRelies, Top

(* A step of a build that leaves the sources alone.                        *)
LEMMA CurrentStep ==
  ASSUME IInv, CurrentOK, FromOK, up, stack # <<>>, source' = source, quiet' = quiet,
         OnlyTopChanges,
         \A p \in Scripts :
           /\ m_scripts'[p].modified_on = m_scripts[p].modified_on
           /\ quiet /\ source[p] # NoFile /\ source[p].mtime < m_scripts[p].cached_on =>
                source[p].mtime < m_scripts'[p].cached_on,
         \/ stack' = stack /\ module' = module
         \/ stack' = Front(stack)
         \/ \E f \in Frames : /\ stack' = WithTop(f) \/ (stack' = Append(stack, f) /\ module' = module)
                              /\ quiet => FrameCurrent(source, m_scripts', f)
                              /\ FrameFrom(f, module'),
         quiet /\ Top.path \in ModuleIds' \cap Scripts =>
           ModuleCurrent(source, Top.path, module'[Top.path])
  PROVE  CurrentOK' /\ FromOK'
<1>0. /\ stack \in Seq(Frames) /\ Top \in Frames /\ Top.path \in Paths
      /\ StackShape(imports, source, stack) /\ FrameOK(imports, source, Top)
      /\ Len(stack) \in Nat /\ Len(stack) > 0
  BY TopFacts
<1> DEFINE S == {f \in Frames : /\ quiet => FrameCurrent(source, m_scripts', f)
                                /\ FrameFrom(f, module')}
<1>1. ASSUME NEW n \in 1 .. Len(stack), n # Len(stack) \/ module' = module
      PROVE  stack[n] \in S
  <2>1. stack[n] \in Frames /\ FrameOK(imports, source, stack[n]) /\ FrameFrom(stack[n], module)
    BY <1>0, FrameTypes DEF StackShape, FromOK
  <2>2. ASSUME quiet PROVE FrameCurrent(source, m_scripts', stack[n])
    <3>1. FrameCurrent(source, m_scripts, stack[n])
      BY <2>2 DEF CurrentOK
    <3> QED BY <2>1, <2>2, <3>1 DEF FrameCurrent, FrameOK
  <2>3. FrameFrom(stack[n], module')
    <3>1. CASE module' = module
      BY <2>1, <3>1
    <3>2. CASE ~Registered(stack[n])
      BY <3>2 DEF FrameFrom, Registered
    <3>3. CASE n # Len(stack) /\ Registered(stack[n])
      <4>1. n \in 1 .. Len(stack) - 1
        BY <1>0, <3>3
      <4>2. stack[n].path # Top.path /\ stack[n].path \in Paths
        BY <3>3, <4>1, RegisteredBelow
      <4>3. /\ module'[stack[n].path].from = module[stack[n].path].from
            /\ module'[stack[n].path].own = module[stack[n].path].own
        BY <4>2, InitialisedKeeps DEF OnlyTopChanges
      <4> QED BY <2>1, <4>3 DEF FrameFrom
    <3> QED BY <1>1, <3>1, <3>2, <3>3
  <2> QED BY <2>1, <2>2, <2>3
<1>2. \A n \in 1 .. Len(stack) - 1 : n \in 1 .. Len(stack) /\ n # Len(stack)
  BY <1>0
<1>3. S \in SUBSET Frames
  OBVIOUS
<1>4. \A f \in Frames : (quiet => FrameCurrent(source, m_scripts', f)) /\ FrameFrom(f, module') => f \in S
  OBVIOUS
<1>5. \A f \in S : f \in Frames /\ (quiet => FrameCurrent(source, m_scripts', f)) /\ FrameFrom(f, module')
  OBVIOUS
<1> HIDE DEF S
<1>6. \A n \in 1 .. Len(stack') : stack'[n] \in S
  <2>1. CASE module' = module
    <3>1. stack[Len(stack)] \in S /\ \A n \in 1 .. Len(stack) - 1 : stack[n] \in S
      BY <1>0, <1>1, <1>2, <2>1
    <3>2. \/ stack' = stack \/ stack' = Front(stack)
          \/ \E f \in S : stack' = Append(stack, f)
          \/ \E f \in S : stack' = [stack EXCEPT ![Len(stack)] = f]
      BY <1>4 DEF WithTop
    <3> QED BY <1>0, <1>3, <3>1, <3>2, FramesIn
  <2>2. CASE module' # module
    <3>1. \A n \in 1 .. Len(stack) - 1 : stack[n] \in S
      BY <1>1, <1>2
    <3>2. \/ stack' = Front(stack) /\ Len(stack') = Len(stack) - 1
          \/ \E f \in S : stack' = [stack EXCEPT ![Len(stack)] = f]
      BY <1>0, <1>4, <2>2, PopTop DEF WithTop
    <3>3. CASE stack' = Front(stack)
      <4>1. Len(stack') = Len(stack) - 1 /\ \A n \in 1 .. Len(stack) - 1 : stack'[n] = stack[n]
        BY <1>0, <3>3, PopTop
      <4> QED BY <3>1, <4>1
    <3>4. ASSUME NEW f \in S, stack' = [stack EXCEPT ![Len(stack)] = f]
          PROVE  \A n \in 1 .. Len(stack') : stack'[n] \in S
      <4> DEFINE t == [stack EXCEPT ![Len(stack)] = f]
      <4>1. Len(t) = Len(stack) /\ t[Len(stack)] = f /\ \A n \in 1 .. Len(stack) - 1 : t[n] = stack[n]
        BY <1>0, <1>5, ReplaceTop
      <4>2. stack' = t
        BY <3>4
      <4> HIDE DEF t
      <4>3. \A n \in 1 .. Len(t) : n = Len(stack) \/ n \in 1 .. Len(stack) - 1
        BY <1>0, <4>1
      <4> QED BY <3>1, <4>1, <4>2, <4>3
    <3> QED BY <3>2, <3>3, <3>4
  <2> QED BY <2>1, <2>2
<1>7. ASSUME NEW p \in ModuleIds' \cap Scripts
      PROVE  source[p] # NoFile /\ (quiet => ModuleCurrent(source, p, module'[p]))
  <2>1. CASE p = Top.path
    BY <1>0, <1>7, <2>1 DEF FrameOK
  <2>2. CASE p # Top.path
    <3>1. p \in Paths /\ p \in ModuleIds
      BY <2>2 DEF OnlyTopChanges, ModuleIds
    <3>2. source[p] # NoFile /\ (quiet => ModuleCurrent(source, p, module[p]))
      BY <3>1 DEF CurrentOK, FromOK
    <3>3. /\ module'[p].from = module[p].from /\ module'[p].own = module[p].own
          /\ module'[p].built = module[p].built /\ module'[p].trusted = module[p].trusted
      BY <2>2, <3>1, InitialisedKeeps DEF OnlyTopChanges
    <3> QED BY <3>2, <3>3 DEF ModuleCurrent
  <2> QED BY <2>1, <2>2
<1>8. quiet => \A p \in Scripts : source[p] # NoFile => m_scripts'[p].modified_on = source[p].mtime
  BY DEF CurrentOK
<1>9. CurrentOK'
  BY <1>5, <1>6, <1>7, <1>8 DEF CurrentOK
<1>10. FromOK'
  BY <1>5, <1>6, <1>7 DEF FromOK
<1> QED BY <1>9, <1>10

-----------------------------------------------------------------------------
(* Contents: the steps of a build                                          *)

(* What is known of the modules carries over to p, which stays as it was.  *)
SameModule(p) ==
  /\ m_moduleIndices'[p] = m_moduleIndices[p]
  /\ module'[p] = module[p] \/ module'[p] = Initialised(module[p])

LEMMA SameFields ==
  ASSUME NEW p, SameModule(p)
  PROVE  /\ module'[p].own = module[p].own /\ module'[p].from = module[p].from
         /\ module'[p].built = module[p].built /\ module'[p].trusted = module[p].trusted
         /\ module'[p].made = module[p].made /\ module'[p].against = module[p].against
         /\ m_moduleIndices'[p] = m_moduleIndices[p]
BY InitialisedKeeps DEF SameModule

LEMMA AgainstPaths ==
  ASSUME IInv, NEW p \in ModuleIds, NEW a \in module[p].against
  PROVE  a.path \in Paths
<1>1. module[p] \in Modules
  BY DEF IInv, TypeOK
<1>2. a \in [path : Paths, made : Contents]
  BY <1>1 DEF Modules
<1> QED BY <1>2

(* The modules that a build uses are not under way.                        *)
LEMMA UsedIsSettled ==
  ASSUME IInv, ~HasCycle(imports), stack # <<>>, NEW p \in ToSet(Top.deps)
  PROVE  /\ p \in Paths /\ m_moduleIndices[p] # 0
         /\ \A n \in 1 .. Len(stack) : stack[n].path # p
<1>1. /\ stack \in Seq(Frames) /\ imports \in ImportGraphs /\ StackShape(imports, source, stack)
      /\ Top \in Frames /\ FrameOK(imports, source, Top) /\ Len(stack) \in Nat /\ Len(stack) > 0
  BY TopFacts
<1>2. p \in Paths /\ m_moduleIndices[p] # 0 /\ p \in Uses(imports, Top.path)
  BY <1>1, RegisteredModules DEF FrameOK
<1>3. ASSUME NEW n \in 1 .. Len(stack) PROVE stack[n].path # p
  <2> DEFINE j == Len(stack) + 1
             walk == [k \in n .. j |-> IF k = j THEN p ELSE stack[k].path]
  <2>0. /\ n \in Nat /\ j \in Nat /\ n < j
        /\ \A k \in n .. j : k = j \/ k \in 1 .. Len(stack)
        /\ \A k \in n .. j - 1 : /\ k \in n .. j /\ k + 1 \in n .. j /\ k # j /\ k \in 1 .. Len(stack)
                                 /\ k = Len(stack) \/ k \in 1 .. Len(stack) - 1
                                 /\ k + 1 = j <=> k = Len(stack)
        /\ n \in n .. j /\ j \in n .. j /\ n # j
    BY <1>1
  <2>1. \A k \in 1 .. Len(stack) : /\ stack[k] \in Frames /\ stack[k].path \in Paths
                                   /\ FrameOK(imports, source, stack[k])
    BY <1>1, FrameTypes DEF StackShape
  <2> HIDE DEF j
  <2>2. walk \in [n .. j -> Paths]
    BY <1>2, <2>0, <2>1
  <2>3. ASSUME NEW k \in n .. j - 1 PROVE walk[k + 1] \in Uses(imports, walk[k])
    <3>1. CASE k = Len(stack)
      BY <1>2, <2>0, <3>1 DEF Top
    <3>2. CASE k # Len(stack)
      <4>1. AskedBy(imports, stack[k], stack[k + 1])
        BY <1>1, <2>0, <3>2 DEF StackShape
      <4>2. stack[k + 1].path \in Uses(imports, stack[k].path)
        BY <1>1, <2>0, <2>1, <4>1, AskedByUses
      <4> QED BY <2>0, <3>2, <4>2
    <3> QED BY <3>1, <3>2
  <2>4. walk[n] = stack[n].path /\ walk[j] = p
    BY <2>0
  <2> HIDE DEF walk
  <2> QED BY <1>1, <2>0, <2>2, <2>3, <2>4, WalkIsCycle
<1> QED BY <1>2, <1>3

(* How a step of a build changes the stack: builds that were not there     *)
(* before are of modules that were not there.                              *)
BuildMoves(F) ==
  \/ stack' = stack
  \/ stack' = Front(stack)
  \/ \E f \in F : stack' = WithTop(f) /\ f.path = Top.path
  \/ \E f \in F : stack' = Append(stack, f) /\ m_moduleIndices[f.path] = 0

LEMMA StaysSettled ==
  ASSUME IInv, stack # <<>>, BuildMoves(Frames), NEW p, Settled(stack, m_moduleIndices, p),
         m_moduleIndices'[p] = m_moduleIndices[p]
  PROVE  Settled(stack', m_moduleIndices', p)
<1>1. stack \in Seq(Frames) /\ Len(stack) \in Nat /\ Len(stack) > 0 /\ Len(stack) \in 1 .. Len(stack)
  BY TopFacts
<1> SUFFICES \A n \in 1 .. Len(stack') : stack'[n].path # p
  BY DEF Settled
<1>2. \A n \in 1 .. Len(stack) : stack[n].path # p
  BY DEF Settled
<1>3. CASE stack' = stack
  BY <1>2, <1>3
<1>4. CASE stack' = Front(stack)
  <2>1. Len(stack') = Len(stack) - 1 /\ \A n \in 1 .. Len(stack) - 1 : stack'[n] = stack[n]
    BY <1>1, <1>4, PopTop
  <2>2. \A n \in 1 .. Len(stack') : n \in 1 .. Len(stack) - 1 /\ n \in 1 .. Len(stack)
    BY <1>1, <2>1
  <2> QED BY <1>2, <2>1, <2>2
<1>5. ASSUME NEW f \in Frames, stack' = WithTop(f), f.path = Top.path
      PROVE  \A n \in 1 .. Len(stack') : stack'[n].path # p
  <2> DEFINE t == [stack EXCEPT ![Len(stack)] = f]
  <2>1. Len(t) = Len(stack) /\ t[Len(stack)] = f /\ \A n \in 1 .. Len(stack) - 1 : t[n] = stack[n]
    BY <1>1, ReplaceTop
  <2>2. stack' = t
    BY <1>5 DEF WithTop
  <2> HIDE DEF t
  <2>3. \A n \in 1 .. Len(t) : n = Len(stack) \/ (n \in 1 .. Len(stack) - 1 /\ n \in 1 .. Len(stack))
    BY <1>1, <2>1
  <2>4. f.path # p
    BY <1>1, <1>2, <1>5 DEF Top
  <2> QED BY <1>2, <2>1, <2>2, <2>3, <2>4
<1>6. ASSUME NEW f \in Frames, stack' = Append(stack, f), m_moduleIndices[f.path] = 0
      PROVE  \A n \in 1 .. Len(stack') : stack'[n].path # p
  <2>1. /\ Len(stack') = Len(stack) + 1 /\ stack'[Len(stack) + 1] = f
        /\ \A n \in 1 .. Len(stack) : stack'[n] = stack[n]
    BY <1>1, <1>6, PushTop
  <2>2. \A n \in 1 .. Len(stack') : n = Len(stack) + 1 \/ n \in 1 .. Len(stack)
    BY <1>1, <2>1
  <2>3. f.path # p
    BY <1>6 DEF Settled
  <2> QED BY <1>2, <2>1, <2>2, <2>3
<1> QED BY <1>3, <1>4, <1>5, <1>6 DEF BuildMoves

LEMMA FrameMadeKept ==
  ASSUME IInv, ~HasCycle(imports), FramesMade, stack # <<>>, OnlyTopChanges, NEW n \in 1 .. Len(stack)
  PROVE  stack[n] \in Frames /\ FrameMade(stack[n], module')
<1>1. stack \in Seq(Frames) /\ Len(stack) \in Nat /\ Len(stack) > 0
  BY TopFacts
<1>2. FrameMade(stack[n], module) /\ stack[n] \in Frames /\ stack[n].path \in Paths
  BY <1>1, FrameTypes DEF FramesMade
<1>3. \A d \in ToSet(stack[n].deps) : d \in Paths /\ d # Top.path
  <2>1. CASE n = Len(stack)
    <3>1. Len(stack) \in 1 .. Len(stack)
      BY <1>1
    <3> QED BY <2>1, <3>1, UsedIsSettled DEF Top
  <2>2. CASE n # Len(stack)
    <3>1. n \in 1 .. Len(stack) - 1
      BY <1>1, <2>2
    <3> QED BY <3>1, BelowFacts
  <2> QED BY <2>1, <2>2
<1>4. \A d \in ToSet(stack[n].deps) : module'[d].own = module[d].own
  BY <1>3, InitialisedKeeps DEF OnlyTopChanges
<1> QED BY <1>2, <1>4 DEF FrameMade

LEMMA MadeStep ==
  ASSUME IInv, ~HasCycle(imports), Made, up, stack # <<>>, imports' = imports, source' = source,
         quiet' = quiet, OnlyTopChanges, BuildMoves({f \in Frames : FrameMade(f, module')}),
         Top.path \in ModuleIds' =>
           \/ SameModule(Top.path) /\ Top.pc # "read"
           \/ /\ OwnMade(module', Top.path)
              /\ AgainstMade(stack', m_moduleIndices', module', Top.path)
              /\ module'[Top.path].from = "cache" /\ ~module'[Top.path].built =>
                   stack' # <<>> /\ Top'.pc = "read" /\ Top'.path = Top.path
              /\ quiet /\ Top.path \in Templates /\ module'[Top.path].built /\ module'[Top.path].trusted =>
                   module'[Top.path].own = source[Origin[Top.path]].mtime
  PROVE  FramesMade' /\ ModulesMade' /\ TemplatesMade'
<1>0. /\ stack \in Seq(Frames) /\ Len(stack) \in Nat /\ Len(stack) > 0 /\ Len(stack) \in 1 .. Len(stack)
      /\ Top \in Frames /\ Top.path \in Paths
  BY TopFacts
<1> DEFINE S == {f \in Frames : FrameMade(f, module')}
<1>1. FramesMade'
  <2>1. \A n \in 1 .. Len(stack) : stack[n] \in S
    BY FrameMadeKept DEF Made
  <2>2. \/ stack' = stack \/ stack' = Front(stack)
        \/ \E f \in S : stack' = Append(stack, f)
        \/ \E f \in S : stack' = [stack EXCEPT ![Len(stack)] = f]
    BY DEF BuildMoves, WithTop
  <2>3. S \in SUBSET Frames /\ \A f \in S : FrameMade(f, module')
    OBVIOUS
  <2> HIDE DEF S
  <2>4. stack[Len(stack)] \in S /\ \A n \in 1 .. Len(stack) - 1 : stack[n] \in S
    BY <1>0, <2>1
  <2>5. \A n \in 1 .. Len(stack') : stack'[n] \in S
    BY <1>0, <2>2, <2>3, <2>4, FramesIn
  <2> QED BY <2>3, <2>5 DEF FramesMade
<1>2. BuildMoves(Frames)
  BY DEF BuildMoves
<1> HIDE DEF S
<1>3. ASSUME NEW p \in ModuleIds, p \in ModuleIds', SameModule(p), p = Top.path => Top.pc # "read"
      PROVE  /\ OwnMade(module', p)
             /\ AgainstMade(stack', m_moduleIndices', module', p)
             /\ ~(module'[p].from = "cache" /\ ~module'[p].built)
             /\ quiet /\ p \in Templates /\ module'[p].built /\ module'[p].trusted =>
                  module'[p].own = source[Origin[p]].mtime
  <2>1. /\ module'[p].own = module[p].own /\ module'[p].from = module[p].from
        /\ module'[p].built = module[p].built /\ module'[p].trusted = module[p].trusted
        /\ module'[p].made = module[p].made /\ module'[p].against = module[p].against
    BY <1>3, SameFields
  <2>2. /\ OwnMade(module, p) /\ AgainstMade(stack, m_moduleIndices, module, p)
        /\ module[p].from = "cache" /\ ~module[p].built => Top.pc = "read" /\ Top.path = p
    BY DEF Made, ModulesMade
  <2>3. OwnMade(module', p)
    BY <2>1, <2>2 DEF OwnMade
  <2>4. AgainstMade(stack', m_moduleIndices', module', p)
    <3> SUFFICES ASSUME NEW a \in module[p].against
                 PROVE  /\ Settled(stack', m_moduleIndices', a.path)
                        /\ /\ module[p].built /\ (module[p].from = "cache" => module[p].trusted)
                           /\ module'[a.path].built /\ a.made # {}
                           => <<a.path, module'[a.path].own>> \in a.made
      BY <2>1 DEF AgainstMade
    <3>1. a.path \in Paths /\ Settled(stack, m_moduleIndices, a.path)
      BY <2>2, AgainstPaths DEF AgainstMade
    <3>2. a.path # Top.path
      BY <1>0, <3>1 DEF Settled, Top
    <3>3. SameModule(a.path)
      BY <3>1, <3>2 DEF OnlyTopChanges, SameModule
    <3>4. /\ module'[a.path].own = module[a.path].own /\ module'[a.path].built = module[a.path].built
          /\ m_moduleIndices'[a.path] = m_moduleIndices[a.path]
      BY <3>3, SameFields
    <3>5. Settled(stack', m_moduleIndices', a.path)
      BY <1>2, <3>1, <3>4, StaysSettled
    <3> QED BY <2>2, <3>4, <3>5 DEF AgainstMade
  <2>5. quiet /\ p \in Templates /\ module[p].built /\ module[p].trusted =>
          module[p].own = source[Origin[p]].mtime
    BY DEF Made, TemplatesMade
  <2> QED BY <1>3, <2>1, <2>2, <2>3, <2>4, <2>5
<1>4. ASSUME NEW p \in ModuleIds', p # Top.path
      PROVE  p \in ModuleIds /\ SameModule(p)
  BY <1>4 DEF OnlyTopChanges, SameModule, ModuleIds
<1>5. ASSUME NEW p \in ModuleIds', p = Top.path, SameModule(p)
      PROVE  p \in ModuleIds
  BY <1>5 DEF SameModule, ModuleIds
<1>6. ASSUME NEW p \in ModuleIds'
      PROVE  /\ OwnMade(module', p)
             /\ AgainstMade(stack', m_moduleIndices', module', p)
             /\ module'[p].from = "cache" /\ ~module'[p].built =>
                  stack' # <<>> /\ Top'.pc = "read" /\ Top'.path = p
             /\ quiet /\ p \in Templates /\ module'[p].built /\ module'[p].trusted =>
                  module'[p].own = source[Origin[p]].mtime
  <2>1. CASE p # Top.path
    BY <1>3, <1>4, <2>1
  <2>2. CASE p = Top.path /\ SameModule(Top.path) /\ Top.pc # "read"
    BY <1>3, <1>5, <2>2
  <2>3. CASE p = Top.path /\ ~(SameModule(Top.path) /\ Top.pc # "read")
    BY <2>3
  <2> QED BY <2>1, <2>2, <2>3
<1>7. ModulesMade' /\ TemplatesMade'
  BY <1>6 DEF ModulesMade, TemplatesMade
<1> QED BY <1>1, <1>7

LEMMA TopAfter ==
  ASSUME IInv, stack # <<>>, NEW f \in Frames, stack' = WithTop(f) \/ stack' = Append(stack, f)
  PROVE  Top' = f /\ stack' # <<>>
<1>1. stack \in Seq(Frames)
  BY TopFacts
<1>2. CASE stack' = WithTop(f)
  <2> DEFINE t == [stack EXCEPT ![Len(stack)] = f]
  <2>1. t # <<>> /\ Len(t) = Len(stack) /\ t[Len(stack)] = f
    BY <1>1, ReplaceTop
  <2>2. stack' = t
    BY <1>2 DEF WithTop
  <2> HIDE DEF t
  <2> QED BY <2>1, <2>2 DEF Top
<1>3. CASE stack' = Append(stack, f)
  BY <1>1, <1>3, PushTop DEF Top
<1> QED BY <1>2, <1>3

(* A step that changes nothing but the stack and the answer.               *)
LEMMA MovesLinks ==
  ASSUME IInv, IInv', DateInv, MadeInv, up, stack # <<>>, Top.pc # "read",
         UNCHANGED <<clock, source, cache, last_state, m_scripts, quiet, imports, m_moduleIndices, module>>,
         \/ (stack' = stack \/ stack' = Front(stack)) /\ returned' # Nothing
         \/ \E f \in Frames :
              /\ f.pc \notin {"read", "save"}
              /\ \/ stack' = WithTop(f) /\ f.path = Top.path
                 \/ stack' = Append(stack, f) /\ m_moduleIndices[f.path] = 0
              /\ quiet => FrameCurrent(source, m_scripts, f)
              /\ FrameFrom(f, module)
              /\ ~HasCycle(imports) => FrameMade(f, module)
  PROVE  DateInv' /\ MadeInv'
<1>1. OnlyTopChanges /\ SameModule(Top.path) /\ Top.path \in Paths
  BY TopFacts DEF OnlyTopChanges, SameModule
<1>2. DatesOK' /\ FilesCurrent'
  BY StayDates DEF DateInv
<1>3. quiet /\ Top.path \in ModuleIds' \cap Scripts => ModuleCurrent(source, Top.path, module'[Top.path])
  BY DEF DateInv, CurrentOK, ModuleIds
<1>4. CurrentOK' /\ FromOK'
  BY <1>1, <1>3, CurrentStep DEF DateInv
<1>5. ASSUME ~HasCycle(imports) PROVE Made'
  <2>1. Made
    BY <1>5 DEF MadeInv
  <2>2. BuildMoves({f \in Frames : FrameMade(f, module')})
    BY <1>5 DEF BuildMoves
  <2>3. FramesMade' /\ ModulesMade' /\ TemplatesMade'
    BY <1>1, <1>5, <2>1, <2>2, MadeStep
  <2>4. FilesMade'
    BY <2>1 DEF Made, FilesMade
  <2>5. stack' # <<>> => Top'.pc \notin {"read", "save"}
    <3>1. CASE (stack' = stack \/ stack' = Front(stack)) /\ returned' # Nothing
      BY <3>1 DEF IInv, AnswerOK
    <3>2. CASE \E f \in Frames : f.pc \notin {"read", "save"} /\ (stack' = WithTop(f) \/ stack' = Append(stack, f))
      BY <3>2, TopAfter
    <3> QED BY <3>1, <3>2
  <2>6. TopMade'
    BY <2>5 DEF TopMade
  <2> QED BY <2>3, <2>4, <2>6 DEF Made
<1> QED BY <1>2, <1>4, <1>5 DEF DateInv, MadeInv

(* The frames that a step to the same module puts on the stack, but for    *)
(* those that read a cache file.                                           *)
LEMMA PlainFrame ==
  ASSUME NEW f, f.pc \in {"load", "source", "remake"}, f.pc = "load" => f.i = 1,
         NEW src, NEW metas, NEW mods
  PROVE  /\ FrameCurrent(src, metas, f) /\ FrameFrom(f, mods) /\ FrameMade(f, mods)
BY DEF FrameCurrent, FrameFrom, FrameMade

LEMMA MissedFrames ==
  ASSUME IInv, stack # <<>>, Missed, Top.pc = "read" => Top.caller # "load"
  PROVE  \/ stack' = Front(stack) /\ returned' # Nothing
         \/ \E f \in Frames : /\ f.pc \in {"source", "remake"}
                              /\ stack' = WithTop(f) /\ f.path = Top.path
<1>1. Top \in Frames /\ Top.path \in Paths
  BY TopFacts
<1>2. CASE Top.caller = "load"
  <2> DEFINE f == Frame(Top.path, "source", "load")
  <2>1. f \in Frames /\ f.pc = "source" /\ f.path = Top.path
    BY <1>1 DEF Frame, Frames, Times
  <2>2. stack' = WithTop(f)
    BY <1>2 DEF Missed
  <2> HIDE DEF f
  <2> QED BY <2>1, <2>2
<1>3. CASE Top.caller = "dependency"
  <2>1. stack' = Front(stack) /\ returned' = Failed
    BY <1>3 DEF Missed, Return
  <2> QED BY <2>1 DEF Failed, Nothing
<1>4. CASE Top.caller = "specialize"
  <2> DEFINE f == [Top EXCEPT !.pc = "remake"]
  <2>1. f \in Frames /\ f.pc = "remake" /\ f.path = Top.path
    BY <1>1 DEF Frames
  <2>2. stack' = WithTop(f)
    BY <1>4 DEF Missed
  <2> HIDE DEF f
  <2> QED BY <2>1, <2>2
<1> QED BY <1>1, <1>2, <1>3, <1>4 DEF Frames

LEMMA MissedLinks ==
  ASSUME IInv, IInv', DateInv, MadeInv, up, stack # <<>>, Top.pc # "read", Missed,
         UNCHANGED <<clock, source, cache, last_state, m_scripts, quiet, imports, m_moduleIndices, module>>
  PROVE  DateInv' /\ MadeInv'
<1>1. CASE stack' = Front(stack) /\ returned' # Nothing
  BY <1>1, MovesLinks
<1>2. ASSUME NEW f \in Frames, f.pc \in {"source", "remake"}, stack' = WithTop(f), f.path = Top.path
      PROVE  DateInv' /\ MadeInv'
  <2>1. /\ FrameCurrent(source, m_scripts, f) /\ FrameFrom(f, module) /\ FrameMade(f, module)
    BY <1>2, PlainFrame
  <2> QED BY <1>2, <2>1, MovesLinks
<1> QED BY <1>1, <1>2, MissedFrames

(* What asking for a module puts on the stack.                             *)
LEMMA AskedFrames ==
  ASSUME IInv, NEW p \in Paths, getModule(p, stack)
  PROVE  \/ stack' = stack /\ returned' # Nothing
         \/ \E f \in Frames : /\ stack' = Append(stack, f) /\ f.path = p /\ m_moduleIndices[p] = 0
                              /\ f.pc \in {"load", "cached"} /\ f.i = 1 /\ f.deps = <<>>
                              /\ f.pc = "cached" => p \in Templates
<1>1. CASE m_moduleIndices[p] # 0
  <2>1. stack' = stack /\ returned' = m_modules[m_moduleIndices[p]]
    BY <1>1 DEF getModule
  <2>2. returned' = p
    BY <1>1, <2>1 DEF IInv, IndexOK, ModuleIds
  <2> QED BY <2>1, <2>2, AnswersAssumption
<1>2. CASE m_moduleIndices[p] = 0 /\ p \in Scripts /\ source[p] # NoFile
  <2> DEFINE f == Frame(p, "load", "load")
  <2>1. f \in Frames /\ f.path = p /\ f.pc = "load" /\ f.i = 1 /\ f.deps = <<>>
    BY DEF Frame, Frames, Times
  <2>2. stack' = Append(stack, f)
    BY <1>2 DEF getModule
  <2> HIDE DEF f
  <2> QED BY <1>2, <2>1, <2>2
<1>3. CASE m_moduleIndices[p] = 0 /\ ~(p \in Scripts /\ source[p] # NoFile) /\ m_scripts[p] # NoMeta /\ cache[p] # NoFile
  <2> DEFINE f == Frame(p, "cached", "dependency")
  <2>1. f \in Frames /\ f.path = p /\ f.pc = "cached" /\ f.i = 1 /\ f.deps = <<>>
    BY DEF Frame, Frames, Times
  <2>2. stack' = Append(stack, f)
    BY <1>3 DEF getModule
  <2>3. p \in Templates
    BY <1>3 DEF IInv, CacheOK, Paths
  <2> HIDE DEF f
  <2> QED BY <1>3, <2>1, <2>2, <2>3
<1>4. CASE m_moduleIndices[p] = 0 /\ ~(p \in Scripts /\ source[p] # NoFile) /\ ~(m_scripts[p] # NoMeta /\ cache[p] # NoFile)
  BY <1>4 DEF getModule, Failed, Nothing
<1> QED BY <1>1, <1>2, <1>3, <1>4

LEMMA AskedLinks ==
  ASSUME IInv, IInv', DateInv, MadeInv, up, stack # <<>>, Top.pc # "read",
         NEW p \in Paths, getModule(p, stack),
         UNCHANGED <<clock, source, cache, last_state, m_scripts, quiet, imports, m_moduleIndices, module>>
  PROVE  DateInv' /\ MadeInv'
<1>1. CASE stack' = stack /\ returned' # Nothing
  BY <1>1, MovesLinks
<1>2. ASSUME NEW f \in Frames, stack' = Append(stack, f), f.path = p, m_moduleIndices[p] = 0,
             f.pc \in {"load", "cached"}, f.i = 1, f.pc = "cached" => p \in Templates
      PROVE  DateInv' /\ MadeInv'
  <2>1. p \in Templates => p \notin Scripts
    BY GraphAssumption
  <2>2. /\ FrameCurrent(source, m_scripts, f) /\ FrameFrom(f, module) /\ FrameMade(f, module)
    BY <1>2, <2>1 DEF FrameCurrent, FrameFrom, FrameMade
  <2>3. f.pc \notin {"read", "save"}
    BY <1>2
  <2> QED BY <1>2, <2>2, <2>3, MovesLinks
<1> QED BY <1>1, <1>2, AskedFrames

(* The process ends: only files are left.                                  *)
LEMMA StopLinks ==
  ASSUME EmptyMemory, up' = FALSE, imports' = imports, MadeInv,
         \A p \in Scripts : source'[p].mtime <= clock',
         \A p \in Paths : cache'[p].mtime <= clock',
         last_state'.kind = "metas" => MetasBehind(last_state'.metas, source', cache', clock'),
         FilesCurrent', ~HasCycle(imports) => FilesMade'
  PROVE  DateInv' /\ MadeInv'
<1>1. m_scripts' = [p \in Paths |-> NoMeta] /\ ModuleIds' = {} /\ stack' = <<>>
  BY DEF EmptyMemory, ModuleIds
<1>2. Len(stack') = 0
  BY <1>1
<1>3. \A n \in 1 .. Len(stack') : FALSE
  BY <1>2
<1>4. DatesOK'
  BY <1>1 DEF DatesOK, MetasBehind
<1>5. CurrentOK' /\ FromOK'
  BY <1>1, <1>3 DEF CurrentOK, FromOK
<1>6. FramesMade' /\ ModulesMade' /\ TemplatesMade' /\ TopMade'
  BY <1>1, <1>3 DEF FramesMade, ModulesMade, TemplatesMade, TopMade
<1> QED BY <1>4, <1>5, <1>6 DEF DateInv, MadeInv, Made

LEMMA FaultLinks ==
  ASSUME DateInv, MadeInv, NEW kind, Fault(kind), imports' = imports
  PROVE  DateInv' /\ MadeInv'
<1>1. EmptyMemory /\ up' = FALSE /\ UNCHANGED <<clock, source, cache, last_state>>
  BY DEF Fault, disk
<1>2. FilesCurrent' /\ (~HasCycle(imports) => FilesMade')
  BY <1>1 DEF DateInv, MadeInv, Made, FilesCurrent, FilesMade
<1>3. /\ \A p \in Scripts : source'[p].mtime <= clock'
      /\ \A p \in Paths : cache'[p].mtime <= clock'
      /\ last_state'.kind = "metas" => MetasBehind(last_state'.metas, source', cache', clock')
  BY <1>1 DEF DateInv, DatesOK
<1> QED BY <1>1, <1>2, <1>3, StopLinks

LEMMA TopLinks ==
  ASSUME IInv, DateInv, MadeInv, up, stack # <<>>
  PROVE  /\ quiet => FrameCurrent(source, m_scripts, Top)
         /\ FrameFrom(Top, module)
         /\ ~HasCycle(imports) => FrameMade(Top, module)
<1>1. Len(stack) \in 1 .. Len(stack)
  BY TopFacts
<1> QED BY <1>1 DEF DateInv, MadeInv, Made, CurrentOK, FromOK, FramesMade, Top

-----------------------------------------------------------------------------
(* The steps of a build, one by one                                        *)

LEMMA LoadModuleLinks ==
  ASSUME IInv, IInv', DateInv, MadeInv, up, stack # <<>>, LoadModule, UNCHANGED <<sessions, imports>>
  PROVE  DateInv' /\ MadeInv'
<1>1. CASE \E kind \in {"overflow", "no_metadata"} : Fault(kind)
  BY <1>1, FaultLinks
<1>2. CASE ~ \E kind \in {"overflow", "no_metadata"} : Fault(kind)
  <2> DEFINE pc == IF cacheNewer(Top.path) THEN "cached" ELSE "source"
             f == [Top EXCEPT !.pc = pc]
  <2>1. /\ Top.pc = "load" /\ stack' = WithTop(f)
        /\ UNCHANGED <<clock, disk, m_scripts, m_moduleIndices, module, quiet>>
    BY <1>2 DEF LoadModule
  <2>2. pc \in {"cached", "source"} /\ (pc = "cached" => source[Top.path].mtime < m_scripts[Top.path].cached_on)
    BY DEF cacheNewer
  <2> HIDE DEF pc
  <2>3. f \in Frames /\ f.path = Top.path /\ f.pc = pc /\ f.i = Top.i
    BY <2>2, TopFacts DEF Frames
  <2> HIDE DEF f
  <2>4. FrameCurrent(source, m_scripts, f) /\ FrameFrom(f, module)
    BY <2>2, <2>3 DEF FrameCurrent, FrameFrom
  <2>5. ~HasCycle(imports) => FrameMade(f, module)
    BY <2>1, <2>2, <2>3, TopLinks DEF FrameMade
  <2> QED BY <2>1, <2>2, <2>3, <2>4, <2>5, MovesLinks DEF disk
<1> QED BY <1>1, <1>2

LEMMA BuildFromCachedLinks ==
  ASSUME IInv, IInv', QuietOK, DateInv, MadeInv, up, stack # <<>>, BuildFromCached,
         UNCHANGED <<sessions, imports>>
  PROVE  DateInv' /\ MadeInv'
<1>1. CASE Fault("no_compiler")
  BY <1>1, FaultLinks
<1>2. CASE ~Fault("no_compiler")
  <2> DEFINE f == [Top EXCEPT !.pc = "deps", !.entry = cache[Top.path]]
  <2>1. /\ Top.pc = "cached" /\ UNCHANGED <<clock, disk, m_scripts, m_moduleIndices, module, quiet>>
        /\ Missed \/ stack' = WithTop(f)
    BY <1>2 DEF BuildFromCached
  <2>2. /\ cache[Top.path] \in CacheFiles /\ cache[Top.path] # NoFile
        /\ Top \in Frames /\ Top.path \in Paths /\ FrameOK(imports, source, Top)
    BY <2>1, TopFacts DEF IInv, TypeOK, TopOK
  <2>3. f \in Frames /\ f.path = Top.path /\ f.pc = "deps" /\ f.entry = cache[Top.path] /\ f.i = Top.i
    BY <2>2 DEF Frames
  <2> HIDE DEF f
  <2>4. CASE Missed
    BY <2>1, <2>4, MissedLinks DEF disk
  <2>5. CASE stack' = WithTop(f)
    <3>1. ASSUME quiet, Top.path \in Scripts, Calm(f.entry) PROVE f.entry.own = source[Top.path].mtime
      <4>1. source[Top.path].mtime < m_scripts[Top.path].cached_on
        BY <2>1, <3>1, TopLinks DEF FrameCurrent
      <4>2. m_scripts[Top.path] # NoMeta /\ m_scripts[Top.path] \in Metas
        BY <2>2, <3>1 DEF QuietOK, FrameOK, IInv, TypeOK
      <4>3. m_scripts[Top.path].cached_on \in Nat
        BY <4>2, MetaTypes
      <4>4. m_scripts[Top.path].cached_on <= cache[Top.path].mtime
        BY <2>2, <4>2 DEF DateInv, DatesOK, MetasBehind
      <4>5. source[Top.path].mtime \in Nat /\ cache[Top.path].mtime \in Nat
        BY <2>2, <3>1, DateTypes DEF IInv
      <4>6. source[Top.path].mtime < cache[Top.path].mtime
        BY <4>1, <4>3, <4>4, <4>5
      <4> QED BY <2>3, <3>1, <4>6 DEF DateInv, FilesCurrent, FileCurrent
    <3>2. quiet => FrameCurrent(source, m_scripts, f)
      BY <2>3, <3>1 DEF FrameCurrent
    <3>3. FrameFrom(f, module)
      BY <2>3 DEF FrameFrom
    <3>4. ASSUME ~HasCycle(imports) PROVE FrameMade(f, module)
      <4>1. Top.i = 1
        BY <2>1, <3>4, TopLinks DEF FrameMade
      <4>2. Whole(f.entry) => EntryMade(f.path, f.entry)
        BY <2>2, <2>3, <3>4 DEF MadeInv, Made, FilesMade
      <4>3. \A k \in 1 .. Len(f.entry.deps) : ~(k < f.i)
        BY <2>3, <4>1
      <4> QED BY <2>3, <4>2, <4>3 DEF FrameMade
    <3> QED BY <2>1, <2>3, <2>5, <3>2, <3>3, <3>4, MovesLinks DEF disk
  <2> QED BY <2>1, <2>4, <2>5
<1> QED BY <1>1, <1>2

LEMMA AskDependencyLinks ==
  ASSUME IInv, IInv', DateInv, MadeInv, up, stack # <<>>, AskDependency, UNCHANGED <<sessions, imports>>
  PROVE  DateInv' /\ MadeInv'
<1> DEFINE p == Top.entry.deps[Top.i].path
<1>1. /\ getModule(p, stack) /\ AsksDep(Top, p) /\ Top.pc = "deps"
      /\ UNCHANGED <<clock, disk, m_scripts, m_moduleIndices, module, quiet>>
  BY DEF AskDependency, MoreDependencies, AsksDep
<1> HIDE DEF p
<1>2. p \in Paths
  <2>1. p \in Uses(imports, Top.path)
    BY <1>1, TopFacts, AsksUses DEF Asks
  <2> QED BY <2>1, TopFacts, GraphFacts
<1> QED BY <1>1, <1>2, AskedLinks DEF disk

LEMMA AskImportLinks ==
  ASSUME IInv, IInv', DateInv, MadeInv, up, stack # <<>>, AskImport, UNCHANGED <<sessions, imports>>
  PROVE  DateInv' /\ MadeInv'
<1> DEFINE p == imports[Top.path][Top.i]
<1>1. /\ getModule(p, stack) /\ p \in Paths /\ Top.pc = "imports"
      /\ UNCHANGED <<clock, disk, m_scripts, m_moduleIndices, module, quiet>>
  BY DEF AskImport, MoreImports, Paths
<1> HIDE DEF p
<1> QED BY <1>1, AskedLinks DEF disk

LEMMA TakeDependencyLinks ==
  ASSUME IInv, IInv', DateInv, MadeInv, up, stack # <<>>, TakeDependency, UNCHANGED <<sessions, imports>>
  PROVE  DateInv' /\ MadeInv'
<1>0. /\ Top \in Frames /\ Top.pc = "deps" /\ returned \in {Failed} \cup Paths
      /\ UNCHANGED <<clock, disk, m_scripts, m_moduleIndices, module, quiet>>
  BY TopFacts DEF TakeDependency, IInv, TypeOK
<1>1. CASE returned = Failed
  BY <1>0, <1>1, MissedLinks DEF TakeDependency, disk
<1>2. CASE returned # Failed
  <2> DEFINE f == [Top EXCEPT !.i = @ + 1, !.deps = Append(@, returned)]
  <2>1. stack' = WithTop(f) /\ returned \in Paths
    BY <1>0, <1>2 DEF TakeDependency
  <2>2. Top.i \in Nat /\ Top.i + 1 \in Times /\ Append(Top.deps, returned) \in Seq(Paths)
        /\ ToSet(Append(Top.deps, returned)) = ToSet(Top.deps) \cup {returned}
    BY <1>0, <2>1, AppendProperties, AppendSet DEF Frames, Times
  <2>3. /\ f \in Frames /\ f.path = Top.path /\ f.pc = "deps" /\ f.entry = Top.entry
        /\ f.i = Top.i + 1 /\ ToSet(f.deps) = ToSet(Top.deps) \cup {returned}
    BY <1>0, <2>2 DEF Frames
  <2> HIDE DEF f
  <2>4. quiet => FrameCurrent(source, m_scripts, f)
    BY <1>0, <2>3, TopLinks DEF FrameCurrent
  <2>5. FrameFrom(f, module)
    BY <2>3 DEF FrameFrom
  <2>6. ASSUME ~HasCycle(imports) PROVE FrameMade(f, module)
    <3>1. FrameMade(Top, module)
      BY <2>6, TopLinks
    <3>2. AsksDep(Top, returned)
      <4>1. Asks(imports, Top, returned)
        BY <1>0, <2>1, AnswersAssumption DEF IInv, AnswerOK
      <4> QED BY <1>0, <4>1 DEF Asks, AsksImport, AsksTemplate
    <3>3. \A k \in 1 .. Len(f.entry.deps) : k < f.i => k < Top.i \/ k = Top.i
      BY <2>2, <2>3
    <3> QED BY <1>0, <2>3, <3>1, <3>2, <3>3 DEF FrameMade, AsksDep
  <2> QED BY <1>0, <2>1, <2>3, <2>4, <2>5, <2>6, MovesLinks DEF disk
<1> QED BY <1>1, <1>2

LEMMA CompareVersionsLinks ==
  ASSUME IInv, IInv', DateInv, MadeInv, up, stack # <<>>, CompareVersions, UNCHANGED <<sessions, imports>>
  PROVE  DateInv' /\ MadeInv'
<1>0. /\ Top \in Frames /\ Top.path \in Paths /\ FrameOK(imports, source, Top) /\ Top.pc = "deps"
      /\ ~MoreDependencies /\ TypeOK /\ IndexOK
      /\ UNCHANGED <<clock, disk, m_scripts, quiet>>
  BY TopFacts DEF CompareVersions, IInv
<1>1. CASE Missed /\ UNCHANGED <<m_modules, m_moduleIndices, module>>
  BY <1>0, <1>1, MissedLinks DEF disk
<1>2. CASE /\ createModule(Top.path, IF Top.entry.torn THEN 0 ELSE Top.entry.own, "cache")
           /\ stack' = WithTop([Top EXCEPT !.pc = "read", !.m_mod = TRUE])
           /\ ~(~Top.entry.torn /\ versionsDiffer(Top.entry))
           /\ m_moduleIndices[Top.path] = 0
  <2> DEFINE own == IF Top.entry.torn THEN 0 ELSE Top.entry.own
             f == [Top EXCEPT !.pc = "read", !.m_mod = TRUE]
             p == Top.path
  <2>1. own \in Nat
    BY <1>0 DEF FrameOK, Frames, CacheFiles, CutFiles, WholeFiles
  <2>2. createModule(p, own, "cache") /\ stack' = WithTop(f) /\ (~Top.entry.torn => own = Top.entry.own)
        /\ p \in Paths /\ m_moduleIndices[p] = 0
    BY <1>0, <1>2
  <2> HIDE DEF own
  <2>3. /\ f \in Frames /\ f.path = Top.path /\ f.pc = "read" /\ f.entry = Top.entry /\ f.deps = Top.deps
    BY <1>0 DEF Frames
  <2> HIDE DEF f, p
  <2>4. /\ \A d \in Paths : d # p => m_moduleIndices'[d] = m_moduleIndices[d] /\ module'[d] = module[d]
        /\ module'[p] = [own |-> own, from |-> "cache", deps |-> {}, made |-> {}, against |-> {},
                          built |-> FALSE, generated |-> FALSE, didInit |-> FALSE, ran |-> FALSE,
                          trusted |-> FALSE]
    BY <1>0, <2>1, <2>2, CreateProps
  <2>5. OnlyTopChanges /\ Top' = f /\ stack' # <<>>
    BY <2>2, <2>3, <2>4, TopAfter DEF OnlyTopChanges, p
  <2>6. quiet => FrameCurrent(source, m_scripts, f)
    BY <1>0, <2>3, TopLinks DEF FrameCurrent
  <2>7. FrameFrom(f, module')
    BY <2>2, <2>3, <2>4 DEF FrameFrom, p, Whole
  <2>8. ModuleCurrent(source, p, module'[p])
    BY <2>4 DEF ModuleCurrent
  <2>9. DatesOK' /\ FilesCurrent'
    BY <1>0, StayDates DEF DateInv, disk
  <2>10. CurrentOK' /\ FromOK'
    BY <1>0, <2>2, <2>3, <2>5, <2>6, <2>7, <2>8, CurrentStep DEF DateInv, disk, p
  <2>11. ASSUME ~HasCycle(imports) PROVE Made'
    <3>1. FrameMade(f, module')
      <4>1. FrameMade(Top, module)
        BY <2>11, TopLinks
      <4>2. ASSUME Whole(Top.entry), NEW k \in 1 .. Len(Top.entry.deps) PROVE k < Top.i
        <5>1. ~(Top.i <= Len(Top.entry.deps)) /\ Top.i \in Nat
          BY <1>0, <4>2 DEF MoreDependencies, Whole, Frames, Times
        <5>2. Top.entry \in WholeFiles
          BY <1>0, <4>2 DEF Frames, CacheFiles, CutFiles, Whole
        <5>3. Len(Top.entry.deps) \in Nat
          BY <5>2, LenProperties DEF WholeFiles
        <5> QED BY <5>1, <5>3
      <4> QED BY <1>0, <2>3, <4>1, <4>2 DEF FrameMade
    <3>2. BuildMoves({g \in Frames : FrameMade(g, module')})
      BY <2>2, <2>3, <3>1 DEF BuildMoves
    <3>3. OwnMade(module', p) /\ AgainstMade(stack', m_moduleIndices', module', p)
      BY <2>4 DEF OwnMade, AgainstMade
    <3>4. ~module'[p].built
      BY <2>4
    <3>5. FramesMade' /\ ModulesMade' /\ TemplatesMade'
      BY <1>0, <2>3, <2>5, <2>11, <3>2, <3>3, <3>4, MadeStep DEF MadeInv, disk, p
    <3>6. FilesMade'
      BY <1>0, <2>11 DEF MadeInv, Made, FilesMade, disk
    <3>7. TopMade'
      <4>1. Whole(Top.entry) => ~versionsDiffer(Top.entry)
        BY <1>2 DEF Whole
      <4>2. m_scripts' = m_scripts
        BY <1>0
      <4> QED BY <2>3, <2>5, <4>1, <4>2 DEF TopMade, versionsDiffer
    <3> QED BY <3>5, <3>6, <3>7 DEF Made
  <2> QED BY <2>9, <2>10, <2>11 DEF DateInv, MadeInv
<1> QED BY <1>1, <1>2 DEF CompareVersions

(* A trusted module has the contents of its source.                        *)
LEMMA TrustedOwn ==
  ASSUME IInv, DateInv, Made, up, quiet, NEW p \in ModuleIds, module[p].built, module[p].trusted
  PROVE  /\ Root(p) \in Scripts
         /\ module[p].own = source[Root(p)].mtime
<1>1. CASE p \in Templates
  <2>1. Root(p) = Origin[p] /\ Origin[p] \in Scripts
    BY <1>1, GraphAssumption DEF Root
  <2> QED BY <1>1, <2>1 DEF Made, TemplatesMade
<1>2. CASE p \notin Templates
  <2>1. Root(p) = p /\ p \in Scripts
    BY <1>2 DEF Root, ModuleIds, Paths
  <2> QED BY <2>1 DEF DateInv, CurrentOK, ModuleCurrent
<1> QED BY <1>1, <1>2

(* And its version is that of the source, too.                             *)
LEMMA VersionIsDate ==
  ASSUME DateInv, up, quiet, NEW p \in ModuleIds \cap Scripts
  PROVE  m_scripts[p].modified_on = source[p].mtime
BY DEF DateInv, CurrentOK, FromOK

(* A cache file of the versions that are there now was made from the       *)
(* contents that are there now.                                            *)
LEMMA LinkAgainst ==
  ASSUME IInv, DateInv, Made, up, stack # <<>>, ~HasCycle(imports), Top.pc = "read", Whole(Top.entry),
         quiet, Top.entry.quiet, AllTrusted(Top.deps)
  PROVE  /\ \A d \in ToSet(Top.entry.deps) :
              module[d.path].built /\ d.made # {} => <<d.path, module[d.path].own>> \in d.made
         /\ Top.path \in Templates => Top.entry.own = source[Origin[Top.path]].mtime
<1>0. Len(stack) \in 1 .. Len(stack) /\ Top \in Frames
  BY TopFacts
<1>1. FrameMade(Top, module)
  BY <1>0 DEF Made, FramesMade, Top
<1>2. EntryMade(Top.path, Top.entry)
  BY <1>1 DEF FrameMade
<1>3. ASSUME NEW d \in ToSet(Top.entry.deps)
      PROVE  d.path \in ToSet(Top.deps) /\ d.path \in ModuleIds /\ d.version = m_scripts[d.path].modified_on
  <2>1. Top.entry \in WholeFiles
    BY <1>0 DEF Frames, CacheFiles, CutFiles, Whole
  <2>2. Top.entry.deps \in Seq(WrittenDeps)
    BY <2>1 DEF WholeFiles
  <2>3. PICK k \in 1 .. Len(Top.entry.deps) : Top.entry.deps[k] = d
    BY <2>2, ToSetProps
  <2>4. d.path \in ToSet(Top.deps)
    BY <1>1, <2>3 DEF FrameMade
  <2>5. d.path \in ModuleIds
    BY <2>4, RegisteredModules DEF ModuleIds
  <2> QED BY <2>4, <2>5 DEF Made, TopMade, versionsDiffer
<1>4. ASSUME NEW d \in ToSet(Top.entry.deps), module[d.path].built, d.made # {}
      PROVE  <<d.path, module[d.path].own>> \in d.made
  <2>1. PICK e \in ToSet(Top.entry.deps) : e.path = Root(d.path) /\ <<d.path, e.version>> \in d.made
    BY <1>2, <1>4 DEF EntryMade
  <2>2. module[d.path].trusted
    BY <1>3, <1>4 DEF AllTrusted
  <2>3. Root(d.path) \in Scripts /\ module[d.path].own = source[Root(d.path)].mtime
    BY <1>3, <1>4, <2>2, TrustedOwn
  <2>4. e.version = source[Root(d.path)].mtime
    BY <1>3, <2>1, <2>3, VersionIsDate
  <2> QED BY <2>1, <2>3, <2>4
<1>5. ASSUME Top.path \in Templates PROVE Top.entry.own = source[Origin[Top.path]].mtime
  <2>1. PICK e \in ToSet(Top.entry.deps) : e.path = Origin[Top.path] /\ e.version = Top.entry.own
    BY <1>2, <1>5 DEF EntryMade
  <2>2. Origin[Top.path] \in Scripts
    BY <1>5, GraphAssumption
  <2> QED BY <1>3, <2>1, <2>2, VersionIsDate
<1> QED BY <1>4, <1>5

LEMMA LinkLinks ==
  ASSUME IInv, IInv', DateInv, MadeInv, up, stack # <<>>, Link, UNCHANGED <<sessions, imports>>
  PROVE  DateInv' /\ MadeInv'
<1>0. /\ Top.pc = "read" /\ Top.path \in Paths /\ module[Top.path] \in Modules /\ Top \in Frames
      /\ Whole(Top.entry) /\ Top.path \in ModuleIds /\ stack \in Seq(Frames)
  BY TopFacts, RegisteredModules DEF Link, Registered, FrameOK, Whole
<1>1. CASE Fault("no_compiler")
  BY <1>1, FaultLinks
<1>2. CASE ~Fault("no_compiler")
  <2> DEFINE against == {[path |-> d.path, made |-> d.made] : d \in ToSet(Top.entry.deps)}
             trusted == Top.entry.quiet /\ quiet /\ AllTrusted(Top.deps)
             r == [module[Top.path] EXCEPT !.built = TRUE, !.generated = ~errors,
                         !.deps = ToSet(Top.deps), !.made = Top.entry.made,
                         !.against = against, !.trusted = trusted]
             p == Top.path
  <2>1. /\ module' = [module EXCEPT ![p] = r]
        /\ stack' = Front(stack) /\ returned' = Top.path
        /\ UNCHANGED <<clock, disk, m_scripts, m_moduleIndices, quiet>>
    BY <1>2 DEF Link, Return
  <2>2. /\ r.from = module[p].from /\ r.own = module[p].own /\ r.built = TRUE
        /\ r.made = Top.entry.made /\ r.against = against /\ r.trusted = trusted
    BY <1>0 DEF Modules
  <2> HIDE DEF r
  <2>3. module'[p] = r /\ \A d \in Paths : d # p => module'[d] = module[d]
    BY <1>0, <2>1 DEF IInv, TypeOK
  <2>4. OnlyTopChanges
    BY <2>1, <2>3 DEF OnlyTopChanges
  <2>5. FrameFrom(Top, module)
    BY TopLinks
  <2>6. r.own = Top.entry.own /\ r.from = "cache"
    BY <1>0, <2>2, <2>5 DEF FrameFrom
  <2>7. quiet /\ p \in Scripts => ModuleCurrent(source, p, module'[p])
    <3> SUFFICES ASSUME quiet, p \in Scripts, r.trusted PROVE r.own = source[p].mtime
      BY <2>3, <2>6 DEF ModuleCurrent
    <3>1. Calm(Top.entry)
      BY <1>0, <2>2 DEF Calm
    <3>2. FrameCurrent(source, m_scripts, Top)
      BY TopLinks
    <3> QED BY <1>0, <2>6, <3>1, <3>2 DEF FrameCurrent
  <2>8. DatesOK' /\ FilesCurrent'
    BY <2>1, StayDates DEF DateInv, disk
  <2>9. CurrentOK' /\ FromOK'
    BY <2>1, <2>4, <2>7, CurrentStep DEF DateInv, disk
  <2>10. ASSUME ~HasCycle(imports) PROVE Made'
    <3>0. Made /\ FrameMade(Top, module)
      BY <2>10, TopLinks DEF MadeInv
    <3>1. BuildMoves(Frames) /\ BuildMoves({f \in Frames : FrameMade(f, module')})
      BY <2>1 DEF BuildMoves
    <3>2. OwnMade(module', p)
      BY <1>0, <2>2, <2>3, <2>6, <3>0 DEF OwnMade, FrameMade, EntryMade
    <3>3. AgainstMade(stack', m_moduleIndices', module', p)
      <4>0. \A a \in r.against : \E d \in ToSet(Top.entry.deps) : a = [path |-> d.path, made |-> d.made]
        BY <2>2
      <4> SUFFICES ASSUME NEW a \in r.against, NEW d \in ToSet(Top.entry.deps),
                          a = [path |-> d.path, made |-> d.made]
                   PROVE  /\ Settled(stack', m_moduleIndices', a.path)
                          /\ r.trusted /\ module'[a.path].built /\ a.made # {} =>
                               <<a.path, module'[a.path].own>> \in a.made
        BY <2>3, <2>6, <4>0 DEF AgainstMade
      <4>9. a.path = d.path /\ a.made = d.made
        OBVIOUS
      <4> HIDE DEF against, trusted
      <4>1. d.path \in ToSet(Top.deps)
        <5>1. Top.entry \in WholeFiles
          BY <1>0 DEF Frames, CacheFiles, CutFiles, Whole
        <5>2. Top.entry.deps \in Seq(WrittenDeps)
          BY <5>1 DEF WholeFiles
        <5>3. PICK k \in 1 .. Len(Top.entry.deps) : Top.entry.deps[k] = d
          BY <5>2, ToSetProps
        <5> QED BY <1>0, <3>0, <5>3 DEF FrameMade
      <4>2. d.path \in Paths /\ Settled(stack, m_moduleIndices, d.path)
        BY <2>10, <4>1, UsedIsSettled DEF Settled
      <4>3. m_moduleIndices'[d.path] = m_moduleIndices[d.path]
        BY <2>1
      <4>4. Settled(stack', m_moduleIndices', d.path)
        BY <3>1, <4>2, <4>3, StaysSettled
      <4>5. d.path # p
        <5>1. Len(stack) \in 1 .. Len(stack)
          BY TopFacts
        <5> QED BY <4>2, <5>1 DEF Settled, Top
      <4>6. module'[d.path] = module[d.path]
        BY <2>3, <4>2, <4>5
      <4>7. r.trusted => quiet /\ Top.entry.quiet /\ AllTrusted(Top.deps)
        BY <2>2 DEF trusted
      <4> QED BY <1>0, <2>10, <3>0, <4>9, <4>4, <4>6, <4>7, LinkAgainst
    <3>4. quiet /\ p \in Templates /\ r.trusted => r.own = source[Origin[p]].mtime
      BY <1>0, <2>2, <2>6, <2>10, <3>0, LinkAgainst
    <3>5. module'[p].built
      BY <2>2, <2>3
    <3>6. FramesMade' /\ ModulesMade' /\ TemplatesMade'
      BY <2>1, <2>3, <2>4, <2>10, <3>0, <3>1, <3>2, <3>3, <3>4, <3>5, MadeStep DEF disk
    <3>7. FilesMade'
      BY <2>1, <3>0 DEF Made, FilesMade, disk
    <3>8. TopMade'
      BY <1>0, <2>1, AnswersAssumption DEF IInv, AnswerOK, TopMade
    <3> QED BY <3>6, <3>7, <3>8 DEF Made
  <2> QED BY <2>8, <2>9, <2>10 DEF DateInv, MadeInv
<1> QED BY <1>1, <1>2

LEMMA LinkFailsLinks ==
  ASSUME IInv, IInv', DateInv, MadeInv, up, stack # <<>>, LinkFails, UNCHANGED <<sessions, imports>>
  PROVE  DateInv' /\ MadeInv'
<1> DEFINE p == Top.path
<1>0. /\ Top.pc = "read" /\ p \in Paths /\ p \in ModuleIds /\ m_moduleIndices[p] = Len(m_modules)
      /\ (Top.caller = "load" <=> p \in Scripts) /\ TypeOK /\ IndexOK
  BY TopFacts, RegisteredModules DEF LinkFails, Registered, IInv, TopOK, FrameOK
<1>1. /\ cache' = [cache EXCEPT ![p] = NoFile]
      /\ UNCHANGED <<clock, source, last_state, quiet>>
  BY DEF LinkFails
<1>2. cache'[p] = NoFile /\ \A d \in Paths : d # p => cache'[d] = cache[d]
  BY <1>0, <1>1 DEF TypeOK
<1>3. FilesCurrent' /\ (~HasCycle(imports) => FilesMade')
  <2>1. FilesCurrent'
    BY <1>1, <1>2 DEF DateInv, FilesCurrent, FileCurrent, Calm, Whole, Paths
  <2>2. ASSUME ~HasCycle(imports) PROVE FilesMade'
    BY <1>2, <2>2 DEF MadeInv, Made, FilesMade, Whole
  <2> QED BY <2>1, <2>2
<1>4. /\ \A d \in Scripts : source'[d].mtime <= clock'
      /\ \A d \in Paths : cache'[d].mtime <= clock'
      /\ last_state'.kind = "metas" => MetasBehind(last_state'.metas, source', cache', clock')
  <2>1. NoFile.mtime <= clock
    BY DateTypes DEF NoFile, IInv
  <2> QED BY <1>1, <1>2, <2>1 DEF DateInv, DatesOK, MetasBehind
<1> HIDE DEF p
<1>5. CASE Top.caller = "load"
  <2>1. EmptyMemory /\ up' = FALSE
    BY <1>5 DEF LinkFails
  <2> QED BY <1>3, <1>4, <2>1, StopLinks
<1>6. CASE Top.caller # "load"
  <2>1. /\ m_scripts' = [m_scripts EXCEPT ![p] = NoMeta]
        /\ destroyModule(p) /\ Missed
        /\ UNCHANGED up
    BY <1>6 DEF LinkFails, p
  <2>2. m_scripts'[p] = NoMeta /\ \A d \in Paths : d # p => m_scripts'[d] = m_scripts[d]
    BY <1>0, <2>1 DEF TypeOK
  <2>3. /\ \A d \in Paths : d # p => m_moduleIndices'[d] = m_moduleIndices[d] /\ module'[d] = module[d]
        /\ p \notin ModuleIds'
    BY <1>0, <2>1, DestroyProps DEF ModuleIds
  <2>4. OnlyTopChanges
    BY <2>3 DEF OnlyTopChanges, p
  <2>5. p \notin Scripts /\ \A d \in Scripts : d \in Paths /\ m_scripts'[d] = m_scripts[d]
    BY <1>0, <1>6, <2>2 DEF Paths
  <2>6. \/ stack' = Front(stack) /\ returned' # Nothing
        \/ \E f \in Frames : /\ f.pc \in {"source", "remake"}
                             /\ stack' = WithTop(f) /\ f.path = Top.path
                             /\ FrameCurrent(source, m_scripts', f) /\ FrameFrom(f, module')
                             /\ FrameMade(f, module')
    BY <1>6, <2>1, MissedFrames, PlainFrame
  <2>7. DatesOK'
    <3>1. MetasBehind(m_scripts', source', cache', clock')
      BY <1>1, <1>2, <2>2 DEF DateInv, DatesOK, MetasBehind
    <3> QED BY <1>4, <3>1 DEF DatesOK
  <2>8. CurrentOK' /\ FromOK'
    BY <1>1, <2>3, <2>4, <2>5, <2>6, CurrentStep DEF DateInv, p
  <2>9. ASSUME ~HasCycle(imports) PROVE Made'
    <3>1. BuildMoves({f \in Frames : FrameMade(f, module')})
      BY <2>6 DEF BuildMoves
    <3>2. FramesMade' /\ ModulesMade' /\ TemplatesMade'
      BY <1>1, <2>3, <2>4, <2>9, <3>1, MadeStep DEF MadeInv, p
    <3>3. TopMade'
      <4>1. stack' # <<>> => Top'.pc \notin {"read", "save"}
        BY <2>6, TopAfter DEF IInv, AnswerOK
      <4> QED BY <4>1 DEF TopMade
    <3> QED BY <1>3, <2>9, <3>2, <3>3 DEF Made
  <2> QED BY <1>3, <2>7, <2>8, <2>9 DEF DateInv, MadeInv
<1> QED BY <1>5, <1>6

LEMMA BuildFromSourceLinks ==
  ASSUME IInv, IInv', QuietOK, OrderInv, DateInv, MadeInv, up, stack # <<>>, BuildFromSource,
         UNCHANGED <<sessions, imports>>
  PROVE  DateInv' /\ MadeInv'
<1>0. /\ Top \in Frames /\ FrameOK(imports, source, Top) /\ Top.pc = "source" /\ Top.path \in Paths
      /\ Top.path \in Scripts /\ source[Top.path] # NoFile /\ TypeOK /\ IndexOK
  BY TopFacts DEF BuildFromSource, FrameOK, IInv
<1>1. CASE Fault("no_compiler")
  BY <1>1, FaultLinks
<1>2. CASE ~Fault("no_compiler")
  <2> DEFINE version == getSource(Top.path)[Top.path]
             fresh == m_moduleIndices[Top.path] = 0
             p == Top.path
  <2>1. /\ \/ Return(Failed) /\ UNCHANGED <<m_modules, m_moduleIndices, module>>
           \/ \E illTyped \in BOOLEAN :
                /\ createModule(p, version, "source")
                /\ stack' = WithTop([Top EXCEPT !.pc = "imports", !.own = version, !.m_mod = fresh,
                                                !.illTyped = illTyped])
        /\ UNCHANGED <<clock, disk, up, m_scripts, quiet>>
    BY <1>2 DEF BuildFromSource
  <2>2. version \in Nat /\ fresh \in BOOLEAN
    BY <1>0, getSourceType
  <2>3. quiet => version = source[p].mtime
    BY <1>0 DEF QuietOK, getSource, TypeOK
  <2> HIDE DEF version
  <2>4. CASE Return(Failed) /\ UNCHANGED <<m_modules, m_moduleIndices, module>>
    <3>1. stack' = Front(stack) /\ returned' # Nothing
      BY <2>4 DEF Return, Failed, Nothing
    <3> QED BY <1>0, <2>1, <2>4, <3>1, MovesLinks DEF disk
  <2>5. ASSUME NEW illTyped \in BOOLEAN, createModule(p, version, "source"),
               stack' = WithTop([Top EXCEPT !.pc = "imports", !.own = version, !.m_mod = fresh,
                                            !.illTyped = illTyped])
        PROVE  DateInv' /\ MadeInv'
    <3> DEFINE f == [Top EXCEPT !.pc = "imports", !.own = version, !.m_mod = fresh, !.illTyped = illTyped]
    <3>1. /\ f \in Frames /\ f.path = p /\ f.pc = "imports" /\ f.own = version /\ f.deps = Top.deps
          /\ f.m_mod = fresh /\ stack' = WithTop(f)
      BY <1>0, <2>2, <2>5 DEF Frames
    <3> HIDE DEF f
    <3>2. quiet => FrameCurrent(source, m_scripts, f)
      BY <2>3, <3>1 DEF FrameCurrent
    <3>3. ASSUME ~HasCycle(imports), NEW mods PROVE FrameMade(f, mods)
      <4>1. Top.deps = <<>>
        BY <1>0, <3>3, TopKnown DEF FrameKnown, Registered, OrderInv
      <4>2. ToSet(f.deps) = {}
        BY <3>1, <4>1 DEF ToSet
      <4>3. p \notin Templates
        BY <1>0, GraphAssumption
      <4> QED BY <3>1, <4>2, <4>3 DEF FrameMade
    <3>4. CASE ~fresh
      <4>1. UNCHANGED <<m_moduleIndices, module>>
        BY <2>5, <3>4 DEF createModule
      <4>2. FrameFrom(f, module)
        BY <3>1, <3>4 DEF FrameFrom
      <4> QED BY <1>0, <2>1, <3>1, <3>2, <3>3, <4>1, <4>2, MovesLinks DEF disk
    <3>5. CASE fresh
      <4>1. /\ \A d \in Paths : d # p => m_moduleIndices'[d] = m_moduleIndices[d] /\ module'[d] = module[d]
            /\ module'[p] = [own |-> version, from |-> "source", deps |-> {}, made |-> {}, against |-> {},
                              built |-> FALSE, generated |-> FALSE, didInit |-> FALSE, ran |-> FALSE,
                              trusted |-> FALSE]
        BY <1>0, <2>2, <2>5, <3>5, CreateProps
      <4>2. Top' = f /\ stack' # <<>>
        BY <3>1, TopAfter
      <4>3. OnlyTopChanges /\ Top' = f /\ stack' # <<>>
        BY <4>1, <4>2 DEF OnlyTopChanges
      <4>4. FrameFrom(f, module')
        BY <3>1, <4>1 DEF FrameFrom
      <4>5. (quiet => FrameCurrent(source, m_scripts', f)) /\ FrameFrom(f, module')
        BY <2>1, <3>2, <4>4
      <4>6. quiet => ModuleCurrent(source, p, module'[p])
        BY <2>3, <4>1 DEF ModuleCurrent
      <4>7. DatesOK' /\ FilesCurrent'
        BY <2>1, StayDates DEF DateInv, disk
      <4>8. CurrentOK' /\ FromOK'
        BY <2>1, <3>1, <4>3, <4>5, <4>6, CurrentStep DEF DateInv, disk
      <4>9. ASSUME ~HasCycle(imports) PROVE Made'
        <5>1. BuildMoves({g \in Frames : FrameMade(g, module')})
          BY <3>1, <3>3, <4>9 DEF BuildMoves
        <5>2. OwnMade(module', p) /\ AgainstMade(stack', m_moduleIndices', module', p)
          BY <4>1 DEF OwnMade, AgainstMade
        <5>3. module'[p].from = "source" /\ ~module'[p].built
          BY <4>1
        <5>4. FramesMade' /\ ModulesMade' /\ TemplatesMade'
          BY <2>1, <4>3, <4>9, <5>1, <5>2, <5>3, MadeStep DEF MadeInv, disk
        <5>5. FilesMade'
          BY <2>1, <4>9 DEF MadeInv, Made, FilesMade, disk
        <5>6. TopMade'
          BY <3>1, <4>3 DEF TopMade
        <5> QED BY <5>4, <5>5, <5>6 DEF Made
      <4> QED BY <4>7, <4>8, <4>9 DEF DateInv, MadeInv
    <3> QED BY <3>4, <3>5
  <2> QED BY <2>1, <2>4, <2>5
<1> QED BY <1>1, <1>2

LEMMA TakeImportLinks ==
  ASSUME IInv, IInv', DateInv, MadeInv, up, stack # <<>>, TakeImport, UNCHANGED <<sessions, imports>>
  PROVE  DateInv' /\ MadeInv'
<1>0. /\ Top \in Frames /\ Top.pc = "imports" /\ returned \in {Failed} \cup Paths /\ MoreImports
      /\ Top.path \in Paths
  BY TopFacts DEF TakeImport, TakeImportOf, IInv, TypeOK
<1>1. UNCHANGED <<clock, disk, up, m_scripts, m_moduleIndices, quiet>>
  BY DEF TakeImport, TakeImportOf
<1>2. PICK deps \in Seq(Paths) :
        /\ stack' = WithTop([Top EXCEPT !.i = @ + 1, !.deps = deps])
        /\ ToSet(deps) \subseteq ToSet(Top.deps) \cup ({returned} \cap Scripts)
        /\ ToSet(Top.deps) \subseteq ToSet(deps)
  <2>1. CASE returned = Failed
    <3>1. stack' = WithTop([Top EXCEPT !.i = @ + 1])
      BY <2>1 DEF TakeImport, TakeImportOf
    <3>2. [Top EXCEPT !.i = @ + 1] = [Top EXCEPT !.i = @ + 1, !.deps = Top.deps] /\ Top.deps \in Seq(Paths)
      BY <1>0 DEF Frames
    <3> QED BY <3>1, <3>2
  <2>2. CASE returned # Failed
    <3>1. stack' = WithTop([Top EXCEPT !.i = @ + 1, !.deps = addDependency(@, returned)])
      BY <2>2 DEF TakeImport, TakeImportOf
    <3>2. returned \in Paths /\ Top.deps \in Seq(Paths)
      BY <1>0, <2>2 DEF Frames
    <3>3. returned \in Scripts
      <4>1. Asks(imports, Top, returned)
        BY <1>0, <3>2, AnswersAssumption DEF IInv, AnswerOK
      <4> QED BY <1>0, <4>1 DEF Asks, AsksDep, AsksImport, AsksTemplate, ImportsLeft, MoreImports
    <3>4. /\ addDependency(Top.deps, returned) \in Seq(Paths)
          /\ ToSet(addDependency(Top.deps, returned)) \subseteq ToSet(Top.deps) \cup {returned}
          /\ ToSet(Top.deps) \subseteq ToSet(addDependency(Top.deps, returned))
      BY <3>2, AppendProperties, AppendSet DEF addDependency
    <3> QED BY <3>1, <3>3, <3>4
  <2> QED BY <2>1, <2>2
<1>3. \A d \in Paths : module'[d] = module[d] \/ (d = returned /\ module'[d] = Initialised(module[d]))
  <2>1. module' = module \/ module' = [module EXCEPT ![returned] = Initialised(@)]
    BY DEF TakeImport, TakeImportOf
  <2> QED BY <2>1 DEF IInv, TypeOK
<1>4. OnlyTopChanges /\ SameModule(Top.path)
  BY <1>0, <1>1, <1>3 DEF OnlyTopChanges, SameModule
<1>5. \A d \in Paths : module'[d].own = module[d].own /\ module'[d].from = module[d].from
  BY <1>3, InitialisedKeeps
<1> DEFINE f == [Top EXCEPT !.i = @ + 1, !.deps = deps]
<1>6. Top.i + 1 \in Times
  BY <1>0 DEF Frames, Times
<1>7. /\ f \in Frames /\ f.path = Top.path /\ f.pc = "imports" /\ f.own = Top.own /\ f.deps = deps
      /\ f.m_mod = Top.m_mod
      /\ stack' = WithTop(f)
  BY <1>0, <1>2, <1>6 DEF Frames
<1> HIDE DEF f
<1>8. quiet => FrameCurrent(source, m_scripts', f)
  BY <1>0, <1>1, <1>7, TopLinks DEF FrameCurrent
<1>9. FrameFrom(f, module')
  BY <1>0, <1>5, <1>7, TopLinks DEF FrameFrom
<1>10. quiet /\ Top.path \in ModuleIds' \cap Scripts => ModuleCurrent(source, Top.path, module'[Top.path])
  <2>1. ASSUME Top.path \in ModuleIds' PROVE Top.path \in ModuleIds
    BY <1>1, <2>1 DEF ModuleIds
  <2>2. module'[Top.path].built = module[Top.path].built /\ module'[Top.path].trusted = module[Top.path].trusted
    BY <1>4, SameFields
  <2> QED BY <1>0, <1>5, <2>1, <2>2 DEF DateInv, CurrentOK, ModuleCurrent
<1>11. DatesOK' /\ FilesCurrent'
  BY <1>1, StayDates DEF DateInv, disk
<1>12. CurrentOK' /\ FromOK'
  BY <1>1, <1>4, <1>7, <1>8, <1>9, <1>10, CurrentStep DEF DateInv, disk
<1>13. ASSUME ~HasCycle(imports) PROVE Made'
  <2>1. FrameMade(f, module')
    <3>1. FrameMade(Top, module)
      BY <1>13, TopLinks
    <3>2. Top.path \notin Templates /\ Scripts \cap Templates = {}
      BY <1>0, GraphAssumption DEF MoreImports
    <3>3. \A d \in ToSet(f.deps) \cap Templates : d \in ToSet(Top.deps) \cap Templates
      BY <1>2, <1>7, <3>2
    <3> QED BY <1>0, <1>2, <1>7, <3>1, <3>2, <3>3 DEF FrameMade
  <2>2. BuildMoves({g \in Frames : FrameMade(g, module')})
    BY <1>7, <2>1 DEF BuildMoves
  <2>3. FramesMade' /\ ModulesMade' /\ TemplatesMade'
    BY <1>0, <1>1, <1>4, <1>13, <2>2, MadeStep DEF MadeInv, disk
  <2>4. FilesMade'
    BY <1>1, <1>13 DEF MadeInv, Made, FilesMade, disk
  <2>5. TopMade'
    BY <1>7, TopAfter DEF TopMade
  <2> QED BY <2>3, <2>4, <2>5 DEF Made
<1> QED BY <1>11, <1>12, <1>13 DEF DateInv, MadeInv

LEMMA CompileErrorLinks ==
  ASSUME IInv, IInv', DateInv, MadeInv, up, stack # <<>>, CompileError, UNCHANGED <<sessions, imports>>
  PROVE  DateInv' /\ MadeInv'
<1> DEFINE f == [Top EXCEPT !.illTyped = FALSE]
<1>1. /\ Top \in Frames /\ Top.pc = "imports" /\ stack' = WithTop(f)
      /\ UNCHANGED <<clock, disk, m_scripts, m_moduleIndices, module, quiet>>
  BY TopFacts DEF CompileError
<1>2. /\ f \in Frames /\ f.path = Top.path /\ f.pc = "imports" /\ f.own = Top.own /\ f.deps = Top.deps
      /\ f.m_mod = Top.m_mod
  BY <1>1 DEF Frames
<1> HIDE DEF f
<1>3. quiet => FrameCurrent(source, m_scripts, f)
  BY <1>1, <1>2, TopLinks DEF FrameCurrent
<1>4. FrameFrom(f, module)
  BY <1>1, <1>2, TopLinks DEF FrameFrom
<1>5. ~HasCycle(imports) => FrameMade(f, module)
  BY <1>1, <1>2, TopLinks DEF FrameMade
<1> QED BY <1>1, <1>2, <1>3, <1>4, <1>5, MovesLinks DEF disk

LEMMA TakeSpecializationLinks ==
  ASSUME IInv, IInv', DateInv, MadeInv, up, stack # <<>>, TakeSpecialization,
         UNCHANGED <<sessions, imports>>
  PROVE  DateInv' /\ MadeInv'
<1>0. /\ Top \in Frames /\ Top.pc = "imports" /\ returned \in {Failed} \cup Paths /\ ~MoreImports
      /\ returned # Nothing
      /\ UNCHANGED <<clock, disk, up, m_scripts, m_moduleIndices, module, quiet>>
  BY TopFacts DEF TakeSpecialization, IInv, TypeOK
<1>1. ~ImportsLeft(imports, Top)
  BY <1>0 DEF ImportsLeft, MoreImports
<1>2. returned \in Paths
  BY <1>0, <1>1 DEF IInv, AnswerOK
<1>3. AsksTemplate(imports, Top, returned)
  <2>1. Asks(imports, Top, returned)
    BY <1>0, <1>2 DEF IInv, AnswerOK
  <2> QED BY <1>0, <1>1, <2>1 DEF Asks, AsksDep, AsksImport
<1> DEFINE f == [Top EXCEPT !.deps = Append(@, returned)]
<1>4. stack' = WithTop(f)
  BY DEF TakeSpecialization
<1>5. /\ Append(Top.deps, returned) \in Seq(Paths)
      /\ ToSet(Append(Top.deps, returned)) = ToSet(Top.deps) \cup {returned}
  BY <1>0, <1>2, AppendProperties, AppendSet DEF Frames
<1>6. /\ f \in Frames /\ f.path = Top.path /\ f.pc = "imports" /\ f.own = Top.own /\ f.m_mod = Top.m_mod
      /\ ToSet(f.deps) = ToSet(Top.deps) \cup {returned}
  BY <1>0, <1>5 DEF Frames
<1> HIDE DEF f
<1>7. quiet => FrameCurrent(source, m_scripts, f)
  BY <1>0, <1>6, TopLinks DEF FrameCurrent
<1>8. FrameFrom(f, module)
  BY <1>0, <1>6, TopLinks DEF FrameFrom
<1>9. ~HasCycle(imports) => FrameMade(f, module)
  BY <1>0, <1>3, <1>6, TopLinks DEF FrameMade, AsksTemplate
<1> QED BY <1>0, <1>4, <1>6, <1>7, <1>8, <1>9, MovesLinks DEF disk

LEMMA SpecializeLinks ==
  ASSUME IInv, IInv', DateInv, MadeInv, up, stack # <<>>, Specialize, UNCHANGED <<sessions, imports>>
  PROVE  DateInv' /\ MadeInv'
<1>0. /\ Top \in Frames /\ Top.pc = "imports" /\ Top.path \in Paths
      /\ UNCHANGED <<clock, disk, up, m_moduleIndices, module, quiet>>
  BY TopFacts DEF Specialize
<1>1. PICK t \in Wanted :
         IF m_moduleIndices[t] # 0
         THEN /\ returned' = t
              /\ UNCHANGED <<stack, m_scripts>>
         ELSE /\ m_scripts' = IF m_scripts[t] # NoMeta THEN m_scripts
                              ELSE [m_scripts EXCEPT ![t] = [modified_on |-> 0, cached_on |-> 0]]
              /\ stack' = Append(stack, Frame(t, IF cache[t] = NoFile THEN "remake" ELSE "cached",
                                              "specialize"))
              /\ UNCHANGED returned
  BY DEF Specialize
<1>2. t \in Paths /\ t \in Templates /\ t \notin Scripts
  BY GraphAssumption DEF Wanted, Paths
<1>3. CASE m_moduleIndices[t] # 0
  <2>1. returned' # Nothing /\ stack' = stack /\ m_scripts' = m_scripts
    BY <1>1, <1>2, <1>3, AnswersAssumption
  <2> QED BY <1>0, <2>1, MovesLinks DEF disk
<1>4. CASE m_moduleIndices[t] = 0
  <2> DEFINE pc == IF cache[t] = NoFile THEN "remake" ELSE "cached"
             f == Frame(t, pc, "specialize")
             meta == [modified_on |-> 0, cached_on |-> 0]
  <2>1. /\ stack' = Append(stack, f)
        /\ m_scripts' = m_scripts \/ m_scripts' = [m_scripts EXCEPT ![t] = meta]
    BY <1>1, <1>4
  <2>2. \A d \in Paths : m_scripts'[d] = m_scripts[d] \/ (d = t /\ m_scripts'[d] = meta)
    BY <2>1 DEF IInv, TypeOK
  <2>3. pc \in {"remake", "cached"}
    OBVIOUS
  <2> HIDE DEF pc
  <2>4. f \in Frames /\ f.path = t /\ f.pc = pc /\ f.i = 1 /\ f.deps = <<>>
    BY <1>2, <2>3 DEF Frame, Frames, Times
  <2> HIDE DEF f
  <2>5. FrameCurrent(source, m_scripts', f) /\ FrameFrom(f, module') /\ FrameMade(f, module')
    BY <1>2, <2>3, <2>4 DEF FrameCurrent, FrameFrom, FrameMade
  <2>6. OnlyTopChanges /\ SameModule(Top.path)
    BY <1>0 DEF OnlyTopChanges, SameModule
  <2>7. DatesOK'
    <3>1. MetasBehind(m_scripts', source, cache, clock)
      <4>1. /\ meta.cached_on = 0 /\ 0 <= clock /\ \A d \in Paths : 0 <= cache[d].mtime
        BY DateTypes DEF IInv
      <4>2. MetasBehind(m_scripts, source, cache, clock)
        BY DEF DateInv, DatesOK
      <4> HIDE DEF meta
      <4> QED BY <1>2, <2>2, <4>1, <4>2 DEF MetasBehind
    <3> QED BY <1>0, <3>1 DEF DateInv, DatesOK, disk
  <2>8. FilesCurrent'
    BY <1>0 DEF DateInv, FilesCurrent, disk
  <2>9. \A d \in Scripts : m_scripts'[d] = m_scripts[d]
    BY <1>2, <2>2 DEF Paths
  <2>10. quiet /\ Top.path \in ModuleIds' \cap Scripts => ModuleCurrent(source, Top.path, module'[Top.path])
    BY <1>0 DEF DateInv, CurrentOK, ModuleIds
  <2>11. CurrentOK' /\ FromOK'
    BY <1>0, <2>1, <2>4, <2>5, <2>6, <2>9, <2>10, CurrentStep DEF DateInv, disk
  <2>12. ASSUME ~HasCycle(imports) PROVE Made'
    <3>1. BuildMoves({g \in Frames : FrameMade(g, module')})
      BY <1>4, <2>1, <2>4, <2>5 DEF BuildMoves
    <3>2. FramesMade' /\ ModulesMade' /\ TemplatesMade'
      BY <1>0, <2>6, <2>12, <3>1, MadeStep DEF MadeInv, disk
    <3>3. FilesMade'
      BY <1>0, <2>12 DEF MadeInv, Made, FilesMade, disk
    <3>4. TopMade'
      BY <2>1, <2>3, <2>4, TopAfter DEF TopMade
    <3> QED BY <3>2, <3>3, <3>4 DEF Made
  <2> QED BY <2>7, <2>8, <2>11, <2>12 DEF DateInv, MadeInv
<1> QED BY <1>3, <1>4

(* Time passes.                                                            *)
LEMMA LaterMetas ==
  ASSUME NEW metas \in [Paths -> Metas], NEW src, NEW files, NEW t \in Nat, NEW t2 \in Nat, t <= t2,
         MetasBehind(metas, src, files, t)
  PROVE  MetasBehind(metas, src, files, t2)
<1>1. ASSUME NEW p \in Paths, metas[p] # NoMeta PROVE metas[p].cached_on <= t2
  <2>1. metas[p].cached_on \in Nat /\ metas[p].cached_on <= t
    BY <1>1, MetaTypes DEF MetasBehind
  <2> QED BY <2>1
<1> QED BY <1>1 DEF MetasBehind

LEMMA LaterDates ==
  ASSUME IInv, DatesOK, clock' \in Now, source' = source, last_state' = last_state
  PROVE  /\ clock \in Nat /\ clock' \in Nat /\ clock <= clock'
         /\ \A p \in Scripts : source'[p].mtime <= clock'
         /\ \A p \in Paths : cache[p].mtime <= clock'
         /\ MetasBehind(m_scripts, source, cache, clock')
         /\ last_state'.kind = "metas" => MetasBehind(last_state'.metas, source, cache, clock')
<1>1. clock \in Nat /\ clock' \in Nat /\ clock <= clock'
  BY DateTypes DEF IInv, Now
<1>2. /\ \A p \in Scripts : source[p].mtime \in Nat
      /\ \A p \in Paths : cache[p].mtime \in Nat
  BY DateTypes DEF IInv
<1>3. (\A p \in Scripts : source'[p].mtime <= clock') /\ (\A p \in Paths : cache[p].mtime <= clock')
  BY <1>1, <1>2 DEF DatesOK
<1>4. MetasBehind(m_scripts, source, cache, clock')
  BY <1>1, LaterMetas DEF DatesOK, IInv, TypeOK
<1>5. ASSUME last_state.kind = "metas" PROVE MetasBehind(last_state.metas, source, cache, clock')
  <2>1. last_state.metas \in [Paths -> Metas]
    BY <1>5 DEF IInv, TypeOK, NoState, TornState
  <2> QED BY <1>1, <1>5, <2>1, LaterMetas DEF DatesOK
<1> QED BY <1>1, <1>3, <1>4, <1>5

LEMMA RemakeLinks ==
  ASSUME IInv, IInv', DateInv, MadeInv, up, stack # <<>>, Remake, UNCHANGED <<sessions, imports>>
  PROVE  DateInv' /\ MadeInv'
<1> DEFINE p == Top.path
           q == Origin[p]
           own == module[q].own
           fresh == m_moduleIndices[p] = 0
           f == [Top EXCEPT !.pc = "imports", !.deps = <<q>>, !.own = own, !.m_mod = fresh]
           meta == [modified_on |-> clock', cached_on |-> IF m_scripts[p] = NoMeta THEN 0
                                                          ELSE m_scripts[p].cached_on]
<1>0. /\ Top \in Frames /\ p \in Paths /\ p \in Templates /\ p \notin Scripts /\ Top.pc = "remake"
      /\ q \in ModuleIds /\ q \in Paths /\ q \in Scripts /\ q # p /\ q \notin Templates
      /\ TypeOK /\ IndexOK
  BY TopFacts, OriginIsThere, GraphAssumption DEF Remake, FrameOK, IInv, ModuleIds
<1>1. /\ clock' \in Now
      /\ m_scripts' = [m_scripts EXCEPT ![p] = meta]
      /\ createModule(p, own, "source")
      /\ stack' = WithTop(f)
      /\ UNCHANGED <<disk, up, quiet>>
  BY DEF Remake
<1>2. own \in Nat
  BY <1>0 DEF TypeOK, Modules
<1> HIDE DEF own
<1>3. /\ \A d \in Paths : d # p => m_moduleIndices'[d] = m_moduleIndices[d] /\ module'[d] = module[d]
      /\ fresh => module'[p] = [own |-> own, from |-> "source", deps |-> {}, made |-> {}, against |-> {},
                                 built |-> FALSE, generated |-> FALSE, didInit |-> FALSE, ran |-> FALSE,
                                 trusted |-> FALSE]
      /\ ~fresh => m_moduleIndices' = m_moduleIndices /\ module' = module
  <2>1. CASE fresh
    BY <1>0, <1>1, <1>2, <2>1, CreateProps
  <2>2. CASE ~fresh
    BY <1>1, <2>2 DEF createModule
  <2> QED BY <2>1, <2>2
<1>4. /\ f \in Frames /\ f.path = p /\ f.pc = "imports" /\ f.own = own /\ f.deps = <<q>>
      /\ f.m_mod = fresh
  <2>1. <<q>> \in Seq(Paths)
    BY <1>0
  <2> QED BY <1>0, <1>2, <2>1 DEF Frames
<1> HIDE DEF f
<1>5. ToSet(f.deps) = {q}
  BY <1>4 DEF ToSet
<1>6. module'[q].own = own /\ (fresh => module'[p].own = own /\ module'[p].from = "source")
  BY <1>0, <1>3 DEF own
<1>7. OnlyTopChanges
  BY <1>3 DEF OnlyTopChanges
<1>8. FrameCurrent(source, m_scripts', f) /\ FrameFrom(f, module') /\ FrameMade(f, module')
  BY <1>0, <1>4, <1>5, <1>6 DEF FrameCurrent, FrameFrom, FrameMade
<1>9. m_scripts'[p] = meta /\ \A d \in Paths : d # p => m_scripts'[d] = m_scripts[d]
  BY <1>0, <1>1 DEF TypeOK
<1>10. \A d \in Scripts : d \in Paths /\ m_scripts'[d] = m_scripts[d]
  BY <1>0, <1>9 DEF Paths
<1>11. DatesOK' /\ FilesCurrent'
  <2>1. /\ clock \in Nat /\ clock' \in Nat /\ clock <= clock'
        /\ \A d \in Scripts : source'[d].mtime <= clock'
        /\ \A d \in Paths : cache[d].mtime <= clock'
        /\ MetasBehind(m_scripts, source, cache, clock')
        /\ last_state'.kind = "metas" => MetasBehind(last_state'.metas, source, cache, clock')
    BY <1>1, LaterDates DEF DateInv, disk
  <2>2. meta.cached_on <= clock' /\ (cache[p] # NoFile => meta.cached_on <= cache[p].mtime)
    <3>1. 0 <= clock' /\ 0 <= cache[p].mtime
      BY <1>0, <2>1, DateTypes DEF IInv
    <3> QED BY <1>0, <2>1, <3>1 DEF MetasBehind
  <2> HIDE DEF meta
  <2>3. MetasBehind(m_scripts', source, cache, clock')
    BY <1>0, <1>9, <2>1, <2>2 DEF MetasBehind
  <2> QED BY <1>1, <2>1, <2>3 DEF DatesOK, DateInv, FilesCurrent, disk
<1>12. CurrentOK' /\ FromOK'
  BY <1>0, <1>1, <1>4, <1>7, <1>8, <1>10, CurrentStep DEF DateInv, disk
<1>13. ASSUME ~HasCycle(imports) PROVE Made'
  <2>1. BuildMoves({g \in Frames : FrameMade(g, module')})
    BY <1>1, <1>4, <1>8 DEF BuildMoves
  <2>2. ASSUME fresh PROVE FramesMade' /\ ModulesMade' /\ TemplatesMade'
    <3>1. OwnMade(module', p) /\ AgainstMade(stack', m_moduleIndices', module', p)
      BY <1>3, <2>2 DEF OwnMade, AgainstMade
    <3>2. module'[p].from = "source" /\ ~module'[p].built
      BY <1>3, <2>2
    <3> QED BY <1>1, <1>7, <1>13, <2>1, <3>1, <3>2, MadeStep DEF MadeInv, disk
  <2>3. ASSUME ~fresh PROVE FramesMade' /\ ModulesMade' /\ TemplatesMade'
    <3>1. SameModule(p) /\ Top.pc # "read"
      BY <1>0, <1>3, <2>3 DEF SameModule
    <3> QED BY <1>1, <1>7, <1>13, <2>1, <3>1, MadeStep DEF MadeInv, disk
  <2>4. FramesMade' /\ ModulesMade' /\ TemplatesMade'
    BY <2>2, <2>3
  <2>5. FilesMade'
    BY <1>1, <1>13 DEF MadeInv, Made, FilesMade, disk
  <2>6. TopMade'
    BY <1>1, <1>4, TopAfter DEF TopMade
  <2> QED BY <2>4, <2>5, <2>6 DEF Made
<1> QED BY <1>11, <1>12, <1>13 DEF DateInv, MadeInv

LEMMA PostCompileLinks ==
  ASSUME IInv, IInv', DateInv, MadeInv, up, stack # <<>>, PostCompile, UNCHANGED <<sessions, imports>>
  PROVE  DateInv' /\ MadeInv'
<1> DEFINE p == Top.path
<1>0. /\ Top \in Frames /\ p \in Paths /\ Top.pc = "imports" /\ p \in ModuleIds /\ module[p] \in Modules
      /\ \A d \in ToSet(Top.deps) : d \in Paths /\ d \in ModuleIds /\ module[d] \in Modules
  BY TopFacts, RegisteredModules DEF PostCompile, Registered, ModuleIds
<1>1. CASE ~Top.m_mod
  <2>1. Fault("null_module")
    BY <1>1 DEF PostCompile
  <2> QED BY <2>1, FaultLinks
<1> SUFFICES ASSUME Top.m_mod PROVE DateInv' /\ MadeInv'
  BY <1>1
<1>2. UNCHANGED <<clock, disk, up, m_scripts, m_moduleIndices, quiet>>
  BY DEF PostCompile
<1> HIDE DEF p
<1>3. CASE errors
  <2>1. stack' = Front(stack) /\ returned' = p /\ module' = module
    BY <1>3 DEF PostCompile, Return, p
  <2>2. returned' # Nothing
    BY <1>0, <2>1, AnswersAssumption
  <2> QED BY <1>0, <1>2, <2>1, <2>2, MovesLinks DEF disk
<1>4. CASE ~errors
  <2> DEFINE against == {[path |-> d, made |-> module[d].made] : d \in ToSet(Top.deps)}
             trusted == AllTrusted(Top.deps)
             r == [module[p] EXCEPT !.built = TRUE, !.generated = TRUE,
                         !.deps = ToSet(Top.deps), !.made = madeOf(Top),
                         !.against = against, !.trusted = trusted]
             f == [Top EXCEPT !.pc = "save"]
  <2>1. module' = [module EXCEPT ![p] = r] /\ stack' = WithTop(f)
    BY <1>4 DEF PostCompile, p
  <2>2. /\ r.from = module[p].from /\ r.own = module[p].own /\ r.built = TRUE
        /\ r.made = madeOf(Top) /\ r.against = against /\ r.trusted = trusted
    BY <1>0 DEF Modules
  <2> HIDE DEF r
  <2>3. f \in Frames /\ f.path = p /\ f.pc = "save" /\ f.own = Top.own /\ f.deps = Top.deps
    BY <1>0 DEF Frames, p
  <2> HIDE DEF f
  <2>4. module'[p] = r /\ \A d \in Paths : d # p => module'[d] = module[d]
    BY <1>0, <2>1 DEF IInv, TypeOK
  <2>5. OnlyTopChanges /\ Top' = f
    BY <1>2, <2>1, <2>3, <2>4, TopAfter DEF OnlyTopChanges, p
  <2>6. r.own = Top.own /\ r.from = "source"
    BY <1>0, <2>2, TopLinks DEF FrameFrom, p
  <2>7. FrameFrom(f, module')
    BY <2>3, <2>4, <2>6 DEF FrameFrom
  <2>8. quiet => FrameCurrent(source, m_scripts', f)
    BY <1>0, <2>3, TopLinks DEF FrameCurrent, p
  <2>9. quiet /\ p \in Scripts => ModuleCurrent(source, p, module'[p])
    BY <1>0, <2>4, <2>6, TopLinks DEF FrameCurrent, ModuleCurrent, p
  <2>10. DatesOK' /\ FilesCurrent'
    BY <1>2, StayDates DEF DateInv, disk
  <2>11. CurrentOK' /\ FromOK'
    BY <1>2, <2>1, <2>3, <2>5, <2>7, <2>8, <2>9, CurrentStep DEF DateInv, disk, p
  <2>12. ASSUME ~HasCycle(imports) PROVE Made'
    <3>0. Made /\ FrameMade(Top, module)
      BY <2>12, TopLinks DEF MadeInv
    <3>1. \A d \in ToSet(Top.deps) : Settled(stack, m_moduleIndices, d) /\ d # p
      <4>1. Len(stack) \in 1 .. Len(stack)
        BY TopFacts
      <4> QED BY <2>12, <4>1, UsedIsSettled DEF Settled, Top, p
    <3>2. FrameMade(f, module')
      BY <1>0, <2>3, <2>4, <3>0, <3>1 DEF FrameMade, p
    <3>3. BuildMoves(Frames) /\ BuildMoves({g \in Frames : FrameMade(g, module')})
      BY <2>1, <2>3, <3>2 DEF BuildMoves, p
    <3>4. OwnMade(module', p)
      <4>1. <<p, Top.own>> \in madeOf(Top)
        BY DEF madeOf, p
      <4> QED BY <2>2, <2>4, <2>6, <4>1 DEF OwnMade
    <3>5. AgainstMade(stack', m_moduleIndices', module', p)
      <4>1. \A a \in r.against : \E d \in ToSet(Top.deps) : a = [path |-> d, made |-> module[d].made]
        BY <2>2
      <4> SUFFICES ASSUME NEW a \in r.against, NEW d \in ToSet(Top.deps),
                          a = [path |-> d, made |-> module[d].made]
                   PROVE  /\ Settled(stack', m_moduleIndices', a.path)
                          /\ module'[a.path].built /\ a.made # {} =>
                               <<a.path, module'[a.path].own>> \in a.made
        BY <2>4, <4>1 DEF AgainstMade
      <4>2. a.path = d /\ a.made = module[d].made
        OBVIOUS
      <4>3. module'[d] = module[d] /\ m_moduleIndices'[d] = m_moduleIndices[d]
        BY <1>0, <1>2, <2>4, <3>1
      <4>4. Settled(stack', m_moduleIndices', d)
        BY <3>1, <3>3, <4>3, StaysSettled
      <4>5. OwnMade(module, d)
        BY <1>0, <3>0 DEF Made, ModulesMade
      <4> QED BY <4>2, <4>3, <4>4, <4>5 DEF OwnMade
    <3>6. ASSUME quiet, p \in Templates, r.trusted PROVE r.own = source[Origin[p]].mtime
      <4> DEFINE q == Origin[p]
      <4>1. q \in ToSet(Top.deps) /\ module[q].own = Top.own
        BY <1>0, <3>0, <3>6 DEF FrameMade, p
      <4>2. q \in ModuleIds /\ q \in Scripts
        BY <1>0, <3>6, <4>1, GraphAssumption
      <4> HIDE DEF q
      <4>3. module[q].from = "source" \/ module[q].built
        BY <1>0, <3>0, <4>1, <4>2 DEF Made, ModulesMade, Modules
      <4>4. module[q].built => module[q].trusted
        BY <2>2, <3>6, <4>1 DEF trusted, AllTrusted
      <4>5. module[q].own = source[q].mtime
        BY <3>6, <4>2, <4>3, <4>4 DEF DateInv, CurrentOK, ModuleCurrent
      <4> QED BY <2>6, <4>1, <4>5 DEF q
    <3>7. FramesMade' /\ ModulesMade' /\ TemplatesMade'
      BY <1>2, <2>2, <2>4, <2>5, <2>12, <3>0, <3>3, <3>4, <3>5, <3>6, MadeStep DEF disk, p
    <3>8. FilesMade'
      BY <1>2, <3>0 DEF Made, FilesMade, disk
    <3>9. TopMade'
      <4>1. module'[p].built /\ (module'[p].trusted => AllTrusted(Top.deps))
        BY <2>2, <2>4 DEF trusted
      <4>2. AllTrusted(Top.deps) => \A d \in ToSet(f.deps) : module'[d].built => module'[d].trusted
        BY <1>0, <2>3, <2>4, <3>1 DEF AllTrusted
      <4> QED BY <2>3, <2>5, <4>1, <4>2 DEF TopMade, AllTrusted
    <3> QED BY <3>7, <3>8, <3>9 DEF Made
  <2> QED BY <2>10, <2>11, <2>12 DEF DateInv, MadeInv
<1> QED BY <1>3, <1>4

(* The dependencies in a cache file, and what they say of the contents.    *)
LEMMA serializedDeps ==
  ASSUME IInv, stack # <<>>, NEW t
  PROVE  ToSet(serialized(Top, t).deps) =
           {[path |-> d, version |-> m_scripts[d].modified_on, made |-> module[d].made] :
              d \in ToSet(Top.deps)}
<1>1. Top.deps \in Seq(Paths)
  BY TopFacts DEF Frames
<1> DEFINE deps == [k \in DOMAIN Top.deps |->
                     [path |-> Top.deps[k], version |-> m_scripts[Top.deps[k]].modified_on,
                      made |-> module[Top.deps[k]].made]]
<1>2. serialized(Top, t).deps = deps
  BY DEF serialized
<1>3. ToSet(deps) = {[path |-> d, version |-> m_scripts[d].modified_on, made |-> module[d].made] :
                       d \in ToSet(Top.deps)}
  BY <1>1 DEF ToSet
<1> QED BY <1>2, <1>3

LEMMA SavedMade ==
  ASSUME IInv, DateInv, Made, up, stack # <<>>, Top.pc = "save", NEW t
  PROVE  EntryMade(Top.path, serialized(Top, t))
<1> DEFINE p == Top.path
           c == serialized(Top, t)
<1>0. /\ p \in ModuleIds /\ Len(stack) \in 1 .. Len(stack)
      /\ \A d \in ToSet(Top.deps) : d \in ModuleIds
  BY TopFacts, RegisteredModules DEF Registered, ModuleIds
<1>1. c.own = Top.own /\ c.made = madeOf(Top) /\ c.quiet = (quiet /\ module[p].trusted)
  BY DEF serialized
<1>2. <<p, c.own>> \in c.made
  BY <1>1 DEF madeOf
<1>3. ToSet(c.deps) = {[path |-> d, version |-> m_scripts[d].modified_on, made |-> module[d].made] :
                         d \in ToSet(Top.deps)}
  BY serializedDeps
<1> HIDE DEF c
<1>4. FrameMade(Top, module) /\ FrameFrom(Top, module)
  BY <1>0 DEF Made, FramesMade, DateInv, FromOK, Top
<1>5. module[p].built /\ (module[p].trusted => AllTrusted(Top.deps))
  BY DEF Made, TopMade
<1> HIDE DEF p
<1>6. ASSUME quiet, NEW q \in ToSet(Top.deps) \cap Scripts
      PROVE  \E e \in ToSet(c.deps) : e.path = q /\ e.version = source[q].mtime
  <2>1. m_scripts[q].modified_on = source[q].mtime
    BY <1>0, <1>6, VersionIsDate
  <2>2. [path |-> q, version |-> m_scripts[q].modified_on, made |-> module[q].made] \in ToSet(c.deps)
    BY <1>3
  <2> QED BY <2>1, <2>2
<1>7. ASSUME c.quiet, p \in Templates
      PROVE  \E e \in ToSet(c.deps) : e.path = Origin[p] /\ e.version = c.own
  <2>1. quiet /\ module[p].trusted
    BY <1>1, <1>7
  <2>2. Origin[p] \in ToSet(Top.deps) /\ Origin[p] \in Scripts
    BY <1>4, <1>7, GraphAssumption DEF FrameMade, p
  <2>3. module[p].own = source[Root(p)].mtime /\ Root(p) = Origin[p]
    BY <1>0, <1>5, <1>7, <2>1, TrustedOwn DEF Root
  <2>4. module[p].own = c.own
    BY <1>1, <1>4 DEF FrameFrom, p
  <2>5. \E e \in ToSet(c.deps) : e.path = Origin[p] /\ e.version = source[Origin[p]].mtime
    BY <1>6, <2>1, <2>2
  <2> QED BY <2>3, <2>4, <2>5
<1>8. ASSUME c.quiet, NEW d \in ToSet(c.deps), d.made # {}
      PROVE  \E e \in ToSet(c.deps) : e.path = Root(d.path) /\ <<d.path, e.version>> \in d.made
  <2>1. quiet /\ module[p].trusted
    BY <1>1, <1>8
  <2>2. d.path \in ToSet(Top.deps) /\ d.made = module[d.path].made
    BY <1>3
  <2>3. module[d.path].built /\ <<d.path, module[d.path].own>> \in d.made
    BY <1>0, <1>8, <2>2 DEF Made, ModulesMade, OwnMade
  <2>4. module[d.path].trusted
    BY <1>5, <2>1, <2>2, <2>3 DEF AllTrusted
  <2>5. Root(d.path) \in Scripts /\ module[d.path].own = source[Root(d.path)].mtime
    BY <1>0, <2>1, <2>2, <2>3, <2>4, TrustedOwn
  <2>6. Root(d.path) \in ToSet(Top.deps)
    BY <1>4, <2>2 DEF FrameMade, Root
  <2>7. \E e \in ToSet(c.deps) : e.path = Root(d.path) /\ e.version = source[Root(d.path)].mtime
    BY <1>6, <2>1, <2>5, <2>6
  <2> QED BY <2>3, <2>5, <2>7
<1> QED BY <1>2, <1>7, <1>8 DEF EntryMade, c, p

LEMMA OnScriptCompiledLinks ==
  ASSUME IInv, IInv', QuietOK, DateInv, MadeInv, up, stack # <<>>, OnScriptCompiled,
         UNCHANGED <<sessions, imports>>
  PROVE  DateInv' /\ MadeInv'
<1> DEFINE p == Top.path
<1>0. /\ Top \in Frames /\ p \in Paths /\ p \in ModuleIds /\ Top.pc = "save"
      /\ p \in Scripts => source[p] # NoFile
      /\ cache \in [Paths -> {NoFile} \cup CacheFiles] /\ m_scripts \in [Paths -> Metas]
  BY TopFacts, RegisteredModules DEF OnScriptCompiled, Registered, FrameOK, IInv, TypeOK
<1>1. /\ stack' = Front(stack) /\ returned' = p
      /\ UNCHANGED <<source, last_state, up, m_moduleIndices, module, quiet>>
  BY DEF OnScriptCompiled, Return
<1>2. returned' # Nothing
  BY <1>0, <1>1, AnswersAssumption
<1>3. CASE UNCHANGED <<clock, cache, m_scripts>>
  BY <1>0, <1>1, <1>2, <1>3, MovesLinks
<1>4. CASE /\ clock' \in Now
           /\ cache' = [cache EXCEPT ![p] = serialized(Top, clock')]
           /\ m_scripts' = [m_scripts EXCEPT ![p].cached_on = clock']
  <2> DEFINE c == serialized(Top, clock')
  <2>1. c.mtime = clock' /\ c.own = Top.own /\ c.quiet = (quiet /\ module[p].trusted)
    BY DEF serialized
  <2>2. cache'[p] = c /\ \A d \in Paths : d # p => cache'[d] = cache[d]
    BY <1>0, <1>4
  <2> HIDE DEF c
  <2>3. /\ m_scripts'[p] = [m_scripts[p] EXCEPT !.cached_on = clock']
        /\ \A d \in Paths : d # p => m_scripts'[d] = m_scripts[d]
    BY <1>0, <1>4
  <2>4. /\ m_scripts'[p].modified_on = m_scripts[p].modified_on
        /\ m_scripts[p] = NoMeta => m_scripts'[p] = NoMeta
        /\ m_scripts[p] # NoMeta => m_scripts'[p].cached_on = clock'
    <3>1. CASE m_scripts[p] = NoMeta
      BY <2>3, <3>1 DEF NoMeta
    <3>2. CASE m_scripts[p] \in [modified_on : Nat, cached_on : Nat]
      <4>1. m_scripts[p] # NoMeta
        BY <3>2 DEF NoMeta
      <4> QED BY <2>3, <3>2, <4>1
    <3> QED BY <1>0, <3>1, <3>2 DEF Metas
  <2>5. /\ clock \in Nat /\ clock' \in Nat /\ clock <= clock'
        /\ \A d \in Scripts : source'[d].mtime <= clock'
        /\ \A d \in Paths : cache[d].mtime <= clock'
        /\ MetasBehind(m_scripts, source, cache, clock')
        /\ last_state'.kind = "metas" => MetasBehind(last_state'.metas, source, cache, clock')
    BY <1>1, <1>4, LaterDates DEF DateInv
  <2> HIDE DEF p
  <2>6. DatesOK'
    <3>1. \A d \in Paths : cache'[d].mtime <= clock'
      BY <2>1, <2>2, <2>5
    <3>2. ASSUME NEW metas, MetasBehind(metas, source, cache, clock')
          PROVE  MetasBehind(metas, source, cache', clock')
      BY <2>1, <2>2, <3>2 DEF MetasBehind
    <3>3. MetasBehind(m_scripts, source, cache', clock')
      BY <2>5, <3>2
    <3>4. MetasBehind(m_scripts', source, cache', clock')
      <4> SUFFICES ASSUME NEW d \in Paths, m_scripts'[d] # NoMeta
                   PROVE  /\ d \in Scripts => m_scripts'[d].modified_on <= source[d].mtime
                          /\ m_scripts'[d].cached_on <= clock'
                          /\ cache'[d] # NoFile => m_scripts'[d].cached_on <= cache'[d].mtime
        BY DEF MetasBehind
      <4>1. CASE d # p
        BY <2>3, <3>3, <4>1 DEF MetasBehind
      <4>2. CASE d = p
        <5>1. m_scripts[p] # NoMeta /\ m_scripts'[p].cached_on = clock'
          BY <2>4, <4>2
        <5>2. cache'[p].mtime = clock' /\ clock' <= clock'
          BY <2>1, <2>2, <2>5
        <5>3. p \in Scripts => m_scripts[p].modified_on <= source[p].mtime
          BY <1>0, <3>3, <5>1 DEF MetasBehind
        <5> QED BY <2>4, <4>2, <5>1, <5>2, <5>3
      <4> QED BY <4>1, <4>2
    <3>5. last_state'.kind = "metas" => MetasBehind(last_state'.metas, source, cache', clock')
      BY <2>5, <3>2
    <3> QED BY <1>1, <2>5, <3>1, <3>4, <3>5 DEF DatesOK
  <2>7. FilesCurrent'
    <3> SUFFICES ASSUME NEW d \in Scripts PROVE FileCurrent(source, d, cache'[d])
      BY <1>1 DEF FilesCurrent
    <3>1. CASE d # p
      BY <2>2, <3>1 DEF DateInv, FilesCurrent, Paths
    <3>2. CASE d = p
      <4>1. quiet => Top.own = source[p].mtime
        BY <1>0, <3>2, TopLinks DEF FrameCurrent, p
      <4> QED BY <2>1, <2>2, <1>0, <3>2, <4>1 DEF FileCurrent, Calm
    <3> QED BY <3>1, <3>2
  <2>8. OnlyTopChanges /\ SameModule(p)
    BY <1>1 DEF OnlyTopChanges, SameModule
  <2>9. ASSUME NEW d \in Scripts
        PROVE  /\ m_scripts'[d].modified_on = m_scripts[d].modified_on
               /\ quiet /\ source[d] # NoFile /\ source[d].mtime < m_scripts[d].cached_on =>
                    source[d].mtime < m_scripts'[d].cached_on
    <3>0. d \in Paths /\ source[d].mtime \in Nat
      BY DateTypes DEF IInv
    <3>1. CASE d # p
      BY <2>3, <3>0, <3>1
    <3>2. CASE d = p
      <4>1. ASSUME quiet, source[d] # NoFile, source[d].mtime < m_scripts[d].cached_on
            PROVE  source[d].mtime < m_scripts'[d].cached_on
        <5>1. m_scripts[d] # NoMeta /\ m_scripts[d] \in Metas
          BY <1>0, <3>0, <4>1 DEF QuietOK
        <5>2. m_scripts[d].cached_on \in Nat /\ m_scripts[d].cached_on <= clock'
          BY <2>5, <3>0, <5>1, MetaTypes DEF MetasBehind
        <5>3. m_scripts'[d].cached_on = clock'
          BY <2>4, <3>2, <5>1
        <5> QED BY <2>5, <3>0, <4>1, <5>2, <5>3
      <4> QED BY <2>4, <3>2, <4>1
    <3> QED BY <3>1, <3>2
  <2>10. quiet /\ p \in ModuleIds' \cap Scripts => ModuleCurrent(source, p, module'[p])
    BY <1>0, <1>1 DEF DateInv, CurrentOK
  <2>11. CurrentOK' /\ FromOK'
    BY <1>1, <2>8, <2>9, <2>10, CurrentStep DEF DateInv, p
  <2>12. ASSUME ~HasCycle(imports) PROVE Made'
    <3>1. BuildMoves({f \in Frames : FrameMade(f, module')})
      BY <1>1 DEF BuildMoves
    <3>2. FramesMade' /\ ModulesMade' /\ TemplatesMade'
      BY <1>0, <1>1, <2>8, <2>12, <3>1, MadeStep DEF MadeInv, p
    <3>3. EntryMade(p, c)
      BY <1>0, <2>12, SavedMade DEF MadeInv, c, p
    <3>4. FilesMade'
      BY <2>2, <2>12, <3>3 DEF MadeInv, Made, FilesMade
    <3>5. TopMade'
      BY <1>2 DEF IInv, AnswerOK, TopMade
    <3> QED BY <3>2, <3>4, <3>5 DEF Made
  <2> QED BY <2>6, <2>7, <2>11, <2>12 DEF DateInv, MadeInv
<1> QED BY <1>3, <1>4 DEF OnScriptCompiled, saved

LEMMA BuildStepLinks ==
  ASSUME IInv, IInv', QuietOK, OrderInv, DateInv, MadeInv, BuildStep
  PROVE  DateInv' /\ MadeInv'
<1>1. up /\ stack # <<>> /\ UNCHANGED <<sessions, imports>>
  BY DEF BuildStep
<1>2. CASE LoadModule
  BY <1>1, <1>2, LoadModuleLinks
<1>3. CASE BuildFromCached
  BY <1>1, <1>3, BuildFromCachedLinks
<1>4. CASE AskDependency
  BY <1>1, <1>4, AskDependencyLinks
<1>5. CASE TakeDependency
  BY <1>1, <1>5, TakeDependencyLinks
<1>6. CASE CompareVersions
  BY <1>1, <1>6, CompareVersionsLinks
<1>7. CASE Link
  BY <1>1, <1>7, LinkLinks
<1>8. CASE LinkFails
  BY <1>1, <1>8, LinkFailsLinks
<1>9. CASE BuildFromSource
  BY <1>1, <1>9, BuildFromSourceLinks
<1>10. CASE AskImport
  BY <1>1, <1>10, AskImportLinks
<1>11. CASE TakeImport
  BY <1>1, <1>11, TakeImportLinks
<1>12. CASE Specialize
  BY <1>1, <1>12, SpecializeLinks
<1>13. CASE TakeSpecialization
  BY <1>1, <1>13, TakeSpecializationLinks
<1>14. CASE Remake
  BY <1>1, <1>14, RemakeLinks
<1>15. CASE PostCompile
  BY <1>1, <1>15, PostCompileLinks
<1>16. CASE OnScriptCompiled
  BY <1>1, <1>16, OnScriptCompiledLinks
<1>17. CASE CompileError
  BY <1>1, <1>17, CompileErrorLinks
<1> QED BY <1>2, <1>3, <1>4, <1>5, <1>6, <1>7, <1>8, <1>9, <1>10, <1>11, <1>12, <1>13, <1>14,
           <1>15, <1>16, <1>17 DEF BuildStep

-----------------------------------------------------------------------------
(* The other steps                                                         *)

(* A scan of the workspace brings metadata up to the sources.              *)
LEMMA scanDates ==
  ASSUME IInv, NEW metas \in [Paths -> Metas], MetasBehind(metas, source, cache, clock)
  PROVE  /\ MetasBehind(scanDirectory(metas), source, cache, clock)
         /\ \A p \in Scripts : source[p] # NoFile => scanDirectory(metas)[p].modified_on = source[p].mtime
<1>0. /\ clock \in Nat /\ \A p \in Scripts : source[p].mtime \in Nat /\ p \in Paths
      /\ \A p \in Paths : cache[p].mtime \in Nat
  BY DateTypes DEF IInv
<1>1. ASSUME NEW p \in Scripts
      PROVE  LET meta == processScript(metas[p], source[p])
             IN  /\ meta.modified_on = source[p].mtime
                 /\ meta.cached_on <= clock
                 /\ cache[p] # NoFile => meta.cached_on <= cache[p].mtime
  <2>1. CASE metas[p] = NoMeta
    BY <1>0, <2>1 DEF processScript
  <2>2. CASE metas[p] # NoMeta
    <3>1. /\ metas[p] \in [modified_on : Nat, cached_on : Nat]
          /\ metas[p].modified_on <= source[p].mtime
          /\ metas[p].cached_on <= clock
          /\ cache[p] # NoFile => metas[p].cached_on <= cache[p].mtime
      BY <1>0, <2>2 DEF MetasBehind, Metas
    <3>2. CASE metas[p].modified_on < source[p].mtime
      BY <2>2, <3>1, <3>2 DEF processScript
    <3>3. CASE ~(metas[p].modified_on < source[p].mtime)
      <4>1. metas[p].modified_on \in Nat
        BY <3>1
      <4> QED BY <1>0, <2>2, <3>1, <3>3, <4>1 DEF processScript
    <3> QED BY <3>2, <3>3
  <2> QED BY <2>1, <2>2
<1>2. ASSUME NEW p \in Paths
      PROVE  scanDirectory(metas)[p] = IF p \in Scripts /\ source[p] # NoFile
                                       THEN processScript(metas[p], source[p]) ELSE metas[p]
  BY DEF scanDirectory
<1>3. \A p \in Scripts : source[p].mtime <= source[p].mtime
  BY <1>0
<1>4. ASSUME NEW p \in Paths, scanDirectory(metas)[p] # NoMeta
      PROVE  /\ p \in Scripts => scanDirectory(metas)[p].modified_on <= source[p].mtime
             /\ scanDirectory(metas)[p].cached_on <= clock
             /\ cache[p] # NoFile => scanDirectory(metas)[p].cached_on <= cache[p].mtime
  <2>1. CASE p \in Scripts /\ source[p] # NoFile
    BY <1>1, <1>2, <1>3, <2>1
  <2>2. CASE ~(p \in Scripts /\ source[p] # NoFile)
    BY <1>2, <1>4, <2>2 DEF MetasBehind
  <2> QED BY <2>1, <2>2
<1>5. \A p \in Scripts : source[p] # NoFile => scanDirectory(metas)[p].modified_on = source[p].mtime
  BY <1>0, <1>1, <1>2
<1> QED BY <1>4, <1>5 DEF MetasBehind

LEMMA StartLinks ==
  ASSUME IInv, DateInv, MadeInv, Start
  PROVE  DateInv' /\ MadeInv'
<1>1. /\ ~up /\ stack = <<>> /\ ModuleIds = {}
      /\ m_scripts' = scanDirectory(restored)
      /\ UNCHANGED <<clock, imports, disk, m_moduleIndices, module, stack>>
  BY DEF Start, IInv, TypeOK
<1>2. restored \in [Paths -> Metas] /\ MetasBehind(restored, source, cache, clock)
  <2>1. CASE last_state.kind = "metas"
    <3>1. last_state.metas \in [Paths -> Metas]
      BY <2>1 DEF IInv, TypeOK, NoState, TornState
    <3> QED BY <2>1, <3>1 DEF restored, DateInv, DatesOK
  <2>2. CASE last_state.kind # "metas"
    BY <2>2 DEF restored, MetasBehind, Metas
  <2> QED BY <2>1, <2>2
<1>3. /\ MetasBehind(m_scripts', source, cache, clock)
      /\ \A p \in Scripts : source[p] # NoFile => m_scripts'[p].modified_on = source[p].mtime
  BY <1>1, <1>2, scanDates
<1>4. DatesOK' /\ FilesCurrent'
  BY <1>1, <1>3 DEF DateInv, DatesOK, FilesCurrent, disk
<1>5. stack' = <<>> /\ ModuleIds' = {} /\ \A n \in 1 .. Len(stack') : FALSE
  <2>1. stack' = <<>> /\ ModuleIds' = {}
    BY <1>1 DEF ModuleIds
  <2>2. Len(stack') = 0
    BY <2>1
  <2> QED BY <2>1, <2>2
<1>6. CurrentOK' /\ FromOK'
  BY <1>1, <1>3, <1>5 DEF CurrentOK, FromOK, disk
<1>7. ~HasCycle(imports) => Made'
  BY <1>1, <1>5 DEF MadeInv, Made, FilesMade, FramesMade, ModulesMade, TemplatesMade, TopMade, disk
<1> QED BY <1>1, <1>4, <1>6, <1>7 DEF DateInv, MadeInv

LEMMA serviceLinks ==
  ASSUME IInv, DateInv, MadeInv, service
  PROVE  DateInv' /\ MadeInv'
<1>1. /\ stack = <<>> /\ stack' = stack /\ m_scripts' = scanDirectory(m_scripts)
      /\ UNCHANGED <<clock, imports, disk, up, m_moduleIndices, module, quiet>>
  BY DEF service
<1>2. /\ MetasBehind(m_scripts', source, cache, clock)
      /\ \A p \in Scripts : source[p] # NoFile => m_scripts'[p].modified_on = source[p].mtime
  BY <1>1, scanDates DEF DateInv, DatesOK, IInv, TypeOK
<1>3. DatesOK' /\ FilesCurrent'
  BY <1>1, <1>2 DEF DateInv, DatesOK, FilesCurrent, disk
<1>4. \A n \in 1 .. Len(stack') : FALSE
  <2>1. Len(stack') = 0
    BY <1>1
  <2> QED BY <2>1
<1>5. CurrentOK' /\ FromOK'
  BY <1>1, <1>2, <1>4 DEF DateInv, CurrentOK, FromOK, ModuleIds, disk
<1>6. ASSUME ~HasCycle(imports) PROVE Made'
  <2>1. Made
    BY <1>6 DEF MadeInv
  <2>2. FilesMade' /\ TopMade' /\ FramesMade'
    BY <1>1, <1>4, <2>1 DEF Made, FilesMade, TopMade, FramesMade, disk
  <2>3. ModulesMade' /\ TemplatesMade'
    BY <1>1, <2>1 DEF Made, ModulesMade, TemplatesMade, ModuleIds, disk
  <2> QED BY <2>2, <2>3 DEF Made
<1> QED BY <1>1, <1>3, <1>5, <1>6 DEF DateInv, MadeInv

LEMMA ShutdownLinks ==
  ASSUME IInv, DateInv, MadeInv, Shutdown
  PROVE  DateInv' /\ MadeInv'
<1>1. /\ EmptyMemory /\ up' = FALSE /\ UNCHANGED <<clock, imports, source, cache>>
      /\ last_state' = [kind |-> "metas", metas |-> m_scripts]
  BY DEF Shutdown
<1>2. FilesCurrent' /\ (~HasCycle(imports) => FilesMade')
  BY <1>1 DEF DateInv, MadeInv, Made, FilesCurrent, FilesMade
<1>3. /\ \A p \in Scripts : source'[p].mtime <= clock'
      /\ \A p \in Paths : cache'[p].mtime <= clock'
      /\ MetasBehind(last_state'.metas, source', cache', clock')
  BY <1>1 DEF DateInv, DatesOK
<1> QED BY <1>1, <1>2, <1>3, StopLinks

LEMMA KillLinks ==
  ASSUME IInv, DateInv, MadeInv, Kill
  PROVE  DateInv' /\ MadeInv'
<1>1. EmptyMemory /\ up' = FALSE /\ UNCHANGED <<imports, source>>
  BY DEF Kill
<1>2. CASE cache' = cache /\ clock' = clock /\ (last_state' = last_state \/ last_state' = TornState)
  <2>1. FilesCurrent' /\ (~HasCycle(imports) => FilesMade')
    BY <1>1, <1>2 DEF DateInv, MadeInv, Made, FilesCurrent, FilesMade
  <2>2. /\ \A p \in Scripts : source'[p].mtime <= clock'
        /\ \A p \in Paths : cache'[p].mtime <= clock'
        /\ last_state'.kind = "metas" => MetasBehind(last_state'.metas, source', cache', clock')
    BY <1>1, <1>2 DEF DateInv, DatesOK, TornState
  <2> QED BY <1>1, <2>1, <2>2, StopLinks
<1>3. ASSUME stack # <<>>, clock' \in Now, last_state' = last_state,
             cache' = [cache EXCEPT ![Top.path] = [mtime |-> clock', torn |-> TRUE, deps |-> <<>>]]
      PROVE  DateInv' /\ MadeInv'
  <2> DEFINE c == [mtime |-> clock', torn |-> TRUE, deps |-> <<>>]
             p == Top.path
  <2>1. cache'[p] = c /\ \A d \in Paths : d # p => cache'[d] = cache[d]
    BY <1>3, TopFacts DEF IInv, TypeOK
  <2>2. c.mtime = clock' /\ c.torn
    OBVIOUS
  <2> HIDE DEF c, p
  <2>3. /\ clock' \in Nat
        /\ \A d \in Scripts : source'[d].mtime <= clock'
        /\ \A d \in Paths : cache[d].mtime <= clock'
        /\ last_state'.kind = "metas" => MetasBehind(last_state'.metas, source, cache, clock')
    BY <1>1, <1>3, LaterDates DEF DateInv
  <2>4. \A d \in Paths : cache'[d].mtime <= clock'
    BY <2>1, <2>2, <2>3
  <2>5. last_state'.kind = "metas" => MetasBehind(last_state'.metas, source', cache', clock')
    BY <1>1, <2>1, <2>2, <2>3 DEF MetasBehind
  <2>6. FilesCurrent'
    BY <1>1, <2>1, <2>2 DEF DateInv, FilesCurrent, FileCurrent, Calm, Whole, Paths
  <2>7. ~HasCycle(imports) => FilesMade'
    BY <2>1, <2>2 DEF MadeInv, Made, FilesMade, Whole
  <2> QED BY <1>1, <2>3, <2>4, <2>5, <2>6, <2>7, StopLinks
<1> QED BY <1>2, <1>3 DEF Kill

LEMMA EditLinks ==
  ASSUME IInv, DateInv, MadeInv, NEW p \in Scripts, Edit(p)
  PROVE  DateInv' /\ MadeInv'
<1>1. /\ clock' = NextEdit /\ ~(up' /\ quiet')
      /\ UNCHANGED <<imports, cache, last_state, up, m_scripts, m_moduleIndices, module, stack>>
  BY DEF Edit, memory
<1>2. PICK quality : source' = [source EXCEPT ![p] = [mtime |-> NextEdit, quality |-> quality]]
  BY DEF Edit
<1>3. clock \in Nat /\ clock' \in Nat /\ clock < clock'
  BY <1>1, DateTypes DEF IInv, NextEdit
<1>4. source'[p].mtime = clock' /\ \A q \in Scripts : q # p => source'[q] = source[q]
  BY <1>1, <1>2 DEF IInv, TypeOK
<1>5. /\ \A q \in Scripts : source[q].mtime \in Nat /\ source[q].mtime <= clock
      /\ \A q \in Paths : cache[q].mtime \in Nat /\ cache[q].mtime <= clock
  BY DateTypes DEF IInv, DateInv, DatesOK
<1>6. /\ \A q \in Scripts : source'[q].mtime \in Nat /\ source'[q].mtime <= clock'
                            /\ source[q].mtime <= source'[q].mtime
      /\ \A q \in Paths : cache[q].mtime <= clock'
  BY <1>3, <1>4, <1>5
<1>7. ASSUME NEW metas \in [Paths -> Metas], MetasBehind(metas, source, cache, clock)
      PROVE  MetasBehind(metas, source', cache, clock')
  <2>1. MetasBehind(metas, source, cache, clock')
    BY <1>3, <1>7, LaterMetas
  <2>2. ASSUME NEW q \in Scripts, q \in Paths, metas[q] # NoMeta
        PROVE  metas[q].modified_on <= source'[q].mtime
    <3>1. metas[q].modified_on \in Nat
      BY <2>2, MetaTypes
    <3>2. metas[q].modified_on <= source[q].mtime
      BY <2>2, <1>7 DEF MetasBehind
    <3> QED BY <1>5, <1>6, <3>1, <3>2
  <2> QED BY <2>1, <2>2 DEF MetasBehind
<1>8. DatesOK'
  <2>1. m_scripts \in [Paths -> Metas] /\ (last_state.kind = "metas" => last_state.metas \in [Paths -> Metas])
    BY DEF IInv, TypeOK, NoState, TornState
  <2> QED BY <1>1, <1>6, <1>7, <2>1 DEF DateInv, DatesOK
<1>9. FilesCurrent'
  <2> SUFFICES ASSUME NEW q \in Scripts PROVE FileCurrent(source', q, cache[q])
    BY <1>1 DEF FilesCurrent
  <2>1. CASE q # p
    BY <1>4, <2>1 DEF DateInv, FilesCurrent, FileCurrent
  <2>2. CASE q = p
    <3>1. ~(source'[q].mtime < cache[q].mtime)
      BY <1>3, <1>4, <1>5, <2>2 DEF Paths
    <3> QED BY <3>1 DEF FileCurrent
  <2> QED BY <2>1, <2>2
<1>10. CurrentOK' /\ FromOK'
  <2>1. source'[p] # NoFile
    BY <1>3, <1>4 DEF NoFile
  <2> QED BY <1>1, <1>4, <2>1 DEF DateInv, CurrentOK, FromOK, ModuleIds
<1>11. ASSUME ~HasCycle(imports) PROVE Made'
  <2>1. Made
    BY <1>11 DEF MadeInv
  <2>2. FilesMade' /\ FramesMade' /\ TemplatesMade'
    BY <1>1, <2>1 DEF Made, FilesMade, FramesMade, TemplatesMade
  <2>3. ModulesMade' /\ TopMade'
    BY <1>1, <2>1 DEF Made, ModulesMade, TopMade, Top, ModuleIds, versionsDiffer, AllTrusted
  <2> QED BY <2>2, <2>3 DEF Made
<1> QED BY <1>1, <1>8, <1>9, <1>10, <1>11 DEF DateInv, MadeInv

LEMMA HostLoadLinks ==
  ASSUME IInv, DateInv, MadeInv, NEW p \in Scripts, HostLoad(p)
  PROVE  DateInv' /\ MadeInv'
<1>0. /\ stack = <<>> /\ p \in Paths /\ getModule(p, stack)
      /\ UNCHANGED <<clock, imports, disk, up, m_scripts, m_moduleIndices, module, quiet>>
  BY DEF HostLoad, Paths
<1>1. DatesOK' /\ FilesCurrent'
  BY <1>0, StayDates DEF DateInv, disk
<1>2. stack' = <<>> \/ \E f \in Frames : stack' = <<f>> /\ f.path = p /\ f.pc = "load" /\ f.i = 1
  <2>1. \/ stack' = stack /\ returned' # Nothing
        \/ \E f \in Frames : /\ stack' = Append(stack, f) /\ f.path = p /\ m_moduleIndices[p] = 0
                             /\ f.pc \in {"load", "cached"} /\ f.i = 1 /\ f.deps = <<>>
                             /\ f.pc = "cached" => p \in Templates
    BY <1>0, AskedFrames
  <2>2. p \notin Templates
    BY GraphAssumption
  <2>3. \A f : Append(<<>>, f) = <<f>>
    OBVIOUS
  <2> QED BY <1>0, <2>1, <2>2, <2>3
<1>3. m_moduleIndices[p] = 0 \/ stack' = <<>>
  BY <1>0 DEF getModule
<1>4. \A n \in 1 .. Len(stack') : /\ FrameCurrent(source, m_scripts, stack'[n])
                                  /\ FrameFrom(stack'[n], module) /\ FrameMade(stack'[n], module)
                                  /\ stack'[n].path = p
  <2>1. CASE stack' = <<>>
    BY <2>1
  <2>2. ASSUME NEW f \in Frames, stack' = <<f>>, f.path = p, f.pc = "load", f.i = 1,
               NEW n \in 1 .. Len(stack')
        PROVE  stack'[n] = f
    BY <2>2
  <2> QED BY <1>2, <2>1, <2>2, PlainFrame
<1>5. CurrentOK' /\ FromOK'
  BY <1>0, <1>4 DEF DateInv, CurrentOK, FromOK, ModuleIds, disk
<1>6. ASSUME ~HasCycle(imports) PROVE Made'
  <2>1. Made
    BY <1>6 DEF MadeInv
  <2>2. FilesMade' /\ FramesMade' /\ TemplatesMade'
    BY <1>0, <1>4, <2>1 DEF Made, FilesMade, FramesMade, TemplatesMade, ModuleIds, disk
  <2>3. TopMade'
    BY <1>2 DEF TopMade, Top
  <2>4. ASSUME NEW q, Settled(stack, m_moduleIndices, q) PROVE Settled(stack', m_moduleIndices', q)
    <3>1. m_moduleIndices[q] # 0
      BY <2>4 DEF Settled
    <3>2. CASE stack' = <<>>
      <4>1. Len(stack') = 0
        BY <3>2
      <4> QED BY <1>0, <3>1, <4>1 DEF Settled
    <3>3. CASE m_moduleIndices[p] = 0
      BY <1>0, <1>4, <3>1, <3>3 DEF Settled
    <3> QED BY <1>3, <3>2, <3>3
  <2>5. ModulesMade'
    <3> SUFFICES ASSUME NEW q \in ModuleIds
                 PROVE  /\ OwnMade(module, q)
                        /\ AgainstMade(stack', m_moduleIndices', module, q)
                        /\ ~(module[q].from = "cache" /\ ~module[q].built)
      BY <1>0 DEF ModulesMade, ModuleIds
    <3>1. /\ OwnMade(module, q)
          /\ AgainstMade(stack, m_moduleIndices, module, q)
          /\ ~(module[q].from = "cache" /\ ~module[q].built)
      BY <1>0, <2>1 DEF Made, ModulesMade
    <3>2. AgainstMade(stack', m_moduleIndices', module, q)
      BY <2>4, <3>1 DEF AgainstMade
    <3> QED BY <3>1, <3>2
  <2> QED BY <2>2, <2>3, <2>5 DEF Made
<1> QED BY <1>0, <1>1, <1>5, <1>6 DEF DateInv, MadeInv

LEMMA HostInitLinks ==
  ASSUME IInv, DateInv, MadeInv, HostInit
  PROVE  DateInv' /\ MadeInv'
<1>0. /\ stack = <<>> /\ stack' = stack
      /\ UNCHANGED <<clock, imports, disk, up, m_scripts, m_moduleIndices, quiet>>
  BY DEF HostInit
<1>1. \A d \in Paths : SameModule(d)
  <2>1. module' = module \/ module' = [module EXCEPT ![returned] = Initialised(@)]
    BY DEF HostInit
  <2> QED BY <1>0, <2>1 DEF IInv, TypeOK, SameModule
<1>2. \A d \in Paths : /\ module'[d].own = module[d].own /\ module'[d].from = module[d].from
                       /\ module'[d].built = module[d].built /\ module'[d].trusted = module[d].trusted
                       /\ module'[d].made = module[d].made /\ module'[d].against = module[d].against
  BY <1>1, SameFields
<1>3. DatesOK' /\ FilesCurrent'
  BY <1>0, StayDates DEF DateInv, disk
<1>4. ModuleIds' = ModuleIds /\ (\A n \in 1 .. Len(stack') : FALSE) /\ ModuleIds \subseteq Paths
  <2>1. Len(stack') = 0
    BY <1>0
  <2> QED BY <1>0, <2>1 DEF ModuleIds
<1>5. CurrentOK' /\ FromOK'
  BY <1>0, <1>2, <1>4 DEF DateInv, CurrentOK, FromOK, ModuleCurrent, disk
<1>6. ASSUME ~HasCycle(imports) PROVE Made'
  <2>1. Made
    BY <1>6 DEF MadeInv
  <2>2. FilesMade' /\ FramesMade' /\ TopMade'
    BY <1>0, <1>4, <2>1 DEF Made, FilesMade, FramesMade, TopMade, disk
  <2>3. TemplatesMade'
    BY <1>0, <1>2, <1>4, <2>1 DEF Made, TemplatesMade, disk
  <2>4. ModulesMade'
    <3> SUFFICES ASSUME NEW q \in ModuleIds
                 PROVE  /\ OwnMade(module', q)
                        /\ AgainstMade(stack, m_moduleIndices, module', q)
                        /\ ~(module'[q].from = "cache" /\ ~module'[q].built)
      BY <1>0, <1>4 DEF ModulesMade
    <3>1. /\ OwnMade(module, q)
          /\ AgainstMade(stack, m_moduleIndices, module, q)
          /\ ~(module[q].from = "cache" /\ ~module[q].built)
      BY <1>0, <2>1 DEF Made, ModulesMade
    <3>2. AgainstMade(stack, m_moduleIndices, module', q)
      <4>1. \A a \in module[q].against : a.path \in Paths
        BY AgainstPaths
      <4> QED BY <1>2, <1>4, <3>1, <4>1 DEF AgainstMade
    <3> QED BY <1>2, <1>4, <3>1, <3>2 DEF OwnMade
  <2> QED BY <2>2, <2>3, <2>4 DEF Made
<1> QED BY <1>0, <1>3, <1>5, <1>6 DEF DateInv, MadeInv

LEMMA NextLinks ==
  ASSUME IInv, IInv', QuietOK, OrderInv, DateInv, MadeInv, [Next]_vars
  PROVE  DateInv' /\ MadeInv'
<1>1. CASE UNCHANGED vars
  <2>1. UNCHANGED <<clock, imports, source, cache, last_state, up, m_scripts, m_moduleIndices, module, stack, quiet>>
    BY <1>1 DEF vars, memory, disk
  <2>2. DateInv'
    BY <2>1 DEF DateInv, DatesOK, FilesCurrent, CurrentOK, FromOK, ModuleIds
  <2>3. MadeInv'
    BY <2>1 DEF MadeInv, Made, FilesMade, FramesMade, ModulesMade, TemplatesMade, TopMade, Top, ModuleIds,
                versionsDiffer, AllTrusted
  <2> QED BY <2>2, <2>3
<1>2. CASE Start
  BY <1>2, StartLinks
<1>3. CASE RestoreTwiceDeleted
  BY <1>3, FaultLinks DEF RestoreTwiceDeleted
<1>4. CASE Shutdown
  BY <1>4, ShutdownLinks
<1>5. CASE Kill
  BY <1>5, KillLinks
<1>6. CASE service
  BY <1>6, serviceLinks
<1>7. CASE HostInit
  BY <1>7, HostInitLinks
<1>8. ASSUME NEW p \in Scripts, Edit(p) \/ HostLoad(p) PROVE DateInv' /\ MadeInv'
  BY <1>8, EditLinks, HostLoadLinks
<1>9. CASE BuildStep
  BY <1>9, BuildStepLinks
<1> QED BY <1>1, <1>2, <1>3, <1>4, <1>5, <1>6, <1>7, <1>8, <1>9 DEF Next

LEMMA InitLinks ==
  ASSUME Init
  PROVE  DateInv /\ MadeInv
<1>1. /\ clock = 2 /\ cache = [p \in Paths |-> NoFile] /\ last_state = NoState /\ up = FALSE
      /\ m_scripts = [p \in Paths |-> NoMeta] /\ m_moduleIndices = [p \in Paths |-> 0] /\ stack = <<>>
  BY DEF Init
<1>2. \A p \in Scripts : source[p].mtime <= 2
  BY DEF Init, NoFile
<1>3. DatesOK /\ FilesCurrent
  BY <1>1, <1>2 DEF DatesOK, FilesCurrent, FileCurrent, MetasBehind, NoFile, NoState, Calm, Whole, Paths
<1>4. ModuleIds = {} /\ \A n \in 1 .. Len(stack) : FALSE
  <2>1. Len(stack) = 0
    BY <1>1
  <2> QED BY <1>1, <2>1 DEF ModuleIds
<1>5. CurrentOK /\ FromOK
  BY <1>1, <1>4 DEF CurrentOK, FromOK
<1>6. Made
  BY <1>1, <1>4 DEF Made, FilesMade, Whole, FramesMade, ModulesMade, TemplatesMade, TopMade
<1> QED BY <1>3, <1>5, <1>6 DEF DateInv, MadeInv

-----------------------------------------------------------------------------
(* Dates and versions say of a cache file what it was made from: whenever  *)
(* one is believed in a session without edits, its own contents are those  *)
(* of its source, and the versions it was written with those that went     *)
(* into it (PersistenceDatabase::onScriptCompiled, Pipeline::tryCache).    *)
THEOREM LinksKept == Spec => [](DateInv /\ MadeInv)
<1>1. Init => DateInv /\ MadeInv
  BY InitLinks
<1>2. IInv /\ IInv' /\ FaultInv /\ OrderInv /\ DateInv /\ MadeInv /\ [Next]_vars =>
        DateInv' /\ MadeInv'
  BY NextLinks DEF FaultInv
<1> QED BY <1>1, <1>2, Invariant, CausesKept, OrderKept, PTL DEF Spec

(* A module is the one its source would give, and was compiled with the    *)
(* contents that the modules it uses have in this session, unless it comes *)
(* from the cache and it, or a module it uses, was made while sources were *)
(* edited (Pipeline::tryCache, Workspace::loadModule).                     *)
THEOREM LinksAreRight == Spec => []LinkedAsCompiledApart
<1>1. IInv /\ DateInv /\ MadeInv => LinkedAsCompiledApart
  <2> SUFFICES ASSUME IInv, DateInv, MadeInv, NEW p \in ModuleIds, module[p].built,
                      module[p].from = "cache" => module[p].trusted
               PROVE  /\ quiet /\ p \in Scripts => module[p].own = source[p].mtime
                      /\ ~Cyclic => \A d \in module[p].against :
                           module[d.path].built /\ d.made # {} => <<d.path, module[d.path].own>> \in d.made
    BY DEF LinkedAsCompiledApart
  <2>1. up /\ module[p].from \in {"source", "cache"}
    BY DEF IInv, TypeOK, Modules
  <2>2. quiet /\ p \in Scripts => module[p].own = source[p].mtime
    BY <2>1 DEF DateInv, CurrentOK, ModuleCurrent
  <2>3. ASSUME ~Cyclic PROVE AgainstMade(stack, m_moduleIndices, module, p)
    <3>1. ~HasCycle(imports)
      BY <2>3 DEF Cyclic, HasCycle
    <3> QED BY <3>1 DEF MadeInv, Made, ModulesMade
  <2> QED BY <2>2, <2>3 DEF AgainstMade
<1> QED BY <1>1, Invariant, LinksKept, PTL

=============================================================================
