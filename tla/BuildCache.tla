----------------------------- MODULE BuildCache -----------------------------
(***************************************************************************)
(* Loading script modules: the table of modules of a Context, the metadata *)
(* and sources of its Workspace, the Pipelines that build a module from    *)
(* its source or from its cache file, and the two kinds of files that      *)
(* outlive the process: cache files and last_state.db.                     *)
(*                                                                         *)
(* A module is built by a frame of the stack: the root pipeline has the    *)
(* first, each module that a build asks for is built by a child pipeline   *)
(* above it.  Files are edited at any time, also while a build is under    *)
(* way; the process may be shut down, or die, between any two steps.       *)
(*                                                                         *)
(* Code is left out.  A content is named by the time of the edit that made *)
(* it, and a module remembers which contents it and the modules it imports *)
(* had when it was compiled.                                               *)
(***************************************************************************)
EXTENDS Integers, Sequences, FiniteSets, SequencesExt

CONSTANTS
  Scripts,       (* source files of the workspace                             *)
  Templates,     (* specializations of script templates, modules of their own *)
  Origin,        (* the script that declares the template of each             *)
  ImportGraphs,  (* what each script imports, and then specializes            *)
  Absent,        (* scripts that may not be there from the start              *)
  Qualities,     (* of the contents of the sources: sound, unparsable, ill_typed *)
  MaxClock,      (* bound on the times of edits                               *)
  MaxSessions,   (* bound on the starts of the process                        *)
  MaxDepth       (* builds within builds that the C++ stack has room for      *)

ASSUME GraphAssumption ==
  /\ Scripts \cap Templates = {}
  /\ Origin \in [Templates -> Scripts] /\ Absent \subseteq Scripts
  /\ ImportGraphs \subseteq [Scripts -> Seq(Scripts \cup Templates)]
  /\ Qualities \subseteq {"sound", "unparsable", "ill_typed"}
  /\ MaxClock \in Nat /\ MaxSessions \in Nat /\ MaxDepth \in Nat

VARIABLES
  clock, sessions,
  imports,       (* what the scripts import; an edit does not change it       *)
  source,        (* the source files                                          *)
  cache,         (* the cache files                                           *)
  last_state,    (* last_state.db                                             *)
  up,            (* whether the process runs                                  *)
  m_scripts,     (* metadata of the scripts                                   *)
  m_sources,     (* contents read in this session                             *)
  m_modules,     (* the modules in the order of their creation                *)
  m_moduleIndices,
  module,        (* the modules themselves                                    *)
  errors,        (* whether the root pipeline's logger has errors             *)
  m_compOutput,  (* what the root pipeline's last output was made from        *)
  stack,         (* the builds under way, innermost last                      *)
  returned,      (* what getModule or specializeTemplate just returned        *)
  fault,         (* the undefined behaviour that ended the last session       *)
  quiet          (* history: no edit since this session began                 *)

disk == <<source, cache, last_state>>
memory == <<m_scripts, m_sources, m_modules, m_moduleIndices, module, errors, m_compOutput,
            stack, returned>>
vars == <<clock, sessions, imports, disk, up, memory, fault, quiet>>

Paths == Scripts \cup Templates
NoFile == [mtime |-> 0]
NoMeta == [modified_on |-> -1]
NoState == [kind |-> "none"]
TornState == [kind |-> "torn"]
Nothing == "nothing"   (* no call has returned *)
Failed == "failed"     (* nullptr              *)

ASSUME AnswersAssumption == {Nothing, Failed} \cap Paths = {}

(* Modules that do not import each other never fill the C++ stack.         *)
ASSUME DepthAssumption == IsFiniteSet(Paths) /\ Cardinality(Paths) <= MaxDepth

(* Edits happen at even times.  What the process writes is dated like the  *)
(* last edit, or later: between edits time passes once.                    *)
Now == IF clock % 2 = 0 THEN {clock, clock + 1} ELSE {clock}
NextEdit == clock + 2 - (clock % 2)

Top == stack[Len(stack)]
IsRoot == Len(stack) = 1
Frame(p, pc, caller) ==
  [path |-> p, pc |-> pc, caller |-> caller, i |-> 1, deps |-> <<>>, entry |-> NoFile, own |-> 0,
   m_mod |-> FALSE, illTyped |-> FALSE]
WithTop(f) == [stack EXCEPT ![Len(stack)] = f]

-----------------------------------------------------------------------------
(* Starting, stopping and dying                                            *)

NoModule == [own |-> 0, built |-> FALSE]

EmptyMemory ==
  /\ m_scripts' = [p \in Paths |-> NoMeta]
  /\ m_sources' = [p \in Scripts |-> 0]
  /\ m_modules' = <<>>
  /\ m_moduleIndices' = [p \in Paths |-> 0]
  /\ module' = [p \in Paths |-> NoModule]
  /\ errors' = FALSE
  /\ m_compOutput' = "none"
  /\ stack' = <<>>
  /\ returned' = Nothing

(* Mutant of ResetFails: an output is thrown away without errors, too.     *)
ResetAlways == m_compOutput = "cache"

(* Pipeline::reset when the last output is thrown away because of errors:  *)
(* the functions go, and the types through a compiler that a build from a  *)
(* cache file does not have.                                               *)
ResetFails == errors /\ m_compOutput = "cache"

(* The process dies of undefined behaviour.                                *)
Fault(kind) ==
  /\ fault' = kind
  /\ up' = FALSE
  /\ EmptyMemory
  /\ UNCHANGED <<clock, disk, quiet>>

processScript(meta, file) ==
  IF meta = NoMeta THEN [modified_on |-> file.mtime, cached_on |-> 0]
  ELSE IF meta.modified_on < file.mtime THEN [meta EXCEPT !.modified_on = file.mtime]
  ELSE meta

(* Mutant of scanDirectory: only files without metadata are looked at.     *)
scanNewFiles(metas) ==
  [p \in Paths |-> IF p \in Scripts /\ metas[p] = NoMeta /\ source[p] # NoFile
                   THEN processScript(metas[p], source[p]) ELSE metas[p]]

scanDirectory(metas) ==
  [p \in Paths |-> IF p \in Scripts /\ source[p] # NoFile
                   THEN processScript(metas[p], source[p]) ELSE metas[p]]

restored == IF last_state.kind = "metas" THEN last_state.metas ELSE [p \in Paths |-> NoMeta]

(* A context is made: the database is restored and the workspace scanned.  *)
Start ==
  /\ ~up /\ sessions < MaxSessions
  /\ sessions' = sessions + 1
  /\ up' = TRUE
  /\ quiet' = TRUE
  /\ fault' = "none"
  /\ m_scripts' = scanDirectory(restored)
  /\ UNCHANGED <<clock, imports, disk, m_sources, m_modules, m_moduleIndices, module, errors,
                 m_compOutput, stack, returned>>

(* Restoring a database that ends early after its scripts: the last record *)
(* is deleted as m, and again with all records.                            *)
RestoreTwiceDeleted ==
  /\ ~up /\ sessions < MaxSessions /\ last_state = TornState
  /\ sessions' = sessions + 1
  /\ Fault("double_delete")
  /\ UNCHANGED imports

(* The destructors: the database is written, the root pipeline is reset,   *)
(* then all memory is gone.                                                *)
Shutdown ==
  /\ up /\ stack = <<>>
  /\ up' = FALSE
  /\ last_state' = [kind |-> "metas", metas |-> m_scripts]
  /\ fault' = IF ResetFails THEN "no_compiler" ELSE fault
  /\ EmptyMemory
  /\ UNCHANGED <<clock, sessions, imports, source, cache, quiet>>

(* Killed: a file that was being written may be cut short.                 *)
Kill ==
  /\ up
  /\ up' = FALSE
  /\ \/ UNCHANGED <<clock, cache, last_state>>
     \/ /\ stack # <<>> /\ Top.pc = "save"
        /\ clock' \in Now
        /\ cache' = [cache EXCEPT ![Top.path] = [mtime |-> clock', torn |-> TRUE, deps |-> <<>>]]
        /\ UNCHANGED last_state
     \/ stack = <<>> /\ last_state' = TornState /\ UNCHANGED <<clock, cache>>
  /\ EmptyMemory
  /\ UNCHANGED <<sessions, imports, source, fault, quiet>>

(* Someone saves a source file.                                            *)
Edit(p) ==
  /\ NextEdit <= MaxClock
  /\ clock' = NextEdit
  /\ \E quality \in {"sound", "unparsable", "ill_typed"} :
       source' = [source EXCEPT ![p] = [mtime |-> NextEdit, quality |-> quality]]
  /\ quiet' = (quiet /\ ~up)
  /\ UNCHANGED <<sessions, imports, cache, last_state, up, memory, fault>>

service ==
  /\ up /\ stack = <<>> /\ returned = Nothing
  /\ m_scripts' = scanDirectory(m_scripts)
  /\ UNCHANGED <<clock, sessions, imports, disk, up, m_sources, m_modules, m_moduleIndices,
                 module, errors, m_compOutput, stack, returned, fault, quiet>>

-----------------------------------------------------------------------------
(* Modules                                                                 *)

(* Asking for the module p: it is there, or a build of it goes on top of   *)
(* the frames, or there is nothing to build it from.                       *)
getModule(p, frames) ==
  IF m_moduleIndices[p] # 0
  THEN stack' = frames /\ returned' = m_modules[m_moduleIndices[p]]
  ELSE IF p \in Scripts /\ source[p] # NoFile
  THEN stack' = Append(frames, Frame(p, "load", "load")) /\ returned' = Nothing
  ELSE IF m_scripts[p] # NoMeta /\ cache[p] # NoFile
  THEN stack' = Append(frames, Frame(p, "cached", "dependency")) /\ returned' = Nothing
  ELSE stack' = frames /\ returned' = Failed

Overflows == Len(stack) > MaxDepth

(* Mutant of createModule: a path may have several modules.                *)
createAnother(p, own, from) ==
  /\ m_modules' = Append(m_modules, p)
  /\ m_moduleIndices' = [m_moduleIndices EXCEPT ![p] = Len(m_modules) + 1]
  /\ module' = [module EXCEPT ![p] =
       [own |-> own, from |-> from, deps |-> {}, made |-> {}, against |-> {},
        built |-> FALSE, generated |-> FALSE, didInit |-> FALSE, ran |-> FALSE, trusted |-> FALSE]]

(* Context::createModule: there is one module of a path, and a build that  *)
(* asks for another goes on without (m_mod of its frame).                  *)
createModule(p, own, from) ==
  IF m_moduleIndices[p] # 0 THEN UNCHANGED <<m_modules, m_moduleIndices, module>>
  ELSE /\ m_modules' = Append(m_modules, p)
       /\ m_moduleIndices' = [m_moduleIndices EXCEPT ![p] = Len(m_modules) + 1]
       /\ module' = [module EXCEPT ![p] =
            [own |-> own, from |-> from, deps |-> {}, made |-> {}, against |-> {},
             built |-> FALSE, generated |-> FALSE, didInit |-> FALSE, ran |-> FALSE,
             trusted |-> FALSE]]

(* Context::destroyModule: modules behind the removed one keep the index   *)
(* they had.                                                               *)
destroyModule(p) ==
  /\ m_modules' = RemoveAt(m_modules, m_moduleIndices[p])
  /\ m_moduleIndices' = [m_moduleIndices EXCEPT ![p] = 0]
  /\ module' = [module EXCEPT ![p] = NoModule]

(* Module::init: a module without functions counts as initialised, and so  *)
(* does one whose functions the backend has no code for.                   *)
Initialised(mod) ==
  IF mod.didInit THEN mod ELSE [mod EXCEPT !.didInit = TRUE, !.ran = mod.built /\ mod.generated]

(* What a build leaves to the frame below it.                              *)
Return(value) ==
  /\ stack' = Front(stack)
  /\ returned' = value

(* The host loads a module, and initialises what it got.                   *)
HostLoad(p) ==
  /\ up /\ stack = <<>> /\ returned = Nothing
  /\ getModule(p, <<>>)
  /\ UNCHANGED <<clock, sessions, imports, disk, up, m_scripts, m_sources, m_modules,
                 m_moduleIndices, module, errors, m_compOutput, fault, quiet>>

HostInit ==
  /\ up /\ stack = <<>> /\ returned # Nothing
  /\ returned' = Nothing
  /\ module' = IF returned = Failed THEN module
               ELSE [module EXCEPT ![returned] = Initialised(@)]
  /\ UNCHANGED <<clock, sessions, imports, disk, up, m_scripts, m_sources, m_modules,
                 m_moduleIndices, errors, m_compOutput, stack, fault, quiet>>

(* The first build of a load is the root's, which forgets what it had.     *)
Opened(more) ==
  /\ errors' = (more \/ (errors /\ ~IsRoot))
  /\ m_compOutput' = IF IsRoot THEN "none" ELSE m_compOutput

-----------------------------------------------------------------------------
(* Workspace::loadModule: from the cache if it is newer than the source.   *)

cacheNewer(p) == cache[p] # NoFile /\ source[p].mtime < m_scripts[p].cached_on

LoadModule ==
  /\ Top.pc = "load"
  /\ IF Overflows THEN Fault("overflow")
     ELSE IF m_scripts[Top.path] = NoMeta THEN Fault("no_metadata")
     ELSE /\ stack' = WithTop([Top EXCEPT !.pc = IF cacheNewer(Top.path) THEN "cached" ELSE "source"])
          /\ UNCHANGED <<clock, disk, up, m_scripts, m_sources, m_modules, m_moduleIndices, module,
                         errors, m_compOutput, returned, fault, quiet>>

getSource(p) ==
  IF p \in Scripts /\ m_sources[p] = 0 THEN [m_sources EXCEPT ![p] = source[p].mtime]
  ELSE m_sources

(* Mutant of Missed: loadModule tries the cache once more.                 *)
MissedAgain ==
  CASE Top.caller = "load" -> stack' = WithTop(Frame(Top.path, "load", "load")) /\ returned' = Nothing
    [] Top.caller = "dependency" -> Return(Failed)
    [] Top.caller = "specialize" -> stack' = WithTop([Top EXCEPT !.pc = "remake"]) /\ returned' = Nothing

(* The cache was of no use: back to the caller.                            *)
Missed ==
  CASE Top.caller = "load" -> stack' = WithTop(Frame(Top.path, "source", "load")) /\ returned' = Nothing
    [] Top.caller = "dependency" -> Return(Failed)
    [] Top.caller = "specialize" -> stack' = WithTop([Top EXCEPT !.pc = "remake"]) /\ returned' = Nothing

(* Pipeline::buildFromCached up to the dependencies.                       *)
BuildFromCached ==
  /\ Top.pc = "cached"
  /\ IF IsRoot /\ ResetFails THEN Fault("no_compiler")
     ELSE /\ Opened(FALSE)
          /\ m_sources' = getSource(Top.path)
          /\ \/ cache[Top.path].torn /\ Missed
             \/ /\ stack' = WithTop([Top EXCEPT !.pc = "deps", !.entry = cache[Top.path]])
                /\ UNCHANGED returned
          /\ UNCHANGED <<clock, disk, up, m_scripts, m_modules, m_moduleIndices, module, fault, quiet>>

MoreDependencies == ~Top.entry.torn /\ Top.i <= Len(Top.entry.deps)

(* Output::deserializeDependencies: each is loaded in its turn.            *)
AskDependency ==
  /\ Top.pc = "deps" /\ MoreDependencies /\ returned = Nothing
  /\ getModule(Top.entry.deps[Top.i].path, stack)
  /\ UNCHANGED <<clock, disk, up, m_scripts, m_sources, m_modules, m_moduleIndices, module, errors,
                 m_compOutput, fault, quiet>>

TakeDependency ==
  /\ Top.pc = "deps" /\ returned # Nothing
  /\ IF returned = Failed THEN Missed
     ELSE /\ stack' = WithTop([Top EXCEPT !.i = @ + 1, !.deps = Append(@, returned)])
          /\ returned' = Nothing
  /\ UNCHANGED <<clock, disk, up, m_scripts, m_sources, m_modules, m_moduleIndices, module, errors,
                 m_compOutput, fault, quiet>>

versionsDiffer(entry) ==
  \E d \in ToSet(entry.deps) : d.version # m_scripts[d.path].modified_on

(* Pipeline::tryCache once the dependencies are there.  Output::deserialize *)
(* makes the module before it reads what is in it, and fails when one of    *)
(* the builds for the dependencies has made it.                             *)
CompareVersions ==
  /\ Top.pc = "deps" /\ ~MoreDependencies /\ returned = Nothing
  /\ IF (~Top.entry.torn /\ versionsDiffer(Top.entry)) \/ m_moduleIndices[Top.path] # 0
     THEN Missed /\ UNCHANGED <<m_modules, m_moduleIndices, module>>
     ELSE /\ createModule(Top.path, IF Top.entry.torn THEN 0 ELSE Top.entry.own, "cache")
          /\ stack' = WithTop([Top EXCEPT !.pc = "read", !.m_mod = TRUE])
          /\ UNCHANGED returned
  /\ UNCHANGED <<clock, disk, up, m_scripts, m_sources, errors, m_compOutput, fault, quiet>>

(* What the file refers to may be missing in modules of other contents.    *)
linksStale(entry) == \E d \in ToSet(entry.deps) : module[d.path].made # d.made

(* History: the modules it uses are trusted.  A module is, if nothing was   *)
(* edited while it was made, and while the modules it uses were.           *)
AllTrusted(deps) == \A d \in ToSet(deps) : module[d].built => module[d].trusted

(* It succeeds.  The pipeline of a dependency ends with its reset; the     *)
(* root's waits for the next load, and after errors the backend is not     *)
(* asked to generate code.                                                 *)
Link ==
  /\ Top.pc = "read" /\ ~Top.entry.torn
  /\ IF ~IsRoot /\ errors THEN Fault("no_compiler")
     ELSE /\ module' = [module EXCEPT ![Top.path] =
               [@ EXCEPT !.built = TRUE, !.generated = ~errors,
                         !.deps = ToSet(Top.deps), !.made = Top.entry.made,
                         !.against = {[path |-> d.path, made |-> d.made] : d \in ToSet(Top.entry.deps)},
                         !.trusted = Top.entry.quiet /\ quiet /\ AllTrusted(Top.deps)]]
          /\ m_compOutput' = IF IsRoot THEN "cache" ELSE m_compOutput
          /\ Return(Top.path)
          /\ UNCHANGED <<clock, disk, up, m_scripts, m_sources, m_modules, m_moduleIndices, errors,
                         fault, quiet>>

(* It fails: the new module is destroyed with its metadata and its cache   *)
(* file, and loadModule goes on to build from that metadata.               *)
LinkFails ==
  /\ Top.pc = "read"
  /\ Top.entry.torn \/ linksStale(Top.entry)
  /\ cache' = [cache EXCEPT ![Top.path] = NoFile]
  /\ IF Top.caller = "load"
     THEN /\ fault' = "dangling_metadata"
          /\ up' = FALSE
          /\ EmptyMemory
     ELSE /\ m_scripts' = [m_scripts EXCEPT ![Top.path] = NoMeta]
          /\ destroyModule(Top.path)
          /\ Missed
          /\ UNCHANGED <<up, m_sources, errors, m_compOutput, fault>>
  /\ UNCHANGED <<clock, source, last_state, quiet>>

-----------------------------------------------------------------------------
(* Pipeline::buildFromSource                                               *)

Quality(p, version) == IF source[p].mtime = version THEN {source[p].quality}
                       ELSE Qualities

(* A source is given up if it cannot be parsed, or if another build of     *)
(* this load has left errors.                                              *)
BuildFromSource ==
  /\ Top.pc = "source"
  /\ IF IsRoot /\ ResetFails THEN Fault("no_compiler")
     ELSE LET version == getSource(Top.path)[Top.path]
          IN /\ m_sources' = getSource(Top.path)
             /\ \E quality \in Quality(Top.path, version) :
                  /\ Opened(quality = "unparsable")
                  /\ IF errors'
                     THEN Return(Failed) /\ UNCHANGED <<m_modules, m_moduleIndices, module>>
                     ELSE /\ createModule(Top.path, version, "source")
                          /\ stack' = WithTop([Top EXCEPT !.pc = "imports", !.own = version,
                                                 !.m_mod = (m_moduleIndices[Top.path] = 0),
                                                 !.illTyped = (quality = "ill_typed")])
                          /\ UNCHANGED returned
             /\ UNCHANGED <<clock, disk, up, m_scripts, fault, quiet>>

MoreImports == /\ Top.path \in Scripts /\ Top.i <= Len(imports[Top.path])
               /\ imports[Top.path][Top.i] \in Scripts

AskImport ==
  /\ Top.pc = "imports" /\ MoreImports /\ returned = Nothing
  /\ getModule(imports[Top.path][Top.i], stack)
  /\ UNCHANGED <<clock, disk, up, m_scripts, m_sources, m_modules, m_moduleIndices, module, errors,
                 m_compOutput, fault, quiet>>

addDependency(deps, p) ==
  IF (Top.m_mod /\ p = Top.path) \/ p \in ToSet(deps) THEN deps ELSE Append(deps, p)

(* compileImport, which initialises the module if initialises: what it has *)
(* no functions and types for is missed, unless nothing is named.          *)
TakeImportOf(initialises) ==
  /\ Top.pc = "imports" /\ MoreImports /\ returned # Nothing
  /\ IF returned = Failed
     THEN /\ errors' = TRUE
          /\ stack' = WithTop([Top EXCEPT !.i = @ + 1])
          /\ UNCHANGED module
     ELSE /\ module' = [module EXCEPT ![returned] = IF initialises THEN Initialised(@) ELSE @]
          /\ errors' \in {errors, errors \/ ~module[returned].built}
          /\ stack' = WithTop([Top EXCEPT !.i = @ + 1, !.deps = addDependency(@, returned)])
  /\ returned' = Nothing
  /\ UNCHANGED <<clock, disk, up, m_scripts, m_sources, m_modules, m_moduleIndices, m_compOutput,
                 fault, quiet>>

(* Mutant of TakeImport: the module is not initialised.                    *)
TakeImportAsItIs == TakeImportOf(FALSE)

TakeImport == TakeImportOf(TRUE)

(* Behind the imports the compiler meets what is wrong with the types, at  *)
(* any time between the specializations.                                   *)
CompileError ==
  /\ Top.pc = "imports" /\ ~MoreImports /\ returned = Nothing
  /\ Top.illTyped
  /\ errors' = TRUE
  /\ stack' = WithTop([Top EXCEPT !.illTyped = FALSE])
  /\ UNCHANGED <<clock, disk, up, m_scripts, m_sources, m_modules, m_moduleIndices, module,
                 m_compOutput, returned, fault, quiet>>

(* The specializations the script still has to name.                       *)
Wanted ==
  IF Top.path \in Templates THEN {}
  ELSE {t \in Templates \cap ToSet(imports[Top.path]) :
          t \notin ToSet(Top.deps) /\ Origin[t] \in ToSet(Top.deps) /\ module[Origin[t]].built}

(* Pipeline::specializeTemplate: a type that exists is returned, else a    *)
(* child pipeline builds it, from its cache file if there is one.          *)
Specialize ==
  /\ Top.pc = "imports" /\ ~MoreImports /\ returned = Nothing
  /\ \E t \in Wanted :
       IF m_moduleIndices[t] # 0
       THEN /\ returned' = t
            /\ UNCHANGED <<stack, m_scripts>>
       ELSE /\ m_scripts' = IF m_scripts[t] # NoMeta THEN m_scripts
                            ELSE [m_scripts EXCEPT ![t] = [modified_on |-> 0, cached_on |-> 0]]
            /\ stack' = Append(stack, Frame(t, IF cache[t] = NoFile THEN "remake" ELSE "cached",
                                            "specialize"))
            /\ UNCHANGED returned
  /\ UNCHANGED <<clock, disk, up, m_sources, m_modules, m_moduleIndices, module, errors, m_compOutput,
                 fault, quiet>>

TakeSpecialization ==
  /\ Top.pc = "imports" /\ ~MoreImports /\ returned # Nothing
  /\ stack' = WithTop([Top EXCEPT !.deps = Append(@, returned)])
  /\ returned' = Nothing
  /\ UNCHANGED <<clock, disk, up, m_scripts, m_sources, m_modules, m_moduleIndices, module, errors,
                 m_compOutput, fault, quiet>>

(* The specialization is compiled: metadata that a failed cache file took  *)
(* with it is made again.                                                  *)
Remake ==
  /\ Top.pc = "remake"
  /\ clock' \in Now
  /\ m_scripts' = [m_scripts EXCEPT ![Top.path] =
       [modified_on |-> clock', cached_on |-> IF @ = NoMeta THEN 0 ELSE @.cached_on]]
  /\ createModule(Top.path, module[Origin[Top.path]].own, "source")
  /\ stack' = WithTop([Top EXCEPT !.pc = "imports", !.deps = <<Origin[Top.path]>>,
                                  !.own = module[Origin[Top.path]].own,
                                  !.m_mod = (m_moduleIndices[Top.path] = 0)])
  /\ UNCHANGED <<disk, up, m_sources, errors, m_compOutput, returned, fault, quiet>>

(* The contents that go into a module: its own, and all in what it uses.   *)
madeOf(f) == {<<f.path, f.own>>} \cup UNION {module[d].made : d \in ToSet(f.deps)}

(* Compiler::end, which asks the module for its name, and                  *)
(* Pipeline::postCompile.  With errors, of this build or of any other      *)
(* since the root began, the module stays as it is and is returned; else   *)
(* the backend generates code when it is saved.                            *)
PostCompile ==
  /\ Top.pc = "imports" /\ ~MoreImports /\ ~Top.illTyped /\ Wanted = {} /\ returned = Nothing
  /\ IF ~Top.m_mod THEN Fault("null_module")
     ELSE /\ IF errors
             THEN /\ Return(Top.path)
                  /\ UNCHANGED module
             ELSE /\ module' = [module EXCEPT ![Top.path] =
                       [@ EXCEPT !.built = TRUE, !.generated = TRUE,
                                 !.deps = ToSet(Top.deps), !.made = madeOf(Top),
                                 !.against = {[path |-> d, made |-> module[d].made] : d \in ToSet(Top.deps)},
                                 !.trusted = AllTrusted(Top.deps)]]
                  /\ stack' = WithTop([Top EXCEPT !.pc = "save"])
                  /\ UNCHANGED returned
          /\ UNCHANGED <<clock, disk, up, m_scripts, m_sources, m_modules, m_moduleIndices, errors,
                         m_compOutput, fault, quiet>>

(* Output::serialize: dependencies are written with the versions their     *)
(* metadata has now.                                                       *)
serialized(f, t) ==
  [mtime |-> t, torn |-> FALSE, own |-> f.own, made |-> madeOf(f),
   quiet |-> quiet /\ module[f.path].trusted,
   deps |-> [k \in DOMAIN f.deps |->
     [path |-> f.deps[k], version |-> m_scripts[f.deps[k]].modified_on,
      made |-> module[f.deps[k]].made]]]

saved ==
  \/ /\ clock' \in Now
     /\ cache' = [cache EXCEPT ![Top.path] = serialized(Top, clock')]
     /\ m_scripts' = [m_scripts EXCEPT ![Top.path].cached_on = clock']
  \/ UNCHANGED <<clock, cache, m_scripts>>

(* PersistenceDatabase::onScriptCompiled, or the save fails.               *)
OnScriptCompiled ==
  /\ Top.pc = "save"
  /\ saved
  /\ m_compOutput' = IF IsRoot THEN "source" ELSE m_compOutput
  /\ Return(Top.path)
  /\ UNCHANGED <<source, last_state, up, m_sources, m_modules, m_moduleIndices, module, errors,
                 fault, quiet>>

-----------------------------------------------------------------------------
Init ==
  /\ clock = 2 /\ sessions = 0
  /\ imports \in ImportGraphs
  /\ \E gone \in SUBSET Absent :
       source = [p \in Scripts |->
                   IF p \in gone THEN NoFile ELSE [mtime |-> 2, quality |-> "sound"]]
  /\ cache = [p \in Paths |-> NoFile]
  /\ last_state = NoState
  /\ up = FALSE
  /\ m_scripts = [p \in Paths |-> NoMeta]
  /\ m_sources = [p \in Scripts |-> 0]
  /\ m_modules = <<>>
  /\ m_moduleIndices = [p \in Paths |-> 0]
  /\ module = [p \in Paths |-> NoModule]
  /\ errors = FALSE
  /\ m_compOutput = "none"
  /\ stack = <<>>
  /\ returned = Nothing
  /\ fault = "none"
  /\ quiet = TRUE

BuildStep ==
  /\ up /\ stack # <<>>
  /\ \/ LoadModule \/ BuildFromCached \/ AskDependency \/ TakeDependency \/ CompareVersions
     \/ Link \/ LinkFails \/ BuildFromSource \/ AskImport \/ TakeImport \/ CompileError
     \/ Specialize \/ TakeSpecialization \/ Remake \/ PostCompile \/ OnScriptCompiled
  /\ UNCHANGED <<sessions, imports>>

Next ==
  \/ Start \/ RestoreTwiceDeleted \/ Shutdown \/ Kill \/ service \/ HostInit
  \/ \E p \in Scripts : Edit(p) \/ HostLoad(p)
  \/ BuildStep

-----------------------------------------------------------------------------
(* Properties                                                              *)

ModuleIds == {p \in Paths : m_moduleIndices[p] # 0}

(* Some scripts import each other.                                         *)
Cyclic == \E group \in SUBSET Scripts :
            group # {} /\ \A p \in group : \E q \in group : q \in ToSet(imports[p])

Times == Nat \ {0}
Files == {NoFile} \cup [mtime : Times, quality : {"sound", "unparsable", "ill_typed"}]
Contents == SUBSET (Paths \X Nat)
WrittenDeps == [path : Paths, version : Int, made : Contents]
CutFiles == [mtime : Times, torn : {TRUE}, deps : {<<>>}]
WholeFiles == [mtime : Times, torn : {FALSE}, own : Nat, made : Contents, quiet : BOOLEAN,
               deps : Seq(WrittenDeps)]
CacheFiles == CutFiles \cup WholeFiles
Metas == {NoMeta} \cup [modified_on : Nat, cached_on : Nat]
Modules == [own : Nat, from : {"source", "cache"}, deps : SUBSET Paths, made : Contents,
            against : SUBSET [path : Paths, made : Contents],
            built : BOOLEAN, generated : BOOLEAN, didInit : BOOLEAN, ran : BOOLEAN, trusted : BOOLEAN]
Frames == [path : Paths,
           pc : {"load", "source", "cached", "deps", "read", "remake", "imports", "save"},
           caller : {"load", "dependency", "specialize"},
           i : Times, deps : Seq(Paths), entry : {NoFile} \cup CacheFiles, own : Nat,
           m_mod : BOOLEAN, illTyped : BOOLEAN]

(* The variables have their types, the index of modules has a module for   *)
(* each path it knows, and a stopped process has no memory                 *)
(* (Context::shutdown).                                                    *)
TypeOK ==
  /\ clock \in Times /\ sessions \in Nat
  /\ imports \in ImportGraphs
  /\ source \in [Scripts -> Files]
  /\ cache \in [Paths -> {NoFile} \cup CacheFiles]
  /\ last_state \in {NoState, TornState} \cup [kind : {"metas"}, metas : [Paths -> Metas]]
  /\ m_scripts \in [Paths -> Metas]
  /\ m_sources \in [Scripts -> Nat]
  /\ m_modules \in Seq(Paths)
  /\ m_moduleIndices \in [Paths -> Nat]
  /\ module \in [Paths -> {NoModule} \cup Modules]
  /\ \A p \in ModuleIds : module[p] \in Modules
  /\ up \in BOOLEAN /\ errors \in BOOLEAN /\ quiet \in BOOLEAN
  /\ m_compOutput \in {"none", "source", "cache"}
  /\ stack \in Seq(Frames)
  /\ returned \in {Nothing, Failed} \cup Paths
  /\ ~up => /\ m_scripts = [p \in Paths |-> NoMeta] /\ m_sources = [p \in Scripts |-> 0]
            /\ m_modules = <<>> /\ ModuleIds = {} /\ stack = <<>> /\ returned = Nothing
            /\ ~errors /\ m_compOutput = "none"

(* A module is linked with what it was compiled with: whatever contents of *)
(* other modules went into it, directly or through others, are those of    *)
(* the modules of this session, outside of edits while the process runs.   *)
(* Pipeline::tryCache (Pipeline.cpp:463) means to "determine if any        *)
(* dependencies changed".                                                  *)
LinkedAsCompiled ==
  \A p \in ModuleIds : module[p].built /\ module[p].trusted =>
    \A d \in module[p].against : module[d.path].built /\ d.made # {} => module[d.path].made = d.made

(* A module is the one its source file would give, and it was compiled     *)
(* with the contents that the modules it uses directly have in this        *)
(* session, unless it comes from the cache and it, or a module it uses,    *)
(* was made while sources were edited.  (Through other modules it may use  *)
(* contents of before: a dependency that was built again keeps its         *)
(* version, LinkedAsCompiled.)                                             *)
LinkedAsCompiledApart ==
  \A p \in ModuleIds : module[p].built /\ (module[p].from = "cache" => module[p].trusted) =>
    /\ quiet /\ p \in Scripts => module[p].own = source[p].mtime
    /\ ~Cyclic => \A d \in module[p].against :
         module[d.path].built /\ d.made # {} => <<d.path, module[d.path].own>> \in d.made

(* The index of a path finds the module of that path, whatever modules     *)
(* were destroyed (Context::destroyModule does not renumber), and no path   *)
(* has two, also when scripts import each other.                           *)
IndicesFind ==
  /\ \A p \in ModuleIds : <<m_moduleIndices[p], p>> \in {<<k, m_modules[k]>> : k \in DOMAIN m_modules}
  /\ IsInjective(m_modules)

(* Code that runs finds the modules it imports initialised: when the       *)
(* initialisation of a module that was compiled in this session has run,   *)
(* that of each of its imports has (compileImport, Module::init).  A       *)
(* module from the cache does not initialise what it imports, and modules  *)
(* that import each other are marked before they have code to run.         *)
InitBeforeUseApart ==
  \A p \in ModuleIds : module[p].ran /\ module[p].from = "source" /\ ~Cyclic =>
    \A d \in module[p].deps \cap Scripts : module[d].built => module[d].ran

(* Undefined behaviour has its named cause in the step in which it ends    *)
(* the process.  Metadata is destroyed under loadModule only by a cache    *)
(* file of a session before; builds nest without end, or go on without a   *)
(* module, only if scripts import each other; metadata is missing only for *)
(* a file made since the session began; and outputs are thrown away        *)
(* without a compiler only if something is wrong with a source, a source   *)
(* was edited since, or scripts import each other.                         *)
FaultsNamed ==
  [][fault' # fault =>
       /\ fault' = "dangling_metadata" => sessions > 1
       /\ fault' \in {"overflow", "null_module"} => Cyclic
       /\ fault' = "no_metadata" => ~quiet
       /\ fault' = "no_compiler" =>
            ~quiet \/ Cyclic \/ \E p \in Scripts : source[p] = NoFile \/ source[p].quality # "sound"]_vars

(* A load comes to an end: each cache file is tried once, and then the     *)
(* source is built (Workspace::loadModule).                                *)
LoadsEnd == stack # <<>> ~> stack = <<>>

-----------------------------------------------------------------------------
(* The process runs a build without waiting for anything.                  *)
Spec == Init /\ [][Next]_vars /\ WF_vars(BuildStep)

=============================================================================
