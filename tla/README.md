# A verification project for ts-native

ts-native compiles a subset of TypeScript to an intermediate representation (IR), optimizes it,
allocates registers and stack slots, and generates instructions for a register VM. The host
program binds its own types and functions, loads script modules through a workspace that caches
compiled modules on disk, and calls script functions (and is called by them).

The library has no threads of its own. What is hard to test in it is of another kind: passes
that must agree on facts about code they rewrite in turn (lifetimes, addresses, labels, slots),
algorithms whose data structures are correct only after long sequences of calls, a cache whose
validity depends on the order of edits, scans, compilations and restarts, and transactions,
scopes and reference counts that every path of a large recursive program has to close.

Paths below are relative to the repository (`src/...` is the library, `include/tsn/...` its
headers).

## Inventory

| Component | State | Operations | Talks to |
|---|---|---|---|
| **StackManager** (`src/backend/StackManager.cpp`) | list of slots of a frame | `alloc`, `free`, `size`, `reset` | driven by the code generator, one `ir_stack_allocate` / `ir_stack_free` at a time |
| **RegisterAllocatonStep** (`src/backend/RegisterAllocationStep.cpp`) | lifetimes of the virtual registers, the scan's free and active registers, the IR | `calcLifetimes`, `allocateRegisters` for both register files | last required step of the pipeline (`VMBackend.cpp:88`); writes the IR the generator reads |
| **VMBackend** (`src/vm/VMBackend.cpp`) | instructions, slot addresses, argument locations, deferred labels | `generate`: prologue, one case per IR instruction, labels, epilogue | reads IR, lifetimes and StackManager; writes the VM's code |
| **VM, State** (`src/vm/VM.cpp`, `State.cpp`, `Instruction.cpp`) | registers, stack, saved registers, nesting | `prepareState`, `execute`, one case per instruction | calls host functions, which may call scripts again |
| **Scope, ScopeManager** (`src/compiler/Scope.cpp`) | stack of scopes with their symbols and stack objects | `enter`, `exit`, `emitReturnInstructions` | the statement compiler; emits destructor calls and `ir_stack_free` |
| **Compiler, FunctionDef, Value** (`src/compiler/Compiler.cpp`, `FunctionDef.cpp`, `Value.cpp`) | functions under construction, current types, loop labels | one function per syntax node | parser's tree in, IR out; recursion into the pipeline for imports and templates |
| **Lexer, Parser, Logger** (`src/compiler/lexer.cpp`, `parser.cpp`, `Logger.cpp`) | tokens, stack of positions, messages and their transaction stack | `begin`, `commit`, `revert`, one function per rule | the tree the compiler walks |
| **Optimizer** (`src/optimize`) | IR, basic blocks, liveness, labels | copy propagation, common subexpressions, memory access, constant folding, dead code, repeated by groups | every function of a compiled module |
| **Workspace, PersistenceDatabase** (`src/io/Workspace.cpp`) | metadata of scripts, sources read, files on disk | `service` (scan), `loadModule`, `loadCached`, `onScriptCompiled`, `persist`, `restore` | file system, pipeline |
| **Pipeline** (`src/pipeline/Pipeline.cpp`) | what is being compiled, child pipelines | `buildFromSource`, `buildFromCached`, `specializeTemplate`, `tryCache`, `postCompile`, `reset` | everything above |
| **Context, Module** (`src/common`) | module table and its two indices | `createModule`, `getModule`, `destroyModule` | Workspace, Pipeline |
| **Output, OutputBuilder** (`src/compiler/Output.cpp`) | dependencies, types, functions of a module | `serialize`, `deserialize` | cache files |
| **Closure, Object, Memory** (`src/ffi`, `src/builtin/Memory.cpp`) | reference counts of capture data and of host objects | copy, assign, destroy | host code, script code through the binding |
| **Types and matching, registries, bindings, builtins, tools** | tables of types and functions | lookup, overload matching, specialisation | compiler and host |

What makes each correct, in short: the frame allocator never hands out bytes that are held; the
register allocator never lets two values share a place while both are needed, and every operand
of the code it leaves has a place that exists; the generator preserves what calls must preserve;
every path out of a scope destroys each of its objects exactly once; an optimization does not
change what the code computes; a cached module is used only when compiling its source today
would give the same; a failed branch of the parser leaves nothing behind; a reference count is
the number of references.

Hard behaviours: **ordering and stale facts** (lifetimes used after code was inserted, maps of a
pass used after registers changed, indices used after an array moved), **long call sequences**
(frame allocator, transactions, reference counts), **files, restarts and partial failures** (the
cache), and **boundaries** (ends of lifetimes, empty ranges, zero sizes, 8-bit counters). The
complete list, with lines, is `hazards` in `PROJECT.json`.

## Plan

| # | Modules | What they settle | Status |
|---|---|---|---|
| 1 | `FrameBlocks`, `StackManager` | frame allocation, refinement, proofs | done |
| 2 | `LinearScan` | the scan for any lifetimes and registers, proofs | done |
| 3 | `RegisterAllocation` (composes `LinearScan`) | lifetimes, rewriting, slots, execution of the result | done |
| 4 | `ScopeExit` | destructors and frees on every way out of nested scopes | done |
| 5 | `Lifetimes`, `Optimizer` | each pass preserves what a function does, and the passes end | done |
| 6 | `CallFrame` | argument registers, backups, parameter moves, prologue and epilogue, calls in and out of the host | done |
| 7 | `BuildCache` | Workspace, Pipeline, Context: edits, scans, failures, restarts, proofs | done |
| 8 | `Transactions`, `ParserRules`, `ParserTransactions` | backtracking, recovery and messages of the whole grammar | done |
| 9 | `Numbers`, `VirtualMachine`, `Instructions`, `Expressions`, `VectorMath`, `MatrixMath`, `Execution` | values: operators and inline methods, folding, instruction selection, the VM, against reference definitions | done |
| 10 | a `SharedData` module | reference counts of capture data (`ffi/Closure.cpp`) and of objects (`ffi/Object.cpp`, `builtin/Memory.cpp`) | left |
| 11 | overload matching, builtin templates `Array` and `Pointer`, exceptions through nested executions of the VM | the remaining control | left |

## Proofs

| Module | Proved for every value of the constants | Only model-checked |
|---|---|---|
| `StackManager` | all six properties of its run, the refinement of `FrameBlocks` among them | |
| `LinearScan` | all safety properties of its run | |
| `BuildCache` | `LinkedAsCompiledApart`, `IndicesFind`, `InitBeforeUseApart`, `FaultsNamed`, types | `LoadsEnd` (liveness) |
| `ScopeExit` | all four properties of its run | |
| the others | | all |

The library's theorem of induction takes an operator, which the provers cannot instantiate.
`SequenceLemmas.tla` derives from `NatLessThanWellFounded` and `WFMin` an induction about a set
(`Induction`, `UpInduction`, `DownInduction`: a set with 0, and with each number the next, has all
naturals), and from that the existence of the function which a fold iterates (`FoldExists`): a fold is
then reasoned about as the sequence of its intermediate results (`JoinedBack`). `ScopeExit_proofs`
uses it for the code that leaves scopes and for `HeldBefore`.

Why the others stay with TLC. `ParserRules` is recursive by nature (rules call each other), and what
it says of a parse is about `RECURSIVE` operators, which the provers do not see. The values of
`Execution` use the operators of `Bitwise`, and its properties compare a program with a reference
definition over the structure of expressions. `PassingEndsApart` and `LoadsEnd` are liveness. For `Optimizer`,
`RegisterAllocation` and `CallFrame` the obstacle is the shape of what they
prove: the properties compare the execution of an arbitrary program with that of its translation, and
an inductive invariant needs the correctness of the fixpoint iterations (`Lifetimes`) and folds behind
the translation, for every path through it. (The proofs of `ScopeExit` are about arbitrary programs too,
but of a compiler that writes its code once and in order: the notes it needs are built along with the
code.) Next in line: that the operands of one instruction never share a place (`RegisterAllocation`, from
`ConcurrentNeverShare`).

## StackManager and FrameBlocks

`StackManager.tla` has the slot list `m_slots` (a `std::list` in address order, here a sequence), and
the table `stack_addrs` in which `Backend::generate` (`src/vm/VMBackend.cpp:465`, `:476`) keeps the
address of each allocation id. Its actions are the two instructions that drive the allocator:
`StackAllocate(id)` is `alloc` (first fit, split, exact fit, append) and the store into the table,
`StackFree(id)` the lookup, `free` (drop the last slot, or coalesce with both neighbours; the
`assert(false)` at its end sets `asserted`) and the erasure of the id. Offsets are naturals: the `u32`
arithmetic, which would need a frame of 4 GiB to wrap, is not modelled.

`FrameBlocks.tla` is what the generator relies on: each id has a block that is disjoint from the
others until it is released. `BlocksSpec` states that StackManager implements it, with the identity on
`stack_addrs`: where blocks go is the allocator's choice.

| Run | Shows |
|---|---|
| `stack_manager` | all orders of allocating and freeing five blocks of sizes 1, 1, 2, 2, 3: blocks disjoint and below `size()`, `free` finds its slot, the frame shrinks as far as it can (`FrameShrinks`), and grows only when no gap fits (`GrowsOnlyWhenFull`), refinement |

Five blocks make a free slot with two free neighbours, an exact fit, a split, and an append in the
presence of free slots all happen; sizes matter only through which of them fit where. Blocks of size
0 (objects of a class without properties) are left out of the run: two slots may then start at one
address, `free` releases the first, and the frame grows without bound.

Proved (`StackManager_proofs.tla`), for any set of ids and sizes, under `NoEmptyBlocks` (no size is 0,
needed because `free` goes by the address alone): `SlotsMatchBlocks`, the inductive invariant `IInv`.
`BlocksDisjoint` is not inductive: nothing in it ties the slots to the table. `IInv` adds that slots
tile the frame from 0, that the slots in use are exactly the held blocks, that free slots are never
adjacent and that the last slot is in use. From it: `TypesKept`, `BlocksNeverOverlap`, `AssertNeverFails`,
`FrameAlwaysShrinks`, `ImplementsFrameBlocks`, and `FreeSpaceIsFound` (the frame grows only if no gap
takes the block: the bytes of a gap are in slots since slots tile the frame, in free ones since those
in use are held blocks, and in one since no two free slots are adjacent; so first fit, which looks at
slots one by one, misses no gap).

## LinearScan

One step of `LinearScan.tla` is one turn of the loop over the lifetimes in `allocateRegisters`
(`RegisterAllocationStep.cpp:209`), in three actions: `AssignRegister`, `SpillActive` (the active
lifetime that ends last gives its register away) and `SpillCurrent`. Each first expires what ended
(`Expire`: the prefix of `active` with smaller ends, whose registers are pushed on `free_regs`) and
ends with the sort of `active`; `std::sort` does not order equal ends, so any sorted order is allowed.
`live` is sorted by begin; `calcLifetimes` makes at most one lifetime per instruction, so begins
differ. The lifetimes and the number of registers are chosen in `Init`.

Run `linear_scan`: every set of up to four lifetimes over five instructions, one to three registers.
`ConcurrentApart` (lifetimes that share an instruction have different registers),
`RegistersConserved` (every register is free or held once), `SpillsTheLongest` (what is spilled ends
last of those under way). Four lifetimes suffice to hold all registers, spill, expire several at once
and reuse a register.

Proved (`LinearScan_proofs.tla`), for any lifetimes and any positive number of registers:
`ScanInvariant`, `ConcurrentNeverShare`, `RegistersNeverLost`, `LongestIsSpilled`.
`ConcurrentApart` is not inductive: that a free register is held by nothing still needed is a fact
about `free_regs` and `active`. `IInv` says: registers in `active` and `free_regs` are all different
and are all of them; `active` is sorted by end; what kept its register and is not active has ended
before the last visited lifetime began. Facts about inserting into and removing from sequences are
lemmas of `SequenceLemmas.tla`.

## RegisterAllocation

`RegisterAllocation.tla` is `RegisterAllocatonStep::execute` on the IR of one function followed by the
execution of its result. `Init` is `calcLifetimes` (`RegisterAllocationStep.cpp:81`: the search for
uses, then the extension over backward jumps, repeated while jumps extend it), which `Lifetimes.tla`
has, because `LivenessData::rebuild` does the same for the optimizer.
`ScanStep` is a step of `LinearScan`, instantiated on the same variables; `FinishGp` and `FinishFp`
rewrite the operands (`Rewritten`), insert `ir_stack_allocate` and `ir_stack_free` (`WithSlots`), and
go on to the floating point lifetimes, which were computed *before* the first pass changed the code.
`Compute`, `Increment`, `Reserve`, `Resolve`, `Skip` and `Jump` then run the code twice in step:
`virt` follows the IR as it was written, `phys` follows the registers and slots as the generator
accesses them (`VMBackend.cpp:271-402` for loads, `:1530-1569` for stores). Values are terms, so two
values are equal only if the same instruction computed them from the same values. A slot operand is
an id until the code is generated: `stack_addrs` replays, in text order, what the generator does with
the table of that name (`:465-481`), first fit on allocate, erase on free, and `Place` is the address
an operand is accessed at. For an id that is not in the table (freed one instruction early)
`stack_addrs[id]` inserts 0, and the access goes to `sp + 0`, where another slot may be. Abstracted:
what instructions compute, the sizes of slots (all equal), arguments and immediates (they have no
lifetime).

The functions are small schemes the compiler emits (`MCRegisterAllocation.tla`): straight code, `while`
and `do` loops as `compileLoop` lays them out, conditional expressions with reserve and resolve, and
code with both kinds of registers, five general purpose and two floating point registers at most,
with one to three physical ones; loops are run at most twice (`MaxTurns`), `MaxLoc` bounds the names
of registers and slots. One register per kind forces a spill at every overlap.

| Run | Shows |
|---|---|
| `register_allocation` | `SlotsOpenApart` (a slot operand lies between its allocation and its free), `WithinRegistersUnmoved` (only existing registers are named), `ReadsAgreeApart` (what is read is what the IR says, on every path), `LifetimesCoverLive` (lifetimes cover the dataflow live ranges). Each holds outside named exceptions |

The exceptions. `stale`: after a general purpose spill the floating point lifetimes are those of the
code before (`RegisterAllocationStep.cpp:60`), and operands keep virtual numbers. `tied`: a spilled
lifetime that ends where another spilled one begins is freed one instruction early (`:341`). Both are
history variables that say whether a behaviour has met the case. Where that leaves an operand without
its slot (`FreedTooEarly`), it is read from or stored to `sp + 0`, and `ReadsAgree` fails. `MayBeSkipped`: a variable assigned
before a loop, reassigned in it behind a branch and read after it has a lifetime that does not reach
the loop (`:144`). `UpdatesSlot` stands for two defects of the generator about a spilled register: one
that is incremented is not loaded from its slot before (`VMBackend.cpp:288`), and one that is
resolved is not stored after (`:1530`, `ir_resolve` does not count as assigning). Nothing is proved about this module yet.

## ScopeExit

`ScopeExit.tla` compiles a function statement by statement and then runs it. `m_scopes` is the stack
of `ScopeManager` from the scope of the function on (a scope is the list of its stack objects and
`didReturn`), `m_lsStack` the loops around, `m_instructions` the IR, `open` the statements whose
bodies are being compiled (the recursion of `compileAny`). A simple statement is one action; `If`,
`Block` and `Loop` open a body and `EndThen`, `Else`, `EndElse`, `EndBlock`, `EndWhile`, `EndDo` close
it, `EndFunction` is `FunctionDef::onExit` followed by the exit of the function's scope. The operators
`enter`, `exit`, `emitScopeExitInstructions`, `emitReturnInstructions`, `stack` and `label` are the
functions of these names, on a draft of scopes, code and counters. An expression is abstracted to a
temporary object, a variable, a read of a variable or a conditional expression; the other IR (calls
of constructors aside) has no effect on scopes. The scope array's parent pointers are positions here:
what happens when the array moves while a loop refers to it depends on `utils::Array`, which is not in
the repository.

Two orders meet: the generator settles slots in *text* order (`HeldBefore(a)` are those held before
the instruction at `a`, as `VMBackend.cpp:465-481` keeps them), objects live in *run* order
(`valued`). `FreesHeld`: a freed slot is held. `LiveHeld`: an object that is alive has its slot; with
`BlocksNeverOverlap` of StackManager this says that objects alive at the same time do not overlap.
`UsesValued`: what is destroyed or used is alive. `NothingLeaked`: nothing is alive at a return.

| Run | Shows |
|---|---|
| `scope_exit` | all functions of up to four statements with up to three objects, loops run twice (`MaxTurns`, one jump back): the four properties outside the exceptions below (`history` says which a function contains). `NothingLeakedApart` holds through returns, breaks and continues too |

The exceptions: `return` with an object in the outermost block destroys and frees it twice
(`Scope.cpp:106`), `break` destroys the objects of the loop's initializer and the end of the loop
destroys them again, a slot freed behind an early return is freed in the text before objects that live
on (`early`, `Scope.cpp:190`), the true side of `a ? b : c` jumps past the construction (or the resolve)
of the result and its temporary object is never destroyed (`Compiler.cpp:3080`), and variables of a
class without an initializer (`DeclareEmpty`) are constructed through a register nothing assigned
(`Compiler.cpp:4456`).

Four statements are enough for an exit from a loop in a branch in a block with an object, and for a
statement behind it. For `RegisterAllocation`, a consequence of the conditional
expression is that its result has no value on its true side; its `ReadsAgree` compares the values that exist.

Proved (`ScopeExit_proofs.tla`), for functions of any length and nesting, with any number of objects
and without an assumption on the constants: `FreesHeldApart`. The fold `HeldBefore` is replaced by
`HeldAt`, a statement about positions of the code (a slot is allocated somewhere before and not freed
since), which one more instruction changes in a way that can be seen. `FreesHeldApart` is not inductive:
what a later exit will free has to be held before. `IInv` says that of a draft (`Good`): its code frees
held slots only, every object of an open scope holds its slot at the end of the code, has an id already
given out, and is in one place of one scope; and that there are as many scopes as the open statements
call for (`Depth`: a loop has two), without which `exit` would not be known to have a scope outside to
hand a saved object to. Each operation of `ScopeManager` has a lemma that it keeps `Good` (`EnterGood`,
`OnStackGood`, `ExitGood`), expressions and statements are chains of these. What an exit emits is a
fold over the objects of a scope (`DestroyCode`), and the proof that it frees each of them once, the
saved one aside, is an induction over them (`DestroyLeaves`). That no two objects of the open scopes
are the same is what makes a later destructor find its slot held. The exclusion of `early` is used in
three places only: behind `continue`, `break` and `return`, whose exits are then empty.

Proved (`ScopeFlow_proofs.tla`), as generally, for every path and any number of turns of a loop:
`LiveHeldApart`, `UsesValuedApart` and `NothingLeakedApart`. They are about the running function, and
nothing in the state says what is alive at an address. So the invariant says that notes exist: a set `R`
of addresses that may be reached and, for each, the set `A[a]` of the objects alive there (`Flowing`:
the notes of an instruction and of those behind it agree, a jump carries its notes to its targets,
nothing is alive at a `ret`, what is freed is not alive, what is alive holds its slot). While the
function is compiled (`FlowWriting`) the notes agree with what is open. At the end of the code the
objects alive are those of the open scopes (`AtEnd`); at a jump that waits for a label they are those of
the scopes that will be open at that label (`Waits`, for the branch of an `if`, the jump over an `else`,
every `break`); at the label a loop is continued at they are those of the scopes outside its body
(`Begins`). A statement makes the code longer and keeps the notes of what there was (`Grows`), which is
how the jumps and labels of all statements around it stay right. While it runs (`FlowRunning`), `valued`
is compared with `A[pc]`: at most that, unless a variable has no initializer, and at least that,
unless an early exit left objects that the code it goes on with takes for alive (`Exact`).

The two halves are why the exceptions of the three properties differ: a second destructor call (`return`
out of a scope with objects, `break` out of an initializer) makes `valued` smaller than the notes, which
hurts `UsesValued` and neither of the others; an early exit costs `LiveHeld` only, because then
slots are freed in text order before the objects behind another branch are done with them. The notes of
the exits are sets, so the proof needs of the folds of `Scope.cpp` what they destroy and that they destroy it
once (`ScopeExitShape`, `ReturnShape`), and of the end of a function that its last return is followed by
no address that may be reached (`FinalExit`: the exit of the function's scope is dead code). `FlowInv`
quantifies over functions on addresses, so TLC does not evaluate it; the three properties it is for are
checked by `scope_exit`. A function with a conditional expression is outside the invariant, since the code
goes wrong there (`Compiler.cpp:3080`).

## Optimizer

`Optimizer.tla` takes a function through `defaultOptimizations` as `Pipeline::postCompile` drives it.
One step is one call of `execute` of a pass: `CopyPropagation` and `CommonSubexpressionElimination` on
the basic block `block` (each is called again until it changes nothing, then for the next block),
`ReduceMemoryAccess` on the function; these three, the inner group, are repeated while one of them
asked for it (`m_doRepeat`); then `ConstantFolding` once and `DeadCodeElimination` until nothing is
dead. Inside a pass, the loop over the instructions is a fold whose accumulator has the maps of the
code: `assignMap`, `loadMap`, `storeMap`, `lastAssign`. `liveness` is what the last `rebuildAll`
computed, which is not always about the present code: a replaced load does not cause a rebuild.

Instructions stand for classes of them: `add` for operations on two values, `inc` for those with one
operand, `vmag` for those that read memory through a register, `vset` for those that write it. What a
function does (`Observed`) is what it passes as parameters, branches on, and leaves in memory, at each
call and in the end, when it is run with both ways of every branch, twice (`MaxTurns`), and both
possible targets of the second pointer and the second argument (`Origins`: equal to the first or not). Two codes are
`Same` if they do the same in all of these.

| Run | Shows |
|---|---|
| `optimizer` | 5322 functions: three arithmetic instructions; four loads and stores with calls, writes and reassigned pointers between; accesses at offsets and through arguments; branches around assignments; loops. `CopyRightApart`, `CommonRightApart`, `MemoryRightApart`, `DeadRightApart`: a pass leaves what the function does, unless it relied on something that `met` names. `Terminates`: within `MaxSteps` executions (30 are needed) all is done, unless a register is assigned itself |

`met` names what the code relies on although it may be wrong; each of these has a function in the run
in which it is (checked by allowing one at a time): `stale copy` (`x = y`, then an assignment
to `y`: uses of `x` become uses of `y`, `CopyPropagation.cpp:140`), `own operand` (`a++`
and `b++` are taken for the same expression), `memory read` (`vmag` of memory written in between),
`join` (an address known from before a label), `argument` (the maps are keyed by the id of the register that
holds the address, which is 0 for every argument, so that two arguments are taken for one address),
`not noted` (a load at an offset is skipped, with the note that it assigns its register), `pointer moved`, `alias`, `loop` (a loaded value that is
used further up), `branch` (`x = 1; if (c) x = 2; use(x)`: the first assignment counts as dead). The
history is precise: an execution with none of them must be right, so a forgotten erasure or a missing
effect is found (the mutants).

Three instructions are enough for copy, reassignment and use, and for two equal expressions with an
assignment between; four accesses for load, store, effect and load. Folding is modelled for sums only here;
what it does to types and widths is in `Execution`.

## CallFrame

`CallFrame.tla` generates the code of every function of a module and runs it. In `generate`, `gen` is what
`Backend::generate` holds for the function at hand: the next IR instruction, slots, saved registers,
pending parameters, labels still to be resolved. Its actions are the cases of that function
(`GenerateOp`, `GenerateStack`, `GenerateJump`, `GenerateReturn`, `GenerateParam`, `GenerateCall`), one
step of the loop that moves parameters (`PassParameters`, phase `pass`), `FinishCall`, and
`FinishFunction` with the epilogue and its patches. Phase `vm` is the loop of `VM::executeInternal`
(`Memory`, `Compute`, `Jump`, `Call`, `Return`, `Terminate`), phase `host` a host function under way:
`CallScript` is `Backend::call` (nesting, saved registers on `m_stored`), `HostReturns` the end of
`VM::call_external`. Beside registers and stack the model keeps, per function in progress, what the IR
says its variables are (`frames`, `native`); the properties compare the two.

Run `call_frame`: 795 modules. The host calls main, main calls f, f calls g (a script or a host
function), which may call h. The code in the functions varies how many arguments there are, of which
kind, used before or after which call, and around which branch or loop. `ArgCount` is 3 and 1 where
the VM has 8 and 8, so that few arguments already go to the stack and to registers that have to be
backed up; `Temps` is 2; `MaxStack` and `MaxTurns` (backward jumps) end a run that grows, so
deadlock is not checked.

- `OperandsAgreeApart`: what an instruction reads is what the IR says, through calls, backups, spills
  and slots. Exception `LoopsBack`: an argument used before a call in a `do` loop is not backed up for the
  next turn (`VMBackend.cpp:133`).
- `ParametersArrive`: every callee finds its parameters where it looks for them.
- `CallsReturnApart`: a call comes back with the registers it found. Exceptions: early returns of
  functions that save registers (the patch tests for `jmp`, returns are `jmpr`, `VMBackend.cpp:1596`), and
  host functions that call back a function with more arguments than their own (`:1637`).
- `PassingEndsApart`: all parameters are passed some time, unless arguments trade places. The run
  `passing_hangs` is that case: `g(b, a)` in a function of `(a, b)` is never generated.

Not modelled: sizes (each value fills a unit), conditions (any branch may be taken), exceptions; the
build is a release build (`VMBackend.cpp:219` asserts what is false for every argument on the stack).

## BuildCache

`BuildCache.tla` is `Context` (`m_modules`, `m_moduleIndices`), `Workspace` with `PersistenceDatabase`
(`m_scripts`, `m_sources`, `last_state.db`, cache files) and the recursion of pipelines: a frame of `stack`
is a build, a step is what it does between two points at which something else may happen (a file is
read, a child is asked for, a child returns). `HostLoad` calls `getModule`; `LoadModule` decides between
cache and source; `BuildFromCached`, `AskDependency`, `TakeDependency`, `CompareVersions`, `Link` and
`LinkFails` are the way from the cache; `BuildFromSource`, `AskImport`, `TakeImport`, `Specialize`,
`TakeSpecialization`, `Remake`, `PostCompile` and `OnScriptCompiled` the way from the source. `service`
is a scan. The environment: `Edit` writes a source at any time (a content is named by its time and is
sound, unparsable or ill-typed), `Shutdown` writes the database, `Kill` ends the process at any step,
leaves the file it was writing torn (cache file or `last_state.db`), and keeps the rest; `Start` restores.
`createModule` gives no second module of a path (`Context.cpp:111`): a build from the cache is then missed,
one from source goes on without (`m_mod` of its frame) up to `Compiler::end`, which asks it for its name.
`BuildFromSource` gives up if the parser, or any other build of this load, has left errors
(`Pipeline.cpp:136`); errors of types are met behind the imports (`illTyped`, `CompileError`), and with errors
no code is generated (`generated`, `Pipeline.cpp:490`, `:501`), so that `Initialised` runs none.
Undefined behaviour sets `fault`: `overflow` (builds nested beyond `MaxDepth`), `no_metadata`, `null_module`,
`no_compiler` (`Pipeline::reset`, also that of `Shutdown`), `dangling_metadata`, and a torn database deletes
its metadata twice (`RestoreTwiceDeleted`).

| Run | Shows |
|---|---|
| `build_cache` | two scripts, one importing the other (and specializing a template of it), or each the other: `LinkedAsCompiledApart` (outside of edits while the process runs, what comes from the cache was made from the present source, and from what its imports are now), `IndicesFind` (also with imports that form a cycle), `InitBeforeUseApart`, `FaultsNamed` (a step of undefined behaviour has its named cause) |
| `loads_end` | every load ends (`LoadsEnd`) |
| `stale_links` | **finding**: a third script in the chain is edited; the middle one is built again, the first is linked with it although it was compiled with the former one |

`MaxClock` 4 allows two edits with a compilation between and after; `MaxSessions` 2 is a session that
fills the cache and one that uses it; `MaxDepth` 3 (4 for the chain) is one more than imports nest.

The exceptions. `quiet` (no edit since the session began) and `trusted` (no edit while the module was
made, nor while those it uses were): an edit between reading a source and saving its module makes the
cache newer than what it was made from (`Workspace.cpp:454`); `m_sources` keeps the first content read.
`Cyclic` imports: modules from cache files load each other without end (`Output.cpp:268`, before the
module is registered at `:342`), or find their module made by a build within them (`null_module`), and
from source each runs before the other is initialised.
`InitBeforeUseApart` is about modules compiled in this session: a module from the cache does not
initialise its dependencies, and `Module::init` marks one that has no functions yet.

Proved (`BuildCache_proofs.tla`, `BuildCacheOrder_proofs.tla`, `BuildCacheLinks_proofs.tla`), for any
scripts, templates, imports, contents, edits and numbers of sessions, all four safety properties of
`build_cache`. The assumptions are those of `BuildCache`: the graph is one (`GraphAssumption`), the two
answers of `getModule` that are not modules are not paths (`AnswersAssumption`), and the C++ stack has
room for as many builds as there are modules (`DepthAssumption`: the number of paths is finite and at
most `MaxDepth`; without it `overflow` needs no cycle, only a long chain). Nothing is assumed about
edits, crashes or fairness. The argument, in the order of the modules:

1. *The stack* (`Invariant`, conjuncts of `IInv`). Each frame builds what the frame below asks for, and a
   frame asks only for what its script imports, its template's declaring script, or a template of what
   it imports (`Uses`). `CacheOK` says so of every cache file as well, since a build may follow a file of
   an earlier session. What a frame relies on stays registered and is not built above it (`ReliesOK`),
   and what one step decides still holds when the next uses it (`TopOK`, `AnswerOK`). `TypesKept` is a part.
   So is `IndexIsRight`, for any imports: `destroyModule` does not renumber, and is right because the
   module it removes is the last one (`TopOK`); `createModule` asks for the index first.
2. *Order* (`OrderKept`). A path that is on the stack twice closes a walk along `Uses`, which passes scripts
   that import each other (`WalkIsCycle`). So without `Cyclic` paths on the stack are distinct
   (`PathsDistinct`), there are at most as many frames as paths (`NoOverflow`), a module is made only
   while there is none of its path, and it is initialised only when its build is over. `GeneratedKept`
   says which modules have code: all that are built, but that of a root build from the cache which had
   errors; no build follows it, as the reset ends the session. Together they give `InitBeforeUse`.
3. *Causes of faults* (`CausesKept`, `FaultInv`). In the first session no cache file is read, so none can fail to
   link. Until an edit the metadata of every script with a source is there. With sound sources, no
   edit and no cycle, no build has errors: a module that is not built is that of a build under way, and
   nothing asks for one of those. `FaultsHaveCauses` follows step by step; it is an action property
   because the states after a fault no longer show what caused it.
4. *Links* (`LinksKept`). `DateInv` follows dates over sessions, from sources to metadata, to the
   database and the cache files and back: metadata is never ahead of the files, and a calm cache file
   that is younger than its source was made from it. `Made` follows contents: the versions written into
   a calm file are the contents that went into the module, and the modules a module was compiled
   against are settled. Together they give `LinksAreRight`.

The proof changed the property. Its earlier form excluded only modules whose own build an edit had
disturbed, and TLC found nothing against it within `MaxSessions` 2; the induction failed at a third
session. There, in a chain of three scripts, a file made in a quiet session was made from a dependency
that came from a stale file, and TLC, given that chain and three sessions, found the state. The
exception is inherited by what uses such a module, and `trusted` now follows `AllTrusted`: history
only, no step of the code changed.

`LoadsEnd` needs fairness and stays with TLC.

## Transactions, ParserRules, ParserTransactions

A parser is a record of tokens, the two stacks that `begin`, `commit` and `revert` move (`Transactions.tla`),
and the node last returned, of which only its kind is kept, since that is what rules test. Each rule of
`parser.cpp` is an operator of `ParserRules.tla` of the same name from parser to parser; rules call each
other through `Call`, which records rules that left transactions open or ended too many (`leaks`),
that moved although they found nothing (`strays`), failed without a message (`mute`), used a node that
was not there (`crashes`), or dropped tokens (`unread`). `ParserTransactions.tla` is `Parser::parse`: a step
is a statement of the outermost list (`Statement`), `Finish` the test for the end of the file.

Run `parser`: a sentence or more for every construct and every source one change away: a token left
out, put in, replaced, or the rest lost, which makes every rule fail at each of its ways out. Two
changes at once would mean two errors of which the second is met in the state the first left behind;
`leaks` and `strays` cover that state. `.fuel` bounds the depth of a parse. Named exceptions:

- `Unbalanced`: `typeSpecifier` leaves a transaction open (function types), which makes
  `sizeof<() => id>` read wrong; `new X() => ;` ends a transaction of its caller.
- `Straying`: rules that return null behind the token they began at.
- `Crashing`: `classDef`, `typeDef`, `functionDecl`, `importList` free a null node;
  `expressionSequence` and `variableDeclList` follow null after two commas; `as i32` builds a cast
  without an operand.
- `Unreadable`: `try` with `catch` never parses (`parser.cpp:3811`), `while (x) y;` needs a second `;`, the
  string literal `"*"` is read as an operator.

`ErrorsExplained` and `StatementsAdvance` (the parser reads something in each turn) need none, but
that tokens behind the expression in a template string are dropped.

## Numbers, VirtualMachine, Instructions, Expressions, VectorMath, MatrixMath, Execution

From a script's expression to its value. `Expressions.tla` has the operators of `compiler::Value` and the IR
they append, conversions and casts, assignments and increments, and constant folding; `VectorMath.tla`
and `MatrixMath.tla` the IR that the inline methods of `builtin/Math.cpp` append (written, like the C++
templates, for any scalar type: `Instantiate`). `Instructions.tla` is the choice of instructions in
`VMBackend::generate`; `VirtualMachine.tla` executes them on untyped registers and cells
(`executeInternal`), with types and widths from `Numbers.tla`. `MathReference.tla` and
`ExpressionReference.tla` say what the results should be, without the IR. `Execution.tla` composes them:
`Compile` is one step, then each instruction is one (`Execute`). Registers are one to one, as
`RegisterAllocation` settles the rest.

Run `execution`: 13,640 programs. Every bound method in `f32` and `f64`, with itself as the argument where
it can be, on inputs whose results are exact; 12,461 expressions: each operator on each type
with operands in registers, immediates, pointers and fields, mixed types, updates, assignments,
conditions, casts, and the quotients of the least number of a type. Widths are scaled (`Wide` 12 for 64 bits, `Single` 8 for 32, `Narrow` 4 for 8),
wide enough that a value overflows each smaller type and not the larger one; floats are fixed-point
numbers with `OneD` (`OneS`) patterns per unit, so that an integer taken for a float, or an f32 for an f64,
is another number. `Leftover` is what an unset register holds, and its use is recorded in `strayed`. Roots,
sines and the like are answers of the host. A program ends, so deadlock is not checked.

- `VectorsRightApart`: a method gives the mathematical result and uses nothing unset. In place products
  read what they have begun to write, with the object for its own argument too.
- `ScalarsRightApart`: an expression has the value its types give it, and leaves it in its variable.
- `OperandsKept`: no step changes a variable it does not assign.

The exceptions, at their definitions in `Execution.tla`: setting a vec4 throws (`SetsVec4`), `vec -= vec` adds
(`Subtracts`), a returned product overwrites its transposed operand (`ReturnsProduct`), `vec3(vec2, z)`
stores before it loads (`WidensLate`), the dot product of quats selects nothing (`DotsQuats`), `cross` of
vec4 and `mat4 * vec3` leave w (`LeavesW`), signs in `orthographic` are lost (`ForgetsSigns`); of
expressions, `TruthOfFloats`, `LogicalImmediate`, `FloatBits`, `DropsRemainder`, `GivesOperand` (`-x`, `!x`
and `~x` are `x`), `MirrorsOrder` (`c < x` becomes `x >= c`), `OrdersUnsigned`, `ShiftsWrongBits`,
`TruncatesCondition`, `ZeroExtends` (negative numbers of small types loaded from memory), `Unreduced`
(numbers that outgrow their type in a register) and `ReadsLate` (`x - (x = y)`). Operations without a
defined result (`Undefined`: a division by zero, or of the least i64 by -1) are left out of the comparison: in the VM the
division traps (`NoQuotient`), of constants it ends the compiler (status `crashed`). A load or a store
behind the end of the stack is thrown out (`StackPadding`); the programs of the run have no object there.

Not modelled: 16-bit loads and stores, colours and text forms of vectors, conversions from matrices.
Nothing is proved about `ParserRules` (recursive operators) and this family (bit operations), which are
out of the prover's reach; the claims about them are for the bounds of the runs.

## Fairness and liveness

Two specifications assume weak fairness, of steps that wait for nothing:

- `WF_vars(BuildStep)` in `BuildCache`: a build is a call that runs on one thread and never blocks,
  so its next step is taken some time. Nothing is assumed of edits, scans, the host or the death of
  the process. `LoadsEnd` needs it.
- `WF_vars(PassParameters \/ FinishCall)` in `CallFrame`: `Backend::generate` does not stop between two
  parameters. `PassingEnds` fails although it is assumed (run `passing_hangs`), so the counterexample
  is a loop of the code and not a stop; `PassingEndsApart` needs it.

Elsewhere progress is a safety property, which is stronger than that something happens in the end:
`Terminates` of `Optimizer` bounds the number of executions of passes, `StatementsAdvance` of
`ParserTransactions` says that each turn of the parser's outermost loop reads something. (Fairness of
the parser's statement step would make TLC evaluate whole parses again for ENABLED.)

## Exceptions in properties

A property with `Apart` in its name holds outside exceptions that are named in it. Each exception is a
place where the code does go wrong, named for what it does, with the line in the comment or in the
section of its module; each was seen to be met, by taking it out and reading the counterexample. Two of
them have a violation run of their own that states what a comment of the source says without the
exception: `passing_hangs` and `stale_links`. When the code is mended, the exception is to be removed.

## Hazards without a property

`hazards` of `PROJECT.json` lists what the properties cover. Known, and covered by none:

- `src/ffi/Closure.cpp:55`: assigning capture data keeps the reference to the old data; and
  `src/ffi/Object.cpp:33` compares a count with zero before it decrements it. Both wait for `SharedData`.
- `src/compiler/Compiler.cpp:4604`: the stack of loops is not kept per function, so `break` in a function
  declared in a loop finds the loop outside. `ScopeExit` compiles one function at a time.
- `src/backend/StackManager.cpp:22`: a block of size 0 splits every slot and shares its address with the
  next block (`NoEmptyBlocks` excludes it, the proofs need it).
- `src/vm/VM.cpp`: an exception of a host function or of the VM itself is a C string that
  `VM::execute` does not catch, so the nesting level stays raised and saved registers stay on `m_stored`.

## Not modelled

- **Declarations, calls and overloads in the compiler; the type system; registries.** Their result is a
  tree of types and symbols, and what goes wrong in them shows in wrong types, which needs a model of
  the type language. Overload matching is next in the plan. The parts of the compiler that keep state
  across steps (scopes, loops, imports, specializations) are modelled.
- **Lexer, configuration, source maps, template contexts**: functions of the text, or records.
- **Bindings**: C++ templates that move arguments into the layout that `CallFrame` takes as given.
- **Array, Pointer, Closure, Object**: reference counts; left in the plan.
- **Encoding of cache files**: which file is read when, and what is missing from it, is in `BuildCache`;
  the bytes of types and functions are not.
- **Tools**: they print what the library returns.
