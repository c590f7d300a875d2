# TLA+ models of the ruphi compiler

ruphi (`rph`, `narval`) is a C++20/LLVM compiler for a small language with braces
and semicolons. Besides batch compilation it has a REPL and a notebook that compile
and run one *unit* (a line, a cell) at a time inside one process. This directory
holds TLA+ models of that interactive engine, of the loading of modules, and of the
compiler itself from the text to the program that runs; the TLC runs that check
them on small instances; and TLAPS proofs of what matters most in the engine, the module
loader and the scanner for every instance.

Paths below are relative to the repository's root; `interactive/` stands for
`src/frontend/interactive/` and `include/frontend/interactive/`.

## 1. Inventory

### The interactive engine

| component | state | operations | talks to |
|---|---|---|---|
| `SessionManager` (`session_manager.cpp`) | a symbol table (name -> kind, type, validity, version) and a symbol dependency graph (two hash maps, forward and reverse) | `commit_unit`, `invalidate_symbol`, `reset`, `add_symbol`/`redefine_symbol`, `is_symbol_valid` | called by the semantic analyzer (commit) and by the notebook (invalidation of withdrawn symbols) |
| `EpochManager` (`epoch_system.cpp`) | an epoch counter, epochs (validity, cells, symbols), current epoch of each cell, producer epoch of each symbol, epoch dependency graph | `create_epoch_for_cell`, `invalidate_epoch`, `commit_epoch_interface`, `reset` | called by the notebook only |
| `IrIncrementalBuilder` (`ir_incremental_builder.cpp`) | fragments (active or not, symbols), producer fragment of each symbol, fragment dependency graph | `build_fragment`, `commit_fragment_interface`, `invalidate_fragment` | called by the orchestrator; emits LLVM IR |
| `IncrementalSemanticAnalyzer` | the checker's global scope and error flag | `analyze`: parse, validity of used symbols, check, commit | parser, checker, session |
| `JitExecutionEngine` | the modules in one `JITDylib`, their resource trackers | `add_module`, `execute`, `remove_module` | LLVM ORC |
| `InteractiveOrchestrator` | the engine, `unit_counter`, the tracker of each fragment | `execute`, `reset` | all of the above |
| `Notebook` (`interactive_session_impl.cpp`, `main.cpp`) | cells (text, epoch, flag) | create and run cells, reset, save | orchestrator, epochs, session |
| `Repl` (same files) | the step counter | execute a line, `:clear` | orchestrator, session |
| `SymbolCollector` | none | the defined and used symbols of a unit | analyzer, builder, epochs |
| `FragmentParser`, `ExecutionUnit` | none | wrap lexer and parser; an immutable record | analyzer |

The engine is single threaded. What makes it hard is *order* and *partial
failure*: three dependency graphs over three kinds of nodes are updated in three
different phases of one call, a call can fail between any two phases, and
nothing is rolled back. A unit's symbols are committed in hash order. Fragment
ids are reused by every execution of a cell, while epochs are numbered afresh.
Dependency graphs may become cyclic through redefinition. What should hold: a
symbol, epoch or fragment that is called valid rests on valid ones only; the
invalidation of a node reaches exactly what is downstream of it; what the
notebook shows as valid is really live; code of earlier lines stays callable.

### The compiler

| component | state | what makes it correct |
|---|---|---|
| Lexer (`frontend/lexer/`) | a cursor (position, line, column), the tokens, a list of imports | no character is lost or read twice; positions in messages are true; the longest operator wins |
| Parser (`frontend/parser/`) | token cursor | the tree is the one the text shows; what is refused, and what of a broken text is kept |
| Syntax tree (`frontend/ast/`) | none | nodes are rewritten in place (declarations, flattened else blocks) without losing a statement |
| Symbol collector (`symbol_collector.cpp`) | none | no dependency of a unit is missed |
| Checker (`frontend/checker/`) | namespaces, type variables, error flag | types that differ are told apart; unification ends; every variable gets a type before code is made |
| Import checking (`check_import_stmt.cpp`) | a static set of checked imports | every imported name is declared, cycles end |
| `ModuleManager` (`module_manager.cpp`) | modules by name, compilation order | every import is loaded before its importer; a cycle is reported |
| Code generation (`backend/codegen/`) | basic blocks, insert point, symbol tables, loop targets, a stack of values | blocks are closed once; control flow means what the source means |
| Runtime (`backend/runtime/`) | boxed values, type registry | operations on values, fixed-width integers |
| `main.cpp` | none | interactive loops; batch pipeline up to the object file, then external tools |

The compiler is a pipeline, `tokenize`, `produce_ast`, `check_node` (twice: by the
module manager and by the driver), `generate_ir`, then LLVM. The stages hand over
tokens and one mutable tree, which the checker rewrites, and the code generator
calls the checker again for the type of each declared variable. What makes it hard
is what one stage silently assumes of another: half a program that the parser
returns after an exception is compiled, an error of the checker stops nobody, the
scopes of the checker are gone when types are asked for, and the blocks of nested
statements are made in one order and filled in another. Nothing persists and nothing
runs concurrently: there are no crashes to recover from and no messages to lose.

`interactive_session.cpp` is disabled with `#if 0`. `lib/networking` is a C
library shipped beside the compiler. The complete list of components with their
status is in `PROJECT.json`.

## 2. Modules

| module | models |
|---|---|
| `DependencyGraph` | the two edge maps that three classes share: `set_dependencies` and its two copies; `Dependents`, what a search over reverse edges ought to return |
| `DependentsBfs` | the search itself, one queue operation per step, in any iteration order of the sets |
| `Invalidation` | the abstract specification: live nodes, and the promise that defining or withdrawing a node stales exactly what is downstream |
| `SymbolInvalidation` | `Invalidation` refined by the set of known names: a redefinition stales what is downstream, a first definition nothing |
| `SessionManager` | the symbol table, its graph, and `commit_unit` one symbol at a time |
| `EpochManager` | the epoch system, one action per operation of `execute_cell` on it |
| `IrIncrementalBuilder` | fragments, producers and their graph |
| `Orchestrator` | `InteractiveOrchestrator::execute` as a sequence of phases over instances of `SessionManager` and `IrIncrementalBuilder`, the checker's scope and error flag, and the JIT's modules |
| `Notebook` | the orchestrator composed with an instance of `EpochManager`, the cells, and the command loop |
| `Repl` | the orchestrator, the step counter, `:clear`, and the command loop |
| `ModuleManager` | batch loading: the recursion over imports, the recursion of the checker into imported files, and the combined program, each with its own stack |
| `Lexer` | `tokenize` and its tokenizers, one action per branch of the loop and per item of an import statement, over a text of characters |
| `Ast` | a constructor per node class, and the parts of a node that hold statements |
| `Parser` | every `parse_*` function, as an operator from a token index to a node and the next index; both ways a syntax error ends |
| `SymbolCollector` | `collect_symbol_usage` |
| `TypeContext` | types, type variables as cells, unification, generalization, namespaces |
| `Checker` | the check function of every node but import; errors, exceptions and endless recursions |
| `Codegen` | `codegen` of every statement but import, and of expressions over ints, booleans and collections, as an operator from one context to the next |
| `Machine` | the program that was made, one instruction per step (external: LLVM and the processor) |
| `Semantics` | the abstract specification of the compiler: an interpreter of source trees without basic blocks |
| `Compiler` | a program on its way through all of these, and the properties of each stage |
| `*Proofs` | theorems and proofs about the module they are named after; `CommandLoopProofs` about `Notebook` and `Repl` |
| `MC*` | model values for TLC |

How state corresponds to code:

* A hash map becomes a total function; a missing key and an empty set (or an
  entry of version 0, an inactive blank fragment, producer 0) are the same value,
  because every reader in the code treats them the same.
* `Dependents` is defined as the least closed set of nodes. `DependentsBfs` is
  what justifies using it in place of the queue loops: the run `bfs` and theorem
  `BfsCollectsDependents` say that the loops return exactly that set.
* `commit_unit` iterates an `unordered_set`, so `CommitSymbol` takes the pending
  symbols in any order. The dependencies of every symbol of a unit are the unit's
  used symbols, as in the code.
* `seen` in `SessionManager` is a ghost: the versions a definition was computed
  from. `removalFailed` and `failedLate` (a call has failed after its unit was
  committed) in `Orchestrator` are ghosts too. No guard reads any of them.
* A call of `execute` is the sequence of phases `analyze`, `commit`, `unload`,
  `remove`, `build`, `add`, `run`; each early return of the code is a failing
  action that leaves the effects of the earlier phases in place. A syntax error
  (`Parser::error` calls `exit`) and an exception out of code generation end the
  process.
* A source text is abstracted to its interface: the symbols it defines and uses
  (what `collect_symbol_usage` returns) and those it exports to the linker (its
  `def`s). `SymbolCollector` models how those sets are computed.
* In `ModuleManager` a recursion is a stack of frames and one action is one step of
  its body. A path is what the import statement spells: where the file lies
  (`here`, `down`, `up`), its bare name, and whether there is an extension; a module
  name is a bare name. A recursion deeper than `MaxDepth` ends in `overflow`, and
  storing a module over one whose import list a caller is iterating (a use after
  destruction in C++) ends in `undefined`.
* A unit may use any name but one that the session has and holds invalid (`Accepted`):
  `analyze` rejects only those. A name the session does not have may be imported, be a
  comprehension variable, or be defined by a later unit. What the checker rejects is a
  matter of the checker's scope: a unit's interface in `Orchestrator` says, besides the
  names the collector records as used, which of them the checker looks up (`looked`, and
  for the rewriting of assignments `assigns`); the elements of a vector are not among them.

* The compiler's recursive functions are RECURSIVE operators that thread the state
  of the C++ objects: the token index, the checker `C`, the generation context. A
  stage is one action of `Compiler`, except scanning and running, which are one
  action per token (and per item of an import) and per instruction.
* The scanner has no recursion, so that it can be proved about: the loops that skip or
  take characters end at the least position with some property, and the value of a
  string is a fold over its characters. `LexerSpec` is the scanner alone, over any text.
* A source of `Compiler` is a text together with the tree it was written from. The
  text is printed from the tree by `MCCompiler`, so that scanning and parsing can be
  compared with what was meant. Only the printer writes text; the compiler never
  sees the tree.
* A type variable is a cell with an id and, once bound, an instance. Ids are the ones
  `get_next_var_id` hands out, hence not unique. A recursion through a type that
  contains itself, and a null node that is followed, end in `crashed`.
* In the generated program a call of a function of the source is an event with any
  result in `Results`; bodies of functions are generated and checked for form, and not
  entered. What LLVM refuses (a block ended twice or not at all, a branch into
  another function) makes a program `refused`.

## 3. Runs

| run | question | instance |
|---|---|---|
| `bfs` | does the shared search end, emit every dependent, and each one once? | all 512 graphs on three nodes, all iteration orders |
| `session` | does any redefinition leave a dependent valid? does the session do what `SymbolInvalidation` promises? | three symbols, each of which may be used before it is defined, three versions each |
| `session_order` | does a unit leave its own definitions valid? (violated, see 6) | as `session`, two versions each |
| `epochs` | do validity, producers and dependencies of epochs agree? | three cells, two symbols, five executions |
| `fragments` | the same for fragments, whose ids are reused | three fragments, two symbols, no bound on rebuilds |
| `notebook` | do JIT modules, cell flags, epochs and symbols agree between commands? until a call fails late, is every cell shown as valid, and the code of every valid symbol, loaded? | three cells, five texts, five executions |
| `notebook_unloaded` | is a cell shown as valid still loaded? (violated, see 6) | as `notebook` |
| `repl` | does code of earlier lines stay loaded? | four lines, three symbols, five texts |
| `modules` | does loading end, are cycles told from diamonds, is the combined program in order and complete? | a main file, two files and a missing one, all import lists with up to three imports in all, 50 layouts, with and without checking |
| `compiler` | does each stage keep what the text said, are types told apart, are the blocks well formed, does the program do what the source says and end? | 140 programs (97 of them with none of the three excepted statements), every beginning of one, 216 chains of operators, 18 fragments, 22 texts, 289 pairs of types |
| `modules_transitive` | do imports of imports reach the combined program? (violated, see 6) | as `modules` |
| `compiler_comments` | is any of four comments of the compiler true of every program that runs? (violated, see 6) | one program of six statements, which has a shape for each |

Why these bounds are enough for the interesting cases. Three nodes give a chain
(a dependent of a dependent), a diamond, a self loop and cycles of length two and
three. Three versions give two redefinitions of every symbol, in any order, and
withdrawals without bound. Five executions over three cells give a chain of three
dependent epochs and two re-executions in the middle of it. Two symbols are the
least number with which one cell uses what another defines and defines what that
one uses. Four REPL lines are enough for a definition, a use, a redefinition and
a use of the redefinition. Three imports between three files give a chain, a cycle of
every length, a self import and a file imported along two paths; the layouts give
files of one name in two directories, files named like the main module, and a missing
file that shares its name with one that exists elsewhere. The
bounds are `MaxVersion`, `MaxEpoch`, `MaxUnits`, `MaxDepth` and the size of
`Fragment`; each appears as a guard. `MaxDepth` exceeds every depth that a program
without cycles can reach: it is more than the number of files and one (assumption `DeepEnough`,
which also says that the files are finitely many). Deadlock is
not checked in the bounded runs, which stop at their bound, and in `bfs`, which
stops when the search is over.

For the compiler the instance is a set of programs. They combine every control
statement with bodies that fall through, break, continue and return, alone and
nested, over the conditions `c() == 1` of a function that may return 0, 1 or 2
(`Results`): every path through a program is taken. Words have three bits
(`MinInt` = -4, `MaxInt` = 3), so that a loop reaches the largest integer in four
turns; no property depends on the width. A run is abandoned after `MaxEvents` = 6
calls and writes, enough for two turns of every loop and what follows it; the prefix is
compared all the same when a run ends. The pairs of types take two terms from 17:
literals, names of two loops, tuples, arrays, vectors and maps with and without those
names in them, which gives every case of `unify`, with a variable on either side,
bound or not. Texts for the scanner contain every kind of token and every way a
tokenizer can fail. Deadlock is not checked because a compilation ends.

**Fairness.** `Compiler` states `RangesEnd` under weak fairness of `Execute` alone: the
program that was made is run by one thread that goes on. `DependentsBfs` and
`ModuleManager` state liveness (`Terminates`, `LoadingEnds`), under weak fairness of the
whole next-state relation: the loop of a single-threaded program that nothing suspends
keeps taking steps. The other modules make no liveness claim: a user need not type another
line.

## 4. What is proved

TLAPS checks the following for every value of the constants.

| theorem | states |
|---|---|
| `BfsCollectsDependents` | a search that ends has emitted exactly the transitive dependents of its source |
| `BfsEmitsOnce` | no search emits a node twice |
| `BfsShrinks` | on a finite graph every step of a search takes something from a natural number: no search runs forever |
| `SetEdgesMirrored` | `set_dependencies` keeps the two edge maps mirrored |
| `SessionTypeOK`, `SessionFreshAfterFirst`, `SessionVersions` | the invariants and the action property of run `session` |
| `SessionGraphMirrored` | the two edge maps of the session mirror each other, on which `SessionFreshAfterFirst` and `SessionRefines` rest |
| `SessionRefines` | `SessionManager` implements `SymbolInvalidation` |
| `FragmentProducerActive`, `FragmentDependsOnActive`, `FragmentAcyclic` | the invariants of run `fragments` |
| `FragmentsRefine` | `IrIncrementalBuilder` implements `Invalidation` |
| `EpochProducerLive`, `EpochDependsOnValid`, `EpochDependsOnEarlier`, `EpochOneValidPerCell` | the invariants of run `epochs` |
| `EpochsRefine` | `EpochManager` implements `Invalidation` |
| `NotebookShownValidIsLive`, `NotebookModulesTracked`, `NotebookSymbolsFreshAfterFirst`, `NotebookLoadedUnlessFailedLate`, `NotebookValidSymbolsLoaded` | the invariants of run `notebook` |
| `NotebookRunsSession`, `NotebookRunsEpochs`, `NotebookRunsFragments` | the notebook implements the specifications of its three managers: `NotebookSpec => Session!Spec`, and so on |
| `NotebookRefinesInvalidation` | hence the abstract specification of each of the three in the composed system |
| `NotebookCalledInOrder` | the notebook calls the managers only in the states in which they expect it |
| `ReplRunsSession`, `ReplRunsFragments` | the REPL implements the specifications of the session and of the fragments |
| `ReplCodeStays` | the action property of run `repl` |
| `ReplModulesTracked` | `LoadedModulesTracked` in the REPL as well, whose fragments and resets differ from the notebook's |
| `ResolutionVisitedIsStack` | `visited` holds the keys of the calls of `resolve_dependencies` under way, each once |
| `ModulesImportsFirst`, `ModulesMainAndItsImports`, `ModulesCycleReported`, `ModulesSafeWhenAcyclic` | the other invariants of run `modules` |
| `LexerTiles`, `LexerPositions` | `LexemesTile` and `PositionsTrue` of run `compiler`, for every text |

Assumptions: `SourceIsNode` (the search starts at a node), `VersionBound` (the bound is a natural number),
`NoFragmentIsNone` and `NoFragmentIsNoUnit` (the null fragment is not a fragment), `EpochBound` and `EpochsBounded`
(the bound on epochs is a natural number), `UnitsAreInterfaces` (a unit uses no name that
it defines, and exports only what it defines), `VersionsBounded` (`VersionBound` for the
orchestrator's constants), `Inputs` (two files
have different paths, and every file has a list of imports), `DeepEnough` (finitely many
files, and a stack that is deeper than they are many). TLC evaluates each of them in the
runs. The theorems about the scanner have one hypothesis: the length of the text is a
natural number; `BfsShrinks` has the one that the graph is finite. The former are about `LexerSpec` and not about `Compiler`, which reaches modules
with RECURSIVE operators; `Compiler` takes its steps of scanning from the same actions.

*The search.* The inductive invariant `Progress` says that every node that was
expanded has all its dependents visited or in what is left of the current set, and
that everything visited is queued or emitted and lies in every closed set. When
queue and remainder are empty the emitted set is closed, hence it is the least
closed set. That nothing is emitted twice is a statement about emitted set and queue
together: a node is queued only when it is not visited, and then it is visited.
With it every step leaves less to do: `Left` counts the nodes that are not emitted, each
of them at `Cardinality(Node) + 1`, and the edges of the current set. That is the safety
half of `Terminates`; the other half is that the loop takes its steps.

*The session.* That a valid symbol is computed from the current definitions is false (see
6): a unit may use a name before anything defines it, and the first
definition stales nothing. What holds is that a valid symbol never lags behind by more
than such a first definition (`FreshAfterFirst`). It is not inductive and needs two more
facts. `GraphMirrored`: the invalidation walks reverse edges, so it reaches the
dependents only if these mirror the forward edges. `UnitInProgress`: in the middle of
`commit_unit` a used symbol is not among the symbols still to be committed, so that
the snapshot taken now is still right when the loop ends. Units are restricted by nothing
but `Accepted`, and the proof does not need even that.

*The fragments.* The invariant behind `FragmentDependsOnActive` and
`FragmentAcyclic` is that the inactive fragments are closed under reverse edges:
whatever depends on an inactive fragment is inactive. It holds although ids are
reused because a fragment is inactive when it is rebuilt; its old dependents were
invalidated with it, and its new dependencies are active producers that, by the
same invariant, cannot be downstream of it.

*The epochs.* Epochs are numbered in the order of their creation, so the argument is
simpler: an epoch that does not exist yet is blank (`Unborn`) and dependencies are
earlier epochs (`DependsOnEarlier`), hence nothing depends on the epoch of the
execution under way and committing it stales nothing. `InProgress` adds what holds
between the operations of one `execute_cell`: the running epoch defines nothing yet,
lists only cells whose current epoch it is, and the old epoch is an earlier one.

*The modules in the JIT.* `LoadedModulesTracked` speaks of the moments between calls,
and a call passes through seven phases, each of which may fail. Four facts hold in all of
them: `Tracked`, trackers and modules correspond one to one; `Numbered`, a module that is
being added has a number that none has; `ActiveOrDoomed`, a tracked fragment is active or
its module is about to go; `Replaced`, before a module is added the fragment of the call
has lost its old one, or the tracker would be overwritten and the module left without an
owner. A removal that fails breaks them for good, and the property excepts it.

*The cells.* `ShownValidIsLive` needs, besides the flag, that every cell has an epoch of
its own that lists it (`EpochOfCell`) and that the call of the orchestrator is that of the
cell whose epoch is running (`CallOfCell`): then an epoch that is withdrawn takes down the
flag of each cell it lists, and the only cell without such backing is the one under way.
That no older epoch lists a cell shown as valid is `FlagInv`: opening an epoch sets the
flag of a cell that its last epoch lists, too, and what repairs this is the invalidation
of that epoch, which comes before anything else happens and flags the cell itself.

*The three managers in the notebook.* What was proved of `SessionManager`, `EpochManager`
and `IrIncrementalBuilder` is not proved again: each step of the notebook is shown to be a
step of each of them or to leave it alone (`NotebookRuns...`), and their invariants and
refinements follow. Two facts make this work. For the session, a unit that the analyzer
lets through uses no symbol that the session holds invalid (`CheckedAreAccepted`). For the
others, the interface of a unit
must lie within their symbols (`UnitsAreInterfaces`). The guards of the managers' actions
are preconditions that their code does not check; in the composed model they would hide a
call at the wrong moment by disabling it. `NotebookCalledInOrder` says that there is no
such moment. The REPL runs the session and the fragments as specified as well, `:clear`
included: the session takes any name that it does not have.

*The code of the cells.* `LoadedUnlessFailedLate` relates two graphs that the code keeps
apart: flags follow the epochs, and modules are unloaded along the fragments. A cell is
standing (`Standing`) when its epoch is valid and committed an interface, or the cell is
shown as valid. The invariant says that a standing cell has its code, that the cells its
fragment depends on are standing or about to be invalidated, and that its epoch depends on
theirs (`StandingHaveCode`). It is kept because both managers name the same cell as the
producer of a symbol that the session calls valid (`ProducersAgree`), or the builder names
none; and because the builder knows no producer of a name that the session does not have
(`ProducedAreKnown`), so the analyzer's rejection of invalidated symbols keeps a call from
depending on a producer about which the two disagree. What a re-execution unloads is then
not standing (`UnloadSparesStanding`): the cells that are not standing are closed under
the reverse edges of the builder. While a call is under way the names it has committed are
excepted, and what it has built is what its epoch will say (`CallHasCode`). A call that
fails late leaves the two graphs in disagreement, and nothing is claimed after it: that is
the run `notebook_unloaded`.

*The code behind the symbols.* `ValidSymbolsLoaded` says that a symbol reported valid is
defined by a cell whose code is loaded. It follows from `LoadedUnlessFailedLate`'s
invariant and one more fact: a valid symbol has a producer in the builder, unless the call
under way has just committed it (`ValidAreProduced`). The producer stands, so it has its
code (`ProducerStands`), and what a re-execution unloads was withdrawn as a symbol before
(`UnloadKeepsProduced`).

*The REPL.* `FreshLines`: the fragment of a line was never built before, so a call finds
nothing to unload, although lines share a session in which they redefine each other's
symbols.

*Loading.* The calls of `resolve_dependencies` whose key is visited have distinct keys, and
only the call that was just entered may not be among them (`OnStack`): it finds its key
there and throws, or puts it there. Hence the erasure on return takes away the key of that
call and of no other.

The other four properties speak of paths in the import graph. There is no induction over
paths here; "below" a file is the least set that is closed under imports (`Below`), and
a fact about all files below another is obtained by showing that the set of files that
have it is closed. Five layers of invariants rest on each other:

* `FilesInv`, `PathInv`: a module is stored under the name of its file, a call goes
  through imports of the module under its key, and the files of the calls above it are
  below that module. The last holds only if names tell the files apart
  (`DistinctNames`): with three files TLC finds no violation without it, with four there
  is one.
* `CallsInv`, `HandledInv`: the file of a call that has come to its imports is stored,
  and an import that it has gone through is stored or is the file of the call above. When
  the first call has returned, the main file and its imports are all there, which is what
  `MainAndItsImports` needs at the end of the combination.
* `PlainInv`: an import that a call has gone through reaches no cycle, or is the file of
  the call above (`SoundFiles`; by `SoundUp` a file is sound when all its imports are). So
  the main file is sound when loading ends without a report, and a report means that a
  key was met that is on the stack, whose file is below itself: `CycleReportedIffCyclic`.
* `CombineInv`: each import of a module that is being combined is waiting, or is being
  combined just above it, or is over, that is not stored or processed (`StackOfModules`);
  the imports of what is processed are over (`ProgramInv`). A module on a cycle is never
  processed, since its recursion does not return. `ImportsFirst` is one of the parts and
  needs no hypothesis on names.
* `CheckInv`, `ModulePath`: the frames of the checker, and those of the combination, are
  a path of files each below the ones before. A path longer than the number of files
  meets one of them twice (`LongPathIsCyclic`), hence no overflow without a cycle; and a
  module that is stored over one whose imports are being iterated is below itself
  (`StoredOverIsCycle`), hence nothing undefined either: `SafeWhenAcyclic`.

Proving the last one showed that it was too strong. It used to ask only that the files
that exist have distinct names, and it is false then; see `NoNamesake` in section 6.

*The scanner.* `TileInv` says that the tokens so far tile the text, without gap or overlap
but for white space and comments, up to the cursor, or inside an import statement up to
its first character: an import becomes a token when it ends (two, if it is malformed), and
until then its items only move the cursor. Each tokenizer is shown to end behind where it
began and within the text, and its lexeme to be what stands between. `PlaceInv` does the
same for lines and columns: of every token, and of the cursor, the line counted is one
more than the line breaks before it unless a token that is known to drift lies before, and
the column is the distance from the last line break unless a string that ends behind that
break lies before. Inside an import the cursor either has counted no line break since the
statement began or has crossed one (`Level`). The facts about loops over characters rest
on one lemma, that an interval of numbers which contains a number with some property
contains a least one. It is derived from the cardinalities of subsets, because induction
over the length cannot be cited here.

*The refinements.* All three map the reverse edges away: under `GraphMirrored` the
abstract `Reversed` is the concrete `rdeps`, and each concrete step is a `Define`, a
`Withdraw`, a `Clear` or a stutter.

Only model-checked: `Terminates`, `LoadingEnds` and `RangesEnd` (liveness is beyond
the prover; of `Terminates` the decrease is proved), and all of the compiler behind the scanner. That is a set of recursive
functions over trees: what they compute for every tree would need induction over
data, which the prover's theorems do not give, and RECURSIVE operators, which its
SMT backend does not take. The properties of the violated runs are false.

## 5. Properties and the code they are about

The comment above each definition says what it states. In short: `FreshAfterFirst`,
`SymbolsFreshAfterFirst`: no redefinition leaves a symbol valid that rests on the old
definition; of first definitions it is not true (see 6).
`ImplementsInvalidation` (two classes), `ImplementsSymbolInvalidation`: exactly what is
downstream becomes stale.
`ProducerLive`, `ProducerActive`, `ValidDependsOnValid`, `ActiveDependsOnActive`:
nothing valid rests on something withdrawn. `DependsOnEarlier`, `ActiveAcyclic`: a
node never withdraws itself. `OneValidEpochPerCell`: re-execution leaves one current
definition. `LoadedModulesTracked`: the JIT holds what the trackers name and
nothing else. `ShownValidIsLive`: the flag of a cell is never wrongly true.
`LoadedUnlessFailedLate`: a cell whose flag is true has its code, until a call has failed
after its commit; `ValidSymbolsLoaded`: so has a symbol that is reported valid.
`EarlierCodeStaysLoaded`: a REPL line takes nothing away. `VisitedIsStack`,
`CycleReportedIffCyclic`, `SafeWhenAcyclic`, `LoadingEnds`: the recursions over imports
end, report exactly the cycles (where a path is no more than a name), and do not trip over
each other (where names tell the files apart, the missing ones included). `ImportsFirst`,
`MainAndItsImports`: in which order the combined program stands, however files are named
and whatever cycles there are, and what it holds.

Of the compiler: `LexemesTile`, `PositionsTrue`: the one cursor that many copies move
covers the text once, and lines and columns are true up to the named drifts.
`ParsedIsPrinted`: the text of a program parses to the tree it was printed from, and a
chain of operators, whatever they are, to the tree that nests to the right.
`BeginningKept`: what remains of a broken text is a beginning of the whole.
`NamesCollected`: a fragment's interface is the names in its text, but for the places the collector does
not look at. `TypesComparedByKind`: which types unify, when an error is reported, and
when unification does not come back (arrays and tuples of different parts are left to
`ArraysComparedThrough`). `DeclarationsTyped`: an accepted program is
refused later for a missing type only for declarations in inner blocks that read names
of loops and functions. `BlocksWellFormed`: exactly the named shapes of programs give
functions that LLVM cannot take. `TraceIsSource`: what the running program calls and
writes is what the interpreter of `Semantics` says, for every result of the functions, in
programs without the three statements of which `AssignmentsKept`,
`SingleBindingIsElement` and `RangePatternsMatch` speak. These three and
`ArraysComparedThrough` say what four comments say; each is false, and `AnyCommentHolds`,
that one of them is true, is violated by one program that refutes all four.
`OnlyExitDangles`: no value is used on a path that did not compute it, but for the exit
code. `FaultsAtFlatElements`: exactly the loops that take apart, into two names or more, an
element that is no tuple or too short fault.
`RangesEnd`: a program that runs ends.

Where a property names exceptions (`LineDrift`, `Veiled`, `Offending`, `Reread`, the
blind declarations), these were not put in to make the run pass and forgotten: each is a
behaviour of the code described in the next section, stated over the source text or
the source tree, and most properties are equivalences, so that a program with the
shape and without the consequence would be a violation as well.

## 6. Where code and comments disagree

* `session_order`. `commit_unit` redefines the symbols of a unit in hash order, and
  each redefinition invalidates its dependents, which may include a symbol of the
  same unit that was committed a moment before. `session_manager.cpp:162` says the
  symbol itself remains valid. Shortest case: `a = 1`, `b = 2`, `c = a + b`, then a unit
  that sets `a` and `b` from `c`.
* `notebook_unloaded`. `execute` commits a fragment's interface before its entry
  function runs; the epoch's interface is committed only after a successful run.
  After a run that fails, a dependent cell is known to depend on the failed one in
  one graph and not in the other, and re-executing the failed cell unloads the
  dependent's code while its epoch stays valid. `epoch_system.hpp:20` promises that
  the dependents' epochs are invalidated. `LoadedUnlessFailedLate` shows that a failure
  after the commit is the only way there.
* `modules_transitive`. A module is stored under its bare name and looked up under
  the path of the import. With an extension in the path the lookup makes an empty
  module, and the imports of the imported file are never resolved; they are missing
  from the combined program, which `module_manager.cpp:137` describes as all modules
  in topological order.
* `compiler_comments`. Four comments, one run: `AnyCommentHolds` says that, of a program
  that is compiled and run, at least one of them is true, and the run finds a program of
  which none is. The four claims are definitions of their own in `Compiler`.
  * `AssignmentsKept`. Assignment statements are rewritten before any declaration of the
    program is checked (`check_program.cpp:142`), so one to a declared variable becomes a
    declaration in its block, and `+=` loses its operator. `check_program.cpp:40` says
    that an assignment to an identifier that exists is kept.
  * `SingleBindingIsElement`. A `for` over a collection takes every element apart as a
    tuple, also with a single name: over a vector of numbers a number is followed as an
    address (`generate_for_stmt.cpp:239`). `generate_for_stmt.cpp:181` says that with one
    binding it is the element.
  * `RangePatternsMatch`. For a boxed target the range test cannot be built and counts as
    false (`generate_match_stmt.cpp:133`): `match c()` never takes a range case, while a
    case with the number itself is unboxed and compared. `generate_match_stmt.cpp:30`
    describes range patterns as numeric without exception.
  * `ArraysComparedThrough`. `unify` asks `equals` first, which compares only the kinds of
    two arrays (`unification.hpp:42`). `unification.hpp:82` says that arrays must have one
    size and one element type, in code that is never reached.

Two more comments are not true of the code, and no run is spent on them, since the other
runs show the behaviour or it follows from a line:

* `add_symbol` of a new name invalidates nothing (`session_manager.cpp:145`), although a
  valid symbol may depend on the name already: after the cells `v = [x]` and `x = 1` the
  symbol `v` is still valid, with a dependency on `x` and without its definition.
  `session_manager.hpp:24` speaks of "invalidation and redefinition with fast
  propagation". `FreshAfterFirst` names the case and shows that it is the only one.
* `Checker::err` is never reset: after one semantic error all later lines are rejected,
  although the check is commented as being about one fragment only
  (`incremental_semantic_analyzer.cpp:52`). The model keeps the flag set, too.

Five behaviours of module loading that the model shows and no document speaks about. With
checking on, an import cycle never reaches the error message of `resolve_dependencies`:
the check of the first file follows the cycle until the stack is exhausted. A main file
that is not called `main` yields an empty combined program, since the driver asks for the
module `main`. Two files of one bare name share an entry, so one replaces the other,
possibly while its imports are being iterated. A file that imports a file of its own bare
name from another directory sends `get_combined_ast` into an endless recursion, although
nothing is cyclic. So does the import of a file that does not exist, from another
directory, by the bare name of one that is being combined: nothing is loaded for it, and
the combination looks up the bare name and finds the importer (`module_manager.cpp:168`);
hence the hypothesis `NoNamesake`. `SafeWhenAcyclic`, `CycleReportedIffCyclic` and
`MainAndItsImports` state what holds once names are distinct (for the second, once every
path is a bare name) and the main file is called `main`.

Two behaviours of the interactive engine that no document speaks about, and that are
modelled as they are: a cell that is executed again successfully stays flagged invalid,
because the invalidation of its old epoch flags every cell that epoch lists, itself
included (`interactive_session_impl.cpp:84`, part of `ShownValidIsLive`); and `:clear` in
the REPL resets the session's symbols but neither the checker's scope nor the JIT, so that
later lines may use names that the session no longer has, as they may use any other name
that it does not have.

Behaviours of the compiler, modelled as they are, and visible in the properties above.

*Scanning.* A line break after the word `from` is counted twice, one inside a string not
at all, and strings and imports do not advance the column (`lexer.cpp:149`).

*Parsing.* Binary operators have no precedence and nest to the right: `a - b - c` is
`a - (b - c)` and `a * b + c` is `a * (b + c)`, since every level runs the loops of all
operators through the chain of calls (`parse_call_member_expr.cpp:72`). An else block
that starts with an `if` is taken for an `elif`, and the statements after that `if` and
its own else lie beside it. `error()` exits the process, a REPL or notebook with it;
a text that merely breaks off throws `out_of_range`, which `produce_ast` catches, and
what was read so far is compiled and run (`parser.cpp:222`).

*Collecting names.* The operand of an operator with one operand, the target of an
assignment to an element or a member, and everything in a control statement are not
looked at: a cell is not invalidated when what it only uses there changes.

*Checking.* Because `unify` asks `equals` first, tuples of different parts are one type as
arrays are. Only maps are compared by what they hold, and only maps are skipped by the occurs check: a variable bound to a map that
contains it sends the next walk through the type into an endless recursion.
`get_next_var_id` does not count on, so variables share ids. A name of
a function is not known in its own body, so a recursive call is reported. A declaration
without a value follows a null node. `write` is monomorphic after
its first use, because it is generalized against its own variable. The bodies of match
cases and the elements of vectors are not checked. Once an error was reported, later
binary expressions and calls have type void. None of these errors stops the compiler:
the driver never looks at `err` (`main.cpp:48`). The types of variables are asked for
again while code is made, when only the global scope is left, so a variable of an inner
block that is computed from the names of a loop or a function has no type, and the
program that was accepted is refused; a locked global with a type is checked again and
becomes void (`generate_declaration_stmt.cpp:22`).

*Generating.* An `elif` leaves a block that nothing branches to and nothing ends; a
statement after a return, a return at the end of some loop bodies, and a break that leaves
a function give malformed functions. The interactive builder runs LLVM's verifier
(`ir_incremental_builder.cpp:222`), the batch driver hands the module to the back end
without it (`main.cpp:268`). An inclusive range
up to the largest integer wraps around and does not end (`generate_for_stmt.cpp:438`).
The exit code is the last value an expression statement left on the stack, also when the
block of that statement was not run (`main.cpp:137`).

## 7. What is not modelled, and the plan

*Abstracted in the engine.* Types, values, wording and debug output; the IR that a
fragment compiles to (only whether the build succeeds); symbol resolution inside LLVM.
`validate_symbol`, `rebuild_fragment` and `DependencyGraph::remove_symbol` have no
caller. In the module loader all files parse and their checks return; the types that
imports register are left out.

*Abstracted in the compiler.* Positions of nodes, printing and cloning of trees; texts of
messages, and the suppression of repeated ones; the order in which a hash table renames type
variables and the order of the letters of a range type. In the code generator: floats,
strings, maps, comprehensions, access to elements and members, the builtins other than
`write`, the choice between locals and module-level variables, and debug locations. In
the running program: the bodies of called functions, and all of the runtime library but
boxed values and the elements of collections. A program that reaches an unmodelled
expression is not among the sources.

*Not modelled at all.* `ExecutionUnit` (an immutable record whose hash nobody reads), the
runtime's boxing, printing and string functions, the legacy session behind `#if 0`, the
native example library.

*Out of reach.* External tools called by the batch driver, terminal input, reading and
writing of files, LLVM itself.

*Plan*, in this order:

1. `FragmentLayout`: the order in which `build_fragment` emits declarations,
   assignments and other statements, compared with program order (an initializer is
   emitted twice), over the modules `Ast` and `Codegen`.
2. Module-level variables and their initializers in `Codegen`, and calls that enter the
   function's body in `Machine`.
3. `RuntimeValues`: arithmetic on boxed values and the type registry; then element and
   member access and comprehensions in `Codegen`.
4. Proofs: of what the provers can reach every safety property of a run is proved. More
   would need parts of the compiler in modules without recursion of their own: first the
   cells of `TypeContext`, where a variable that passed the occurs check is bound (no
   cell reaches itself, but through a map), then the blocks of `Codegen`.
