----------------------------- MODULE ModuleManager -----------------------------
(***************************************************************************)
(* Loading the files of a program (class ModuleManager) for a batch        *)
(* compilation: resolve_dependencies follows the imports of the main file, *)
(* load_module parses and checks each new file, get_combined_ast puts the  *)
(* statements of all modules into one program.                             *)
(*                                                                         *)
(* load_module checks a file before its imports are resolved, and checking *)
(* an import statement parses and checks the imported file on its own      *)
(* (check_import_stmt): there are three recursions, each a stack here.     *)
(* A recursion that never returns exhausts the C++ stack; MaxDepth stands  *)
(* for its size.                                                           *)
(*                                                                         *)
(* A module is looked up under the path by which it is imported and stored *)
(* under the name the lexer derives from its file name (no directory, no   *)
(* extension).  Every file declares one name, which its imports name, and  *)
(* has other statements beside it; files parse.                            *)
(***************************************************************************)
EXTENDS Naturals, Sequences, FiniteSets, DependencyGraph

CONSTANTS
  File, Main,       \* the files imports refer to; the one being compiled
  Missing,          \* those that do not exist
  Layouts, Graphs,  \* the values of place and of imports
  Stem,             \* file names without directory and extension
  Absent, Empty,    \* no entry in modules; an entry operator[] made
  MaxDepth          \* frames before a recursion exhausts the stack

Place == [dir : {"root", "sub"}, stem : Stem, ext : BOOLEAN]

ASSUME Inputs ==
  /\ Main \in File \ Missing
  /\ "main" \in Stem
  /\ Absent \notin File /\ Empty \notin File /\ Absent # Empty
  /\ \A p \in Layouts : /\ p \in [File -> Place]
                        /\ \A f, g \in File : p[f] = p[g] => f = g
  /\ \A i \in Graphs : i \in [File -> Seq(File)]
ASSUME DeepEnough ==
  IsFiniteSet(File) /\ MaxDepth \in Nat /\ MaxDepth > Cardinality(File) + 1

VARIABLES
  place, imports, config,  \* the input: files, import statements, config
  modules,                 \* modules[k]: Absent, Empty or the file stored
  visited,
  resolving,               \* calls of resolve_dependencies: key, file, imports left
  checking,                \* files being checked: file, imports left
  combining,               \* calls of process_module: key, imports left
  processed, program,      \* the combined program: a file and what is taken of it
  phase                    \* what runs now, or how it ended

input == <<place, imports, config>>
combineVars == <<combining, processed, program>>
vars == <<input, modules, visited, resolving, checking, combineVars, phase>>

\* Names of modules: the path written in an import, or a bare file name.
Key == [route : {"here", "down", "up"}, stem : Stem, ext : BOOLEAN]

Named(s) == [route |-> "here", stem |-> s, ext |-> FALSE]

MainKey == Named("main")

\* The path that file f writes to import g.
PathTo(f, g) ==
  [route |-> IF place[f].dir = place[g].dir THEN "here"
             ELSE IF place[g].dir = "sub" THEN "down" ELSE "up",
   stem |-> place[g].stem,
   ext |-> place[g].ext]

\* Mutant: the lexer is not told the file name.
ModuleNameLost(f) == MainKey

\* Lexer::get_module_name.
ModuleName(f) == Named(place[f].stem)

ImportsOf(k) == IF modules[k] \in File THEN imports[modules[k]] ELSE <<>>

Top(stack) == stack[Len(stack)]
Pop(stack) == SubSeq(stack, 1, Len(stack) - 1)
\* The top frame goes on to its next import.
Advance(stack) == [stack EXCEPT ![Len(stack)].todo = Tail(@)]

Init ==
  /\ place \in Layouts
  /\ imports \in Graphs
  /\ config \in BOOLEAN
  /\ modules = [k \in Key |-> Absent]
  /\ visited = {}
  /\ resolving = <<[key |-> MainKey, file |-> Main, todo |-> <<>>]>>
  /\ checking = <<>>
  /\ combining = <<>>
  /\ processed = {}
  /\ program = <<>>
  /\ phase = "enter"

------------------------------------------------------------------------------
(* resolve_dependencies *)

CycleDetected ==
  /\ phase = "enter"
  /\ Top(resolving).key \in visited
  /\ phase' = "cycle"
  /\ UNCHANGED <<input, modules, visited, resolving, checking, combineVars>>

\* load_module finds the key and returns.
AlreadyLoaded ==
  /\ phase = "enter"
  /\ LET k == Top(resolving).key IN
       /\ k \notin visited
       /\ modules[k] # Absent
       /\ visited' = visited \cup {k}
       /\ resolving' = [resolving EXCEPT ![Len(resolving)].todo = ImportsOf(k)]
  /\ phase' = "imports"
  /\ UNCHANGED <<input, modules, checking, combineVars>>

\* load_module reads the file; with config 0 it is neither parsed nor checked.
Load ==
  /\ phase = "enter"
  /\ LET call == Top(resolving) IN
       /\ call.key \notin visited
       /\ modules[call.key] = Absent
       /\ visited' = visited \cup {call.key}
       /\ checking' = IF config THEN <<[file |-> call.file, todo |-> imports[call.file]]>>
                      ELSE <<>>
  /\ phase' = "load"
  /\ UNCHANGED <<input, modules, resolving, combineVars>>

\* Mutant: the import that failed is tried again.
CheckMissingAgain ==
  /\ phase = "load"
  /\ checking # <<>> /\ Top(checking).todo # <<>>
  /\ Head(Top(checking).todo) \in Missing
  /\ UNCHANGED vars

\* check_import_stmt reports a file that cannot be opened and goes on.
CheckMissing ==
  /\ phase = "load"
  /\ checking # <<>> /\ Top(checking).todo # <<>>
  /\ Head(Top(checking).todo) \in Missing
  /\ checking' = Advance(checking)
  /\ UNCHANGED <<input, modules, visited, resolving, combineVars, phase>>

\* check_import_stmt checks the imported file with a fresh checker, in whose
\* scope nothing is registered: the static set of checked imports skips
\* nothing here.
CheckImport ==
  /\ phase = "load"
  /\ checking # <<>> /\ Top(checking).todo # <<>>
  /\ LET g == Head(Top(checking).todo) IN
       /\ g \notin Missing
       /\ IF Len(checking) = MaxDepth
            THEN phase' = "overflow" /\ UNCHANGED checking
            ELSE /\ checking' = Append(Advance(checking), [file |-> g, todo |-> imports[g]])
                 /\ UNCHANGED phase
  /\ UNCHANGED <<input, modules, visited, resolving, combineVars>>

Checked ==
  /\ phase = "load"
  /\ checking # <<>> /\ Top(checking).todo = <<>>
  /\ checking' = Pop(checking)
  /\ UNCHANGED <<input, modules, visited, resolving, combineVars, phase>>

\* Mutant: the module is stored under the name it was asked for.
StoredUnderPath(k, f) == [modules EXCEPT ![k] = f]

\* modules[module.name] = module, and then modules[k] of the caller, which
\* makes an empty module when the names differ.
Stored(k, f) ==
  LET stored == [modules EXCEPT ![ModuleName(f)] = f]
  IN  IF stored[k] = Absent THEN [stored EXCEPT ![k] = Empty] ELSE stored

\* Storing over the module whose imports a caller is iterating destroys them.
InUse(k) == \E n \in 1..Len(resolving) - 1 : resolving[n].key = k

Store ==
  /\ phase = "load"
  /\ checking = <<>>
  /\ LET call == Top(resolving) IN
       /\ modules' = Stored(call.key, call.file)
       /\ phase' = IF InUse(ModuleName(call.file)) THEN "undefined" ELSE "imports"
       /\ resolving' = [resolving EXCEPT ![Len(resolving)].todo =
                          IF modules'[call.key] \in File THEN imports[modules'[call.key]]
                          ELSE <<>>]
  /\ UNCHANGED <<input, visited, checking, combineVars>>

ImportMissing ==
  /\ phase = "imports"
  /\ Top(resolving).todo # <<>>
  /\ Head(Top(resolving).todo) \in Missing
  /\ phase' = "not found"
  /\ UNCHANGED <<input, modules, visited, resolving, checking, combineVars>>

ResolveImport ==
  /\ phase = "imports"
  /\ Top(resolving).todo # <<>>
  /\ LET g == Head(Top(resolving).todo)
         f == modules[Top(resolving).key]
     IN  /\ g \notin Missing
         /\ resolving' = Append(Advance(resolving),
                                [key |-> PathTo(f, g), file |-> g, todo |-> <<>>])
  /\ phase' = "enter"
  /\ UNCHANGED <<input, modules, visited, checking, combineVars>>

\* Mutant: a module stays visited.
VisitedKept(k) == visited

VisitedWithout(k) == visited \ {k}

\* The batch compiler goes on to the combined program; the lexer test, which
\* passes config 0, ends here.
Resolved ==
  /\ phase = "imports"
  /\ Top(resolving).todo = <<>>
  /\ visited' = VisitedWithout(Top(resolving).key)
  /\ resolving' = Pop(resolving)
  /\ IF Len(resolving) > 1
       THEN phase' = "imports" /\ UNCHANGED combining
       ELSE IF config
       THEN phase' = "combine" /\ combining' = <<[key |-> MainKey, todo |-> ImportsOf(MainKey)]>>
       ELSE phase' = "done" /\ UNCHANGED combining
  /\ UNCHANGED <<input, modules, checking, processed, program>>

------------------------------------------------------------------------------
(* get_combined_ast *)

Process(k) == [key |-> k, todo |-> ImportsOf(k)]

\* An import names a module by its file name only.
CombineImport ==
  /\ phase = "combine"
  /\ combining # <<>> /\ Top(combining).todo # <<>>
  /\ LET k == ModuleName(Head(Top(combining).todo)) IN
       IF modules[k] = Absent \/ k \in processed
         THEN combining' = Advance(combining) /\ UNCHANGED phase
         ELSE IF Len(combining) = MaxDepth
         THEN phase' = "overflow" /\ UNCHANGED combining
         ELSE combining' = Append(Advance(combining), Process(k)) /\ UNCHANGED phase
  /\ UNCHANGED <<input, modules, visited, resolving, checking, processed, program>>

\* imported_symbols: some module imports f's declaration.
Wanted(f) == \E k \in Key : \E n \in 1..Len(ImportsOf(k)) : ImportsOf(k)[n] = f

\* All statements of the main module; of the others what is imported.
StatementsOf(k) ==
  IF modules[k] \notin File THEN <<>>
  ELSE IF k = MainKey THEN <<[file |-> modules[k], part |-> "all"]>>
  ELSE IF Wanted(modules[k]) THEN <<[file |-> modules[k], part |-> "declaration"]>>
  ELSE <<>>

\* Mutant: a module comes before its imports.
CombineModuleFirst ==
  /\ phase = "combine"
  /\ combining # <<>>
  /\ LET k == Top(combining).key IN
       /\ program' = IF k \in processed THEN program ELSE program \o StatementsOf(k)
       /\ processed' = processed \cup {k}
       /\ combining' = IF k \in processed THEN Pop(combining) ELSE combining
  /\ UNCHANGED <<input, modules, visited, resolving, checking, phase>>

CombineModule ==
  /\ phase = "combine"
  /\ combining # <<>> /\ Top(combining).todo = <<>>
  /\ LET k == Top(combining).key IN
       /\ program' = program \o StatementsOf(k)
       /\ processed' = processed \cup {k}
  /\ combining' = Pop(combining)
  /\ UNCHANGED <<input, modules, visited, resolving, checking, phase>>

\* The loop over the modules that the main module did not reach; it takes them
\* in the order of their names, here in any order.
CombineOther ==
  /\ phase = "combine"
  /\ combining = <<>>
  /\ \E k \in Key : modules[k] # Absent /\ k \notin processed /\ combining' = <<Process(k)>>
  /\ UNCHANGED <<input, modules, visited, resolving, checking, processed, program, phase>>

Combined ==
  /\ phase = "combine"
  /\ combining = <<>>
  /\ \A k \in Key : modules[k] # Absent => k \in processed
  /\ phase' = "done"
  /\ UNCHANGED <<input, modules, visited, resolving, checking, combineVars>>

Next ==
  \/ CycleDetected \/ AlreadyLoaded \/ Load
  \/ CheckMissing \/ CheckImport \/ Checked
  \/ Store
  \/ ImportMissing \/ ResolveImport \/ Resolved
  \/ CombineImport \/ CombineModule \/ CombineOther \/ Combined

\* The compiler is one thread that keeps running.
Spec == Init /\ [][Next]_vars /\ WF_vars(Next)

------------------------------------------------------------------------------

Edges == [f \in File |-> {imports[f][n] : n \in 1..Len(imports[f])}]

Reached == {Main} \cup Dependents(Edges, Main)

Cyclic == \E f \in Reached : f \in Dependents(Edges, f)

DistinctNames ==
  \A f, g \in Reached \ Missing : place[f].stem = place[g].stem => f = g

NoNamesake ==
  \A f \in Reached \ Missing, g \in Reached \cap Missing : place[f].stem # place[g].stem

MainIsMain == place[Main].stem = "main"

\* Imports are written as the lexer names modules: same directory, no extension.
PlainPaths == \A f, g \in File : PathTo(f, g) = ModuleName(g)

\* visited holds the modules whose resolution is under way, each once, so that
\* a module imported along two paths is not taken for a cycle.
VisitedIsStack ==
  phase = "imports" =>
    /\ visited = {resolving[n].key : n \in 1..Len(resolving)}
    /\ Cardinality(visited) = Len(resolving)

\* Where imports are named as modules are stored, resolution reports a cycle if
\* and only if there is one.
CycleReportedIffCyclic ==
  PlainPaths /\ MainIsMain =>
    /\ phase = "cycle" => Cyclic
    /\ phase = "done" => ~Cyclic

\* A program without import cycles is loaded without exhausting the stack and
\* without overwriting a module in use, if its files can be told apart by their
\* names, a missing one from the others included: get_combined_ast would take a
\* module of that name for it.
SafeWhenAcyclic ==
  ~Cyclic /\ DistinctNames /\ NoNamesake => phase \notin {"overflow", "undefined"}

\* In the combined program a file comes after the files it imports
\* (module_manager.cpp:137, "dependencies first"), however the files are named
\* and whatever the cycles they make.
ImportsFirst ==
  \A i, j \in 1..Len(program) : i <= j => program[j].file \notin Edges[program[i].file]

\* A main file called main is in the combined program as a whole, and the
\* declarations of the files that it imports itself, each once.
MainAndItsImports ==
  phase = "done" /\ config /\ MainIsMain /\ DistinctNames =>
    /\ [file |-> Main, part |-> "all"] \in {program[n] : n \in 1..Len(program)}
    /\ Edges[Main] \ {Main} \subseteq {program[n].file : n \in 1..Len(program)}
    /\ \A i, j \in 1..Len(program) : program[i].file = program[j].file => i = j

\* Loading ends, whatever the files import.
LoadingEnds == <>(phase \in {"done", "cycle", "not found", "overflow", "undefined"})

\* The combined program has what the files of the program import from each
\* other, not only what the main file imports: modules are processed in
\* topological order, dependencies first (module_manager.cpp:137).
TransitiveImports ==
  phase = "done" /\ config /\ MainIsMain /\ DistinctNames =>
    Reached \subseteq {program[n].file : n \in 1..Len(program)}
==============================================================================
