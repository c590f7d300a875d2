---------------------------- MODULE SessionManager ----------------------------
(***************************************************************************)
(* The semantic state of a REPL or notebook session: the symbol table      *)
(* (SessionSymbolTable) and the symbol dependency graph (DependencyGraph)  *)
(* behind class SessionManager.                                            *)
(*                                                                         *)
(* SessionManager::commit_unit loops over an unordered_set, so the symbols *)
(* of a unit are committed one step at a time in any order; between two    *)
(* steps of the loop nothing else runs.                                    *)
(*                                                                         *)
(* Ghost variable: seen[s][d] is the version of d that the current         *)
(* definition of s was computed from (0 where s does not depend on d).     *)
(***************************************************************************)
EXTENDS Naturals, DependencyGraph

CONSTANTS
  Symbol,      \* every name a unit may mention
  MaxVersion   \* bound on the version of a symbol

ASSUME VersionBound == MaxVersion \in Nat

VARIABLES
  symtab,   \* symtab[s]: validity and version; version 0 means no entry
  deps,     \* deps[s]: the symbols that s depends on
  rdeps,    \* rdeps[s]: the symbols that depend on s
  unit,     \* the unit being committed
  pending,  \* the symbols of unit.defined that the loop has not reached
  seen      \* ghost, see above

tableVars == <<symtab, deps, rdeps, seen>>
vars == <<symtab, deps, rdeps, unit, pending, seen>>

Absent == [valid |-> FALSE, version |-> 0]
NoUnit == [defined |-> {}, used |-> {}]

Has(s) == symtab[s].version > 0
IsValid(s) == symtab[s].valid

\* The uses the analyzer lets through.  It rejects invalid symbols only: a name
\* the session does not have may be imported, a comprehension variable, or one
\* that no line has defined yet.
Accepted(u) == Has(u) => IsValid(u)

Invalidated(tab, S) ==
  [s \in Symbol |-> IF s \in S THEN [tab[s] EXCEPT !.valid = FALSE] ELSE tab[s]]

\* The versions that a definition with dependencies D is computed from.
Snapshot(D) == [x \in Symbol |-> IF x \in D THEN symtab[x].version ELSE 0]

Init ==
  /\ symtab = [s \in Symbol |-> Absent]
  /\ deps = NoEdges(Symbol)
  /\ rdeps = NoEdges(Symbol)
  /\ unit = NoUnit
  /\ pending = {}
  /\ seen = [s \in Symbol |-> [x \in Symbol |-> 0]]

\* commit_unit is entered with the interface that collect_symbol_usage
\* computed: a unit's own definitions are not among its uses.
BeginUnit(D, U) ==
  /\ pending = {}
  /\ D # {} /\ D \cap U = {}
  /\ \A d \in D : symtab[d].version < MaxVersion
  /\ unit' = [defined |-> D, used |-> U]
  /\ pending' = D
  /\ UNCHANGED tableVars

\* Mutant: the unit is moved from before the loop is over.
LoopStepMovedUnit(d) ==
  /\ d \in pending
  /\ pending' = pending \ {d}
  /\ unit' = NoUnit

\* The step of the loop from symbol d to the next one.
LoopStep(d) ==
  /\ d \in pending
  /\ pending' = pending \ {d}
  /\ unit' = IF pending = {d} THEN NoUnit ELSE unit

Record(d) ==
  /\ deps' = SetDeps(deps, d, unit.used)
  /\ rdeps' = SetRdeps(deps, rdeps, d, unit.used)
  /\ seen' = [seen EXCEPT ![d] = Snapshot(unit.used)]

\* add_symbol of a name the table does not have.  Symbols that already depend on
\* the name are left alone.
AddSymbol(d) ==
  /\ LoopStep(d)
  /\ ~Has(d)
  /\ symtab' = [symtab EXCEPT ![d] = [valid |-> TRUE, version |-> 1]]
  /\ Record(d)

\* Mutant: no dependents are invalidated.
StaleNothing(d) == {}

\* invalidate_dependents_of: the symbols its search marks invalid.
StaleWith(d) == Dependents(rdeps, d)

\* Mutant: a redefinition keeps the version.
SameVersion(d) == symtab[d].version

VersionAfter(d) == symtab[d].version + 1

\* The dependents go stale first, then d itself is valid in a new version:
\* d may be its own dependent through a cycle.
RedefineSymbol(d) ==
  /\ LoopStep(d)
  /\ Has(d)
  /\ symtab' = [Invalidated(symtab, StaleWith(d)) EXCEPT
                  ![d] = [valid |-> TRUE, version |-> VersionAfter(d)]]
  /\ Record(d)

\* invalidate_symbol of every symbol in S, which is how the epoch system uses
\* it; the graph does not change in between, so the order does not matter.
InvalidateSymbols(S) ==
  /\ pending = {}
  /\ symtab' = Invalidated(symtab, S \cup UNION {StaleWith(s) : s \in S})
  /\ UNCHANGED <<deps, rdeps, unit, pending, seen>>

Reset ==
  /\ pending = {}
  /\ symtab' = [s \in Symbol |-> Absent]
  /\ deps' = NoEdges(Symbol)
  /\ rdeps' = NoEdges(Symbol)
  /\ seen' = [s \in Symbol |-> [x \in Symbol |-> 0]]
  /\ UNCHANGED <<unit, pending>>

CommitSymbol(d) == AddSymbol(d) \/ RedefineSymbol(d)

Next ==
  \/ \E D \in SUBSET Symbol, U \in SUBSET {u \in Symbol : Accepted(u)} : BeginUnit(D, U)
  \/ \E d \in Symbol : CommitSymbol(d)
  \/ \E S \in (SUBSET Symbol) \ {{}} : InvalidateSymbols(S)
  \/ Reset

Spec == Init /\ [][Next]_vars

------------------------------------------------------------------------------

Entry == [valid : BOOLEAN, version : 0..MaxVersion]

\* The table and the graph keep their types, and the commit loop never holds a
\* symbol that its unit does not define (commit_unit).
TypeOK ==
  /\ symtab \in [Symbol -> Entry]
  /\ deps \in [Symbol -> SUBSET Symbol]
  /\ rdeps \in [Symbol -> SUBSET Symbol]
  /\ unit \in [defined : SUBSET Symbol, used : SUBSET Symbol]
  /\ pending \subseteq unit.defined
  /\ seen \in [Symbol -> [Symbol -> 0..MaxVersion]]

\* The reverse edges, on which every invalidation walks, are at all times the
\* forward edges turned around (set_dependencies keeps the two maps in step).
GraphMirrored == Mirrored(deps, rdeps)

\* A symbol reported valid was computed from the current version of every
\* symbol it depends on (session_manager.hpp:24, "Supports invalidation and
\* redefinition with fast propagation"), but for one case: add_symbol stales
\* nothing, so the first definition of a name passes by the symbols that were
\* computed without it.  No redefinition, in whatever order the symbols of a
\* unit are committed and whatever cycles the graph has, leaves a dependent of
\* the old definition valid: a valid symbol lags behind by one first definition
\* of a name, and never by more.
FreshAfterFirst ==
  \A s \in Symbol : IsValid(s) => \A d \in deps[s] :
    \/ symtab[d].version = seen[s][d]
    \/ seen[s][d] = 0 /\ symtab[d].version = 1

\* Unless the session is reset, a symbol whose dependencies or origin change
\* gets a higher version.
VersionStep ==
  \A s \in Symbol :
    (deps'[s] # deps[s] \/ seen'[s] # seen[s]) /\ symtab' # [x \in Symbol |-> Absent]
      => symtab'[s].version > symtab[s].version

\* Versions identify definitions: what a symbol depends on, or was computed
\* from, changes only together with an increase of its version.
VersionsIdentifyDefinitions == [][VersionStep]_vars

\* The session does what the abstract specification promises: a redefinition
\* stales exactly the symbols downstream of it and a first definition none,
\* although the code walks reverse edges it updates incrementally.
Abstract ==
  INSTANCE SymbolInvalidation WITH
    Node <- Symbol, live <- {s \in Symbol : IsValid(s)}, edges <- deps,
    known <- {s \in Symbol : Has(s)}

ImplementsSymbolInvalidation == Abstract!SymbolSpec

\* A unit's own definitions are valid once the unit is committed
\* (session_manager.cpp:162, "the symbol itself remains valid").
DefinedStayValid ==
  [][(pending # {} /\ pending' = {}) => \A d \in unit.defined : symtab'[d].valid]_vars
==============================================================================
