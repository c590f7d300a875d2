----------------------------- MODULE Orchestrator -----------------------------
(***************************************************************************)
(* InteractiveOrchestrator::execute and the Engine it works on: parser,    *)
(* checker, SessionManager, IrIncrementalBuilder and the JIT.  One call    *)
(* runs through the phases                                                 *)
(*                                                                         *)
(*   analyze -> commit -> unload -> remove -> build -> add -> run          *)
(*                                                                         *)
(* and can fail in most of them.  A failure returns to the caller (phase   *)
(* "done", result "failed") with every effect of the earlier phases in     *)
(* place; nothing is rolled back.  A syntax error and an exception out of  *)
(* code generation end the process (phase "ended").                        *)
(*                                                                         *)
(* The REPL and the notebook drive this module: they submit a unit and     *)
(* take the result.                                                        *)
(***************************************************************************)
EXTENDS Naturals

CONSTANTS
  Fragment,     \* unit ids: REPL steps, notebook cells
  NoFragment,
  Symbol, MaxVersion,
  Units,        \* the source texts that may be submitted, by their interface
  MaxUnits      \* bound on unit_counter

\* defined and used are what collect_symbol_usage returns for the text, exports
\* the names it defines with `def`, which get external linkage.  The checker
\* sees other names than the collector: `declared` are those that the text puts
\* into the checker's global scope, imports and top-level blocks included;
\* `looked` those that it looks up there before it declares them; and `assigns`
\* has the target of each assignment and the names of its value, which are
\* looked up only when the target is new.  The elements of a vector are never
\* looked up, though they are uses, and the collector reads no block statement,
\* so what is looked up need not be a use.
ASSUME UnitsAreInterfaces ==
  \A u \in Units :
    /\ u.defined \subseteq Symbol /\ u.used \subseteq Symbol
    /\ u.looked \subseteq Symbol /\ u.declared \subseteq Symbol
    /\ u.assigns \subseteq [target : Symbol, names : SUBSET Symbol]
    /\ u.exports \subseteq u.defined /\ u.defined \subseteq u.declared
    /\ u.defined \cap u.used = {}

\* What SessionManager assumes of the bound.
ASSUME VersionsBounded == MaxVersion \in Nat

\* What IrIncrementalBuilder assumes of the unit ids.
ASSUME NoFragmentIsNoUnit == NoFragment \notin Fragment

VARIABLES
  symtab, symDeps, symRdeps, unit, pending, seen,   \* SessionManager
  fragments, fragProducer, fragDeps, fragRdeps,     \* IrIncrementalBuilder
  scope,         \* the names in the checker's global scope
  checkerErr,    \* Checker::err
  unitCounter,   \* unit_counter
  trackers,      \* fragment_trackers: the loaded unit of a fragment, 0: none
  loaded,        \* the modules in the JIT: unit number and exported names
  phase, exec, result,   \* the call under way
  doomed,        \* the invalidated fragments whose module is still to go
  removalFailed, \* ghost: ResourceTracker::remove has failed once
  failedLate     \* ghost: a call has failed after its unit was committed

sessionVars == <<symtab, symDeps, symRdeps, unit, pending, seen>>
irVars == <<fragments, fragProducer, fragDeps, fragRdeps>>
checkerVars == <<scope, checkerErr>>
jitVars == <<unitCounter, trackers, loaded, removalFailed>>
callVars == <<phase, exec, result, doomed, failedLate>>
vars == <<sessionVars, irVars, checkerVars, jitVars, callVars>>

Session == INSTANCE SessionManager WITH deps <- symDeps, rdeps <- symRdeps

Ir == INSTANCE IrIncrementalBuilder WITH
        producer <- fragProducer, deps <- fragDeps, rdeps <- fragRdeps

NoText == [defined |-> {}, used |-> {}, exports |-> {},
           looked |-> {}, assigns |-> {}, declared |-> {}]
NoCall == [id |-> NoFragment, unit |-> NoText]

Init ==
  /\ Session!Init
  /\ Ir!Init
  /\ scope = {}
  /\ checkerErr = FALSE
  /\ unitCounter = 0
  /\ trackers = [f \in Fragment |-> 0]
  /\ loaded = {}
  /\ removalFailed = FALSE
  /\ phase = "idle"
  /\ exec = NoCall
  /\ result = "none"
  /\ doomed = {}
  /\ failedLate = FALSE

Return(r) ==
  /\ phase' = "done"
  /\ result' = r
  /\ doomed' = {}
  /\ failedLate' = (failedLate \/ (r = "failed" /\ phase # "analyze"))
  /\ UNCHANGED exec

\* execute is entered; the unit parses.
Submit(f, u) ==
  /\ phase = "idle"
  /\ unitCounter < MaxUnits
  /\ phase' = "analyze"
  /\ exec' = [id |-> f, unit |-> u]
  /\ UNCHANGED <<result, doomed, failedLate, sessionVars, irVars, checkerVars, jitVars>>

\* Parser::error calls exit; a lexer error or an exception out of codegen
\* leaves execute and the driver's loop.  What the other variables hold then
\* no longer exists.
EndProcess ==
  /\ phase' = "ended"
  /\ UNCHANGED <<exec, result, doomed, failedLate, sessionVars, irVars, checkerVars, jitVars>>

SyntaxError == phase = "analyze" /\ EndProcess

\* IncrementalSemanticAnalyzer, step 1: a use of an invalidated symbol.
UsesInvalidated ==
  \E u \in exec.unit.used : Session!Has(u) /\ ~Session!IsValid(u)

RejectInvalidated ==
  /\ phase = "analyze"
  /\ UsesInvalidated
  /\ Return("failed")
  /\ UNCHANGED <<sessionVars, irVars, checkerVars, jitVars>>

\* Step 3 with an error: the names P that the checker reached before or
\* despite the error stay in its scope.  A flag left over from an earlier
\* unit rejects this one whatever its own check says.
CheckFails(P) ==
  /\ phase = "analyze"
  /\ ~UsesInvalidated
  /\ scope' = scope \cup P
  /\ checkerErr' = TRUE
  /\ Return("failed")
  /\ UNCHANGED <<sessionVars, irVars, jitVars>>

\* The names that the checker looks up in its global scope.  An assignment to a
\* new name is read as a declaration and its value checked; one to a name in
\* scope is let through as it is.
LookedUp ==
  exec.unit.looked \cup UNION {x.names : x \in {y \in exec.unit.assigns : y.target \notin scope}}

\* Steps 3 to 5: the unit checks, and the session commits it before anything
\* has been built or run.
CheckSucceeds ==
  /\ phase = "analyze"
  /\ ~UsesInvalidated
  /\ ~checkerErr
  /\ LookedUp \subseteq scope
  /\ scope' = scope \cup exec.unit.declared
  /\ IF exec.unit.defined = {}
       THEN phase' = "unload" /\ UNCHANGED sessionVars
       ELSE phase' = "commit" /\ Session!BeginUnit(exec.unit.defined, exec.unit.used)
  /\ UNCHANGED <<exec, result, doomed, failedLate, checkerErr, irVars, jitVars>>

CommitSymbol(d) ==
  /\ phase = "commit"
  /\ Session!CommitSymbol(d)
  /\ phase' = IF pending' = {} THEN "unload" ELSE "commit"
  /\ UNCHANGED <<exec, result, doomed, failedLate, irVars, checkerVars, jitVars>>

\* The previous fragment of this id, if active, goes, with its dependents.
Unload ==
  /\ phase = "unload"
  /\ unitCounter' = unitCounter + 1
  /\ IF Ir!IsActive(exec.id)
       THEN /\ Ir!InvalidateFragment(exec.id)
            /\ doomed' = {g \in Ir!InvalidatedFragments(exec.id) : trackers[g] # 0}
       ELSE UNCHANGED <<irVars, doomed>>
  /\ phase' = "remove"
  /\ UNCHANGED <<exec, result, failedLate, sessionVars, checkerVars, trackers, loaded, removalFailed>>

\* Mutant: the tracker is erased and the module stays.
UnloadedNothing(n) == loaded

Unloaded(n) == {m \in loaded : m.unit # n}

\* One step of the loop over invalidated_fragments.
RemoveModule(g) ==
  /\ phase = "remove"
  /\ g \in doomed
  /\ exec.id \in doomed => g = exec.id
  /\ loaded' = Unloaded(trackers[g])
  /\ trackers' = [trackers EXCEPT ![g] = 0]
  /\ doomed' = doomed \ {g}
  /\ UNCHANGED <<phase, exec, result, failedLate, sessionVars, irVars, checkerVars,
                 unitCounter, removalFailed>>

RemoveFails ==
  /\ phase = "remove"
  /\ doomed # {}
  /\ removalFailed' = TRUE
  /\ Return("failed")
  /\ UNCHANGED <<sessionVars, irVars, checkerVars, unitCounter, trackers, loaded>>

\* build_fragment produced a module that verifyModule rejects.
BuildFails ==
  /\ phase = "remove"
  /\ doomed = {}
  /\ Return("failed")
  /\ UNCHANGED <<sessionVars, irVars, checkerVars, jitVars>>

BuildThrows == phase = "remove" /\ doomed = {} /\ EndProcess

Build ==
  /\ phase = "remove"
  /\ doomed = {}
  /\ Ir!BuildFragment(exec.id, exec.unit.defined, exec.unit.used)
  /\ phase' = "add"
  /\ UNCHANGED <<exec, result, doomed, failedLate, sessionVars, checkerVars, jitVars>>

\* All modules share one JITDylib: a second definition of an exported name is
\* an error.
Duplicate == \E m \in loaded : m.exports \cap exec.unit.exports # {}

AddModule ==
  /\ phase = "add"
  /\ ~Duplicate
  /\ loaded' = loaded \cup {[unit |-> unitCounter, exports |-> exec.unit.exports]}
  /\ trackers' = [trackers EXCEPT ![exec.id] = unitCounter]
  /\ phase' = "run"
  /\ UNCHANGED <<exec, result, doomed, failedLate, sessionVars, irVars, checkerVars,
                 unitCounter, removalFailed>>

AddFails ==
  /\ phase = "add"
  /\ Duplicate
  /\ Return("failed")
  /\ UNCHANGED <<sessionVars, irVars, checkerVars, jitVars>>

\* The entry function is looked up and called.
Run(r) ==
  /\ phase = "run"
  /\ Return(r)
  /\ UNCHANGED <<sessionVars, irVars, checkerVars, jitVars>>

\* The steps of a call, once it is submitted.
Step ==
  \/ SyntaxError
  \/ RejectInvalidated
  \/ \E P \in SUBSET exec.unit.declared : CheckFails(P)
  \/ CheckSucceeds
  \/ \E d \in Symbol : CommitSymbol(d)
  \/ Unload
  \/ \E g \in Fragment : RemoveModule(g)
  \/ RemoveFails
  \/ BuildFails
  \/ BuildThrows
  \/ Build
  \/ AddModule
  \/ AddFails
  \/ \E r \in {"ok", "failed"} : Run(r)

\* The driver takes the result.
TakeResult(r) ==
  /\ phase = "done"
  /\ result = r
  /\ phase' = "idle"
  /\ exec' = NoCall
  /\ result' = "none"
  /\ UNCHANGED <<doomed, failedLate, sessionVars, irVars, checkerVars, jitVars>>

\* InteractiveOrchestrator::reset makes a new Engine.
ResetEngine ==
  /\ phase = "idle"
  /\ Session!Reset
  /\ Ir!Reset
  /\ scope' = {}
  /\ checkerErr' = FALSE
  /\ unitCounter' = 0
  /\ trackers' = [f \in Fragment |-> 0]
  /\ loaded' = {}
  /\ removalFailed' = FALSE
  /\ failedLate' = FALSE
  /\ UNCHANGED <<phase, exec, result, doomed>>

------------------------------------------------------------------------------

\* Between calls, and unless a removal has failed, the JIT holds one module for
\* every tracker and the tracked fragments are active: no module of an
\* invalidated fragment stays callable, and none is left without an owner.
LoadedModulesTracked ==
  phase = "idle" /\ ~removalFailed =>
    /\ {m.unit : m \in loaded} = {trackers[f] : f \in Fragment} \ {0}
    /\ \A f \in Fragment : trackers[f] # 0 => Ir!IsActive(f)
==============================================================================
