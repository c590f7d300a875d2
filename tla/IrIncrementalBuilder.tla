-------------------------- MODULE IrIncrementalBuilder --------------------------
(***************************************************************************)
(* The book-keeping of IR fragments (class IrIncrementalBuilder): which    *)
(* fragment is active, which fragment produces a symbol, and which         *)
(* fragments depend on which.  A fragment id is a REPL step or a notebook  *)
(* cell; a cell that is executed again rebuilds the fragment of the same   *)
(* id, unlike epochs, which are numbered afresh.                           *)
(*                                                                         *)
(* The orchestrator invalidates an active fragment before it rebuilds it,  *)
(* and commits the interface right after a successful build; a build that  *)
(* fails touches none of this state.                                       *)
(***************************************************************************)
EXTENDS DependencyGraph

CONSTANTS Fragment, Symbol, NoFragment

ASSUME NoFragmentIsNone == NoFragment \notin Fragment

VARIABLES
  fragments,  \* fragments[f]: was it ever built, is it active, what it defines
  producer,   \* symbol_producer_fragment_
  deps, rdeps

vars == <<fragments, producer, deps, rdeps>>

Blank == [built |-> FALSE, active |-> FALSE, defined |-> {}]

IsActive(f) == fragments[f].active

Init ==
  /\ fragments = [f \in Fragment |-> Blank]
  /\ producer = [s \in Symbol |-> NoFragment]
  /\ deps = NoEdges(Fragment)
  /\ rdeps = NoEdges(Fragment)

\* Mutant: only direct dependents are invalidated.
InvalidatedDirectOnly(f) == {f} \cup rdeps[f]

\* Mutant: the search walks the forward edges.
InvalidatedUpstream(f) == {f} \cup Dependents(deps, f)

\* invalidated_fragments: f and its transitive dependents.
InvalidatedFragments(f) == {f} \cup Dependents(rdeps, f)

\* The producer entries that go: those of fragments that were active.
Deactivating(f) == {g \in InvalidatedFragments(f) : IsActive(g)}

\* Mutant: producer entries survive their fragment.
ProducersKept(f) == producer

ProducersAfter(f) ==
  [s \in Symbol |-> IF producer[s] \in Deactivating(f) THEN NoFragment ELSE producer[s]]

InvalidateFragment(f) ==
  /\ fragments[f].built
  /\ fragments' = [g \in Fragment |->
                     IF g \in Deactivating(f) THEN [fragments[g] EXCEPT !.active = FALSE]
                     ELSE fragments[g]]
  /\ producer' = ProducersAfter(f)
  /\ UNCHANGED <<deps, rdeps>>

\* Dependencies come from the producers as they were before this fragment.
ProducersOf(f, U) == {producer[u] : u \in U} \ {NoFragment, f}

\* Mutant: the producers are updated before the dependencies are derived, and
\* the fragment is not erased from its own dependencies.
BuildFragmentLateDeps(f, D, U) ==
  /\ ~IsActive(f)
  /\ fragments' = [fragments EXCEPT ![f] = [built |-> TRUE, active |-> TRUE, defined |-> D]]
  /\ producer' = [s \in Symbol |-> IF s \in D THEN f ELSE producer[s]]
  /\ LET late == {producer'[u] : u \in U} \ {NoFragment} IN
       /\ deps' = SetDeps(deps, f, late)
       /\ rdeps' = SetRdeps(deps, rdeps, f, late)

\* build_fragment that succeeds, and commit_fragment_interface.
BuildFragment(f, D, U) ==
  /\ ~IsActive(f)
  /\ fragments' = [fragments EXCEPT ![f] = [built |-> TRUE, active |-> TRUE, defined |-> D]]
  /\ deps' = SetDeps(deps, f, ProducersOf(f, U))
  /\ rdeps' = SetRdeps(deps, rdeps, f, ProducersOf(f, U))
  /\ producer' = [s \in Symbol |-> IF s \in D THEN f ELSE producer[s]]

Reset ==
  /\ fragments' = [f \in Fragment |-> Blank]
  /\ producer' = [s \in Symbol |-> NoFragment]
  /\ deps' = NoEdges(Fragment)
  /\ rdeps' = NoEdges(Fragment)

Next ==
  \/ \E f \in Fragment : InvalidateFragment(f)
  \/ \E f \in Fragment, D \in SUBSET Symbol, U \in SUBSET Symbol : BuildFragment(f, D, U)
  \/ Reset

Spec == Init /\ [][Next]_vars

------------------------------------------------------------------------------

\* The maps of class IrIncrementalBuilder keep their types.
TypeOK ==
  /\ fragments \in [Fragment -> [built : BOOLEAN, active : BOOLEAN, defined : SUBSET Symbol]]
  /\ producer \in [Symbol -> Fragment \cup {NoFragment}]
  /\ deps \in [Fragment -> SUBSET Fragment]
  /\ rdeps \in [Fragment -> SUBSET Fragment]

\* The reverse edges that invalidation walks are the forward edges turned
\* around (set_fragment_dependencies).
GraphMirrored == Mirrored(deps, rdeps)

\* The producer of a symbol is an active fragment that defines it.
ProducerActive ==
  \A s \in Symbol :
     producer[s] # NoFragment =>
       IsActive(producer[s]) /\ s \in fragments[producer[s]].defined

\* An active fragment depends on active fragments only, although fragment ids
\* are reused and the edges of inactive fragments stay in the graph.
ActiveDependsOnActive ==
  \A f \in Fragment : IsActive(f) => \A g \in deps[f] : IsActive(g)

\* No active fragment is its own transitive dependent, although fragments
\* redefine each other's symbols and ids are reused: the edges that could
\* close a cycle belong to fragments that are inactive by then.
ActiveAcyclic == \A f \in Fragment : IsActive(f) => f \notin Dependents(rdeps, f)

\* The set of active fragments changes as the abstract specification promises.
Abstract ==
  INSTANCE Invalidation WITH
    Node <- Fragment, live <- {f \in Fragment : IsActive(f)}, edges <- deps

ImplementsInvalidation == Abstract!Spec
==============================================================================
