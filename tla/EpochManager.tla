----------------------------- MODULE EpochManager -----------------------------
(***************************************************************************)
(* The epoch system of a notebook (class EpochManager): every execution of *)
(* a cell opens a new epoch; re-executing a cell invalidates its old epoch *)
(* and every epoch that transitively depends on it; a successful execution *)
(* commits the interface of the cell to its epoch and makes the epoch the  *)
(* producer of the symbols it defines.                                     *)
(*                                                                         *)
(* Notebook::execute_cell is the only caller.  Its progress is visible     *)
(* here as running (the epoch of the execution under way) and stale (the   *)
(* old epoch it still has to invalidate); an execution that fails leaves   *)
(* its epoch as create_epoch_for_cell made it.                             *)
(***************************************************************************)
EXTENDS Naturals, DependencyGraph

CONSTANTS Cell, Symbol,
          MaxEpoch   \* bound on the number of epochs

ASSUME EpochBound == MaxEpoch \in Nat

EpochId == 1..MaxEpoch
NoEpoch == 0

VARIABLES
  counter,    \* epoch_counter_: the epochs 1..counter exist
  epochs,     \* epochs[e]: validity, cells and defined symbols (the used
              \* symbols of an epoch are stored and never read)
  cellEpoch,  \* cellEpoch[c]: the epoch of the last execution of cell c
  producer,   \* symbol_producer_epoch_
  deps, rdeps,
  running, stale

vars == <<counter, epochs, cellEpoch, producer, deps, rdeps, running, stale>>

Blank == [valid |-> FALSE, cells |-> {}, defined |-> {}]

Init ==
  /\ counter = 0
  /\ epochs = [e \in EpochId |-> Blank]
  /\ cellEpoch = [c \in Cell |-> NoEpoch]
  /\ producer = [s \in Symbol |-> NoEpoch]
  /\ deps = NoEdges(EpochId)
  /\ rdeps = NoEdges(EpochId)
  /\ running = NoEpoch
  /\ stale = NoEpoch

\* Mutant: the cell keeps pointing at its old epoch.
AssignEpochOnce(c) ==
  [cellEpoch EXCEPT ![c] = IF @ = NoEpoch THEN counter + 1 ELSE @]

AssignEpoch(c) == [cellEpoch EXCEPT ![c] = counter + 1]

CreateEpoch(c) ==
  /\ running = NoEpoch
  /\ counter < MaxEpoch
  /\ counter' = counter + 1
  /\ epochs' = [epochs EXCEPT ![counter + 1] =
                  [valid |-> TRUE, cells |-> {c}, defined |-> {}]]
  /\ cellEpoch' = AssignEpoch(c)
  /\ deps' = [deps EXCEPT ![counter + 1] = {}]
  /\ running' = counter + 1
  /\ stale' = cellEpoch[c]
  /\ UNCHANGED <<producer, rdeps>>

\* Mutant: only direct dependents are affected.
AffectedDirectOnly(e) == {e} \cup rdeps[e]

\* The list that invalidate_epoch returns: e and its transitive dependents,
\* whether or not they are still valid.
Affected(e) == {e} \cup Dependents(rdeps, e)

\* The epochs that invalidate_epoch_local does not return early from.
Falling(e) == {x \in Affected(e) : epochs[x].valid}

\* The symbols that invalidating e withdraws from the session.
Withdrawn(e) == UNION {epochs[x].defined : x \in Falling(e)}

\* Mutant: producer entries survive their epoch.
ProducersKept(e) == producer

ProducersAfter(e) ==
  [s \in Symbol |-> IF producer[s] \in Falling(e) THEN NoEpoch ELSE producer[s]]

InvalidateOld ==
  /\ stale # NoEpoch
  /\ epochs' = [x \in EpochId |->
                  IF x \in Falling(stale) THEN [epochs[x] EXCEPT !.valid = FALSE]
                  ELSE epochs[x]]
  /\ producer' = ProducersAfter(stale)
  /\ stale' = NoEpoch
  /\ UNCHANGED <<counter, cellEpoch, deps, rdeps, running>>

\* The epochs that produce the symbols of U, the running one excepted.
ProducersOf(U) == {producer[u] : u \in U} \ {NoEpoch, running}

\* Mutant: the producers are updated before the dependencies are derived, and
\* the epoch is not erased from its own dependencies.
CommitEpochLateDeps(c, D, U) ==
  /\ running # NoEpoch /\ stale = NoEpoch
  /\ cellEpoch[c] = running
  /\ epochs' = [epochs EXCEPT ![running] =
                  [valid |-> TRUE, cells |-> @.cells \cup {c}, defined |-> D]]
  /\ producer' = [s \in Symbol |-> IF s \in D THEN running ELSE producer[s]]
  /\ LET late == {producer'[u] : u \in U} \ {NoEpoch} IN
       /\ deps' = SetDeps(deps, running, late)
       /\ rdeps' = SetRdeps(deps, rdeps, running, late)
  /\ running' = NoEpoch
  /\ UNCHANGED <<counter, cellEpoch, stale>>

CommitEpoch(c, D, U) ==
  /\ running # NoEpoch /\ stale = NoEpoch
  /\ cellEpoch[c] = running
  /\ epochs' = [epochs EXCEPT ![running] =
                  [valid |-> TRUE, cells |-> @.cells \cup {c}, defined |-> D]]
  /\ deps' = SetDeps(deps, running, ProducersOf(U))
  /\ rdeps' = SetRdeps(deps, rdeps, running, ProducersOf(U))
  /\ producer' = [s \in Symbol |-> IF s \in D THEN running ELSE producer[s]]
  /\ running' = NoEpoch
  /\ UNCHANGED <<counter, cellEpoch, stale>>

\* The execution failed: execute_cell returns without a commit.
AbandonEpoch ==
  /\ running # NoEpoch /\ stale = NoEpoch
  /\ running' = NoEpoch
  /\ UNCHANGED <<counter, epochs, cellEpoch, producer, deps, rdeps, stale>>

Reset ==
  /\ running = NoEpoch
  /\ counter' = 0
  /\ epochs' = [e \in EpochId |-> Blank]
  /\ cellEpoch' = [c \in Cell |-> NoEpoch]
  /\ producer' = [s \in Symbol |-> NoEpoch]
  /\ deps' = NoEdges(EpochId)
  /\ rdeps' = NoEdges(EpochId)
  /\ UNCHANGED <<running, stale>>

Next ==
  \/ \E c \in Cell : CreateEpoch(c)
  \/ InvalidateOld
  \/ \E c \in Cell, D \in SUBSET Symbol, U \in SUBSET Symbol : CommitEpoch(c, D, U)
  \/ AbandonEpoch
  \/ Reset

Spec == Init /\ [][Next]_vars

------------------------------------------------------------------------------

EpochRecord ==
  [valid : BOOLEAN, cells : SUBSET Cell, defined : SUBSET Symbol]

\* The maps of class EpochManager keep their types; only the last epoch runs.
TypeOK ==
  /\ counter \in 0..MaxEpoch
  /\ epochs \in [EpochId -> EpochRecord]
  /\ cellEpoch \in [Cell -> 0..MaxEpoch]
  /\ producer \in [Symbol -> 0..MaxEpoch]
  /\ deps \in [EpochId -> SUBSET EpochId]
  /\ rdeps \in [EpochId -> SUBSET EpochId]
  /\ running \in {NoEpoch, counter}
  /\ stale \in 0..MaxEpoch

\* The reverse edges that invalidation walks are the forward edges turned
\* around (set_epoch_dependencies).
GraphMirrored == Mirrored(deps, rdeps)

\* The producer of a symbol is a valid epoch that defines it: commit_epoch
\* never derives a dependency on an epoch that was already invalidated.
ProducerLive ==
  \A s \in Symbol :
     producer[s] # NoEpoch =>
       epochs[producer[s]].valid /\ s \in epochs[producer[s]].defined

\* A valid epoch depends on valid epochs only: re-executing a cell takes every
\* transitive dependent of its old epoch down with it.
ValidDependsOnValid ==
  \A e \in EpochId : epochs[e].valid => \A d \in deps[e] : epochs[d].valid

\* Epochs depend on earlier epochs only, so no epoch can invalidate itself
\* through a cycle, however often cells redefine each other's symbols.
DependsOnEarlier == \A e \in EpochId : \A d \in deps[e] : d < e

\* "Each executed cell is associated with exactly one epoch"
\* (epoch_system.hpp:18): of the epochs that list a cell, only its current one
\* is valid, except while the old one is about to be invalidated.
OneValidEpochPerCell ==
  \A e \in EpochId, c \in Cell :
     epochs[e].valid /\ c \in epochs[e].cells /\ e # stale => cellEpoch[c] = e

\* Creating, committing and invalidating epochs does to the set of valid
\* epochs exactly what the abstract specification promises.
Abstract ==
  INSTANCE Invalidation WITH
    Node <- EpochId, live <- {e \in EpochId : epochs[e].valid}, edges <- deps

ImplementsInvalidation == Abstract!Spec
==============================================================================
