------------------------------- MODULE Notebook -------------------------------
(***************************************************************************)
(* The notebook: class Notebook and the command loop of run_notebook_mode. *)
(* It composes the orchestrator with the epoch system.  A new cell is      *)
(* executed at once; `run` executes a cell again; `clear` starts over.     *)
(* The commands create code cells only, and a cell's text never changes.   *)
(*                                                                         *)
(* execute_cell opens an epoch, invalidates the cell's old epoch in the    *)
(* epoch system, the session and the cell flags, executes the cell's text  *)
(* and commits or abandons the epoch.                                      *)
(***************************************************************************)
EXTENDS Orchestrator

CONSTANTS MaxEpoch

ASSUME EpochsBounded == MaxEpoch \in Nat

VARIABLES
  cells,                                    \* cells[c]: text, epoch and flag
  counter, epochs, cellEpoch, producer,     \* EpochManager
  epochDeps, epochRdeps, running, stale

Cell == Fragment

epochVars == <<counter, epochs, cellEpoch, producer, epochDeps, epochRdeps, running, stale>>
notebookVars == <<vars, cells, epochVars>>

Epoch == INSTANCE EpochManager WITH deps <- epochDeps, rdeps <- epochRdeps

NoCell == [created |-> FALSE, text |-> NoText, epoch |-> 0, valid |-> FALSE]

Created == {c \in Cell : cells[c].created}

NotebookInit ==
  /\ Init
  /\ Epoch!Init
  /\ cells = [c \in Cell |-> NoCell]

\* The cell whose execution is under way.
Current == CHOOSE c \in Cell : cellEpoch[c] = running

\* create_cell, and execute_cell up to the creation of the epoch.  Ids are
\* numbered, so the next cell is the least one not created.
NewCell(c, u) ==
  /\ phase = "idle"
  /\ c \notin Created /\ \A b \in Cell : b < c => b \in Created
  /\ Epoch!CreateEpoch(c)
  /\ cells' = [cells EXCEPT ![c] =
                 [created |-> TRUE, text |-> u, epoch |-> counter', valid |-> TRUE]]
  /\ UNCHANGED vars

\* execute_cell of an existing cell, up to the creation of the epoch.
RunCell(c) ==
  /\ phase = "idle"
  /\ c \in Created
  /\ Epoch!CreateEpoch(c)
  /\ cells' = [cells EXCEPT ![c].epoch = counter', ![c].valid = TRUE]
  /\ UNCHANGED vars

\* Mutant: only the cells of the old epoch itself are flagged.
FlaggedOldOnly == epochs[stale].cells

\* The cells listed by the epochs that invalidate_epoch reports.
FlaggedCells == UNION {epochs[e].cells : e \in Epoch!Affected(stale)}

InvalidateOldEpoch ==
  /\ phase = "idle"
  /\ Epoch!InvalidateOld
  /\ Session!InvalidateSymbols(Epoch!Withdrawn(stale))
  /\ cells' = [c \in Cell |-> IF c \in FlaggedCells THEN [cells[c] EXCEPT !.valid = FALSE]
                              ELSE cells[c]]
  /\ UNCHANGED <<irVars, checkerVars, jitVars, callVars>>

ExecuteText ==
  /\ running # 0 /\ stale = 0
  /\ Submit(Current, cells[Current].text)
  /\ UNCHANGED <<cells, epochVars>>

Execute == Step /\ UNCHANGED <<cells, epochVars>>

CellSucceeds ==
  /\ TakeResult("ok")
  /\ Epoch!CommitEpoch(exec.id, exec.unit.defined, exec.unit.used)
  /\ UNCHANGED cells

CellFails ==
  /\ TakeResult("failed")
  /\ Epoch!AbandonEpoch
  /\ cells' = [cells EXCEPT ![exec.id].valid = FALSE]

ResetSession ==
  /\ running = 0
  /\ Created # {}
  /\ ResetEngine
  /\ Epoch!Reset
  /\ cells' = [c \in Cell |-> NoCell]

NotebookNext ==
  \/ \E c \in Cell, u \in Units : NewCell(c, u)
  \/ \E c \in Cell : RunCell(c)
  \/ InvalidateOldEpoch
  \/ ExecuteText
  \/ Execute
  \/ CellSucceeds
  \/ CellFails
  \/ ResetSession

NotebookSpec == NotebookInit /\ [][NotebookNext]_notebookVars

------------------------------------------------------------------------------

Quiet == phase = "idle" /\ running = 0

\* A cell shown as valid is backed by the last epoch of that cell, which is
\* valid and committed its interface, and by no other: invalidate_epoch reports
\* the old epoch of a cell that is executed again, which lists the cell itself,
\* so the cell is flagged, and a success does not set the flag again.
ShownValidIsLive ==
  Quiet => \A c \in Created :
    cells[c].valid =>
      /\ cells[c].epoch = cellEpoch[c]
      /\ epochs[cellEpoch[c]].valid
      /\ epochs[cellEpoch[c]].defined = cells[c].text.defined
      /\ \A e \in Epoch!EpochId : c \in epochs[e].cells => e = cellEpoch[c]

HasCode(c) == Ir!IsActive(c) /\ trackers[c] # 0

\* The code of a cell shown as valid is still loaded: no epoch that depends on
\* the symbols of a re-executed cell stays valid (epoch_system.hpp:20,
\* "invalidates all epochs that (transitively) depend on the old epoch").
ShownValidIsLoaded ==
  Quiet /\ ~removalFailed => \A c \in Created :
    cells[c].valid => HasCode(c)

\* Only a call that fails after its unit was committed can break that: until
\* there is one, and whatever was rejected before, the code of every cell shown
\* as valid is loaded, although epochs and fragments keep their dependencies
\* each in a graph of its own and execute_cell and execute walk them apart.
LoadedUnlessFailedLate ==
  Quiet /\ ~failedLate => \A c \in Created : cells[c].valid => HasCode(c)

\* FreshAfterFirst of SessionManager in the whole notebook, where the checker's
\* scope decides as well what a cell may use, and the epoch system withdraws
\* symbols.
SymbolsFreshAfterFirst == Session!FreshAfterFirst

\* A valid symbol is one that loaded code of a live cell defines: what a
\* re-executed cell unloads, its dependents included, has been withdrawn or
\* staled as a symbol too, although symbols, epochs and fragments each keep
\* their own dependencies.  A call that fails after its unit was committed
\* leaves symbols valid whose code was never loaded.
ValidSymbolsLoaded ==
  Quiet /\ ~failedLate => \A s \in Symbol :
    Session!IsValid(s) => \E c \in Created : HasCode(c) /\ s \in fragments[c].defined

==============================================================================
