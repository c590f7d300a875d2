-------------------------- MODULE CommandLoopProofs --------------------------
(***************************************************************************)
(* What holds of the notebook and of the REPL, for every set of cells,     *)
(* lines, texts and bounds.                                                *)
(*                                                                         *)
(* The modules in the JIT, through every phase of a call and every way in  *)
(* which it may fail.  A module is owned by the one fragment whose tracker *)
(* holds its number.  Numbers are handed out upwards, so that of the call  *)
(* under way is new (Numbered); the call removes the module of its own     *)
(* fragment before it adds another one (Replaced), or the tracker would be *)
(* overwritten and the module left without an owner.                       *)
(*                                                                         *)
(* The cells: a cell is flagged when an epoch that lists it is reported by *)
(* invalidate_epoch, so a cell that is still shown as valid has a current  *)
(* epoch that was not reported; the one execution under way is the         *)
(* exception, since its epoch has not committed anything.                  *)
(*                                                                         *)
(* The symbols: a call commits a unit only if the analyzer has let its     *)
(* uses through, which is all that the session's invariant asks of it;     *)
(* whether the checker knows a name makes no difference.                   *)
(*                                                                         *)
(* The three managers under the notebook: each step of the notebook is a   *)
(* step of the session, of the epochs and of the fragments as their        *)
(* modules specify them, or leaves them alone; so what is proved of each   *)
(* on its own holds of the notebook.                                       *)
(*                                                                         *)
(* The code of the cells: flags follow the epochs and modules follow the   *)
(* fragments, two graphs that are kept apart.  While no call has failed    *)
(* late, their producers are the same cells (ProducersAgree), so the       *)
(* fragments that a valid cell depends on are backed by epochs that its    *)
(* epoch depends on (StandingHaveCode), and what unloads one flags the     *)
(* other.                                                                  *)
(*                                                                         *)
(* The lines of the REPL: every line is a fragment of its own, which was   *)
(* never built; so the call finds nothing to unload, and nothing is ever   *)
(* doomed.                                                                 *)
(***************************************************************************)
EXTENDS Notebook, Repl, TLAPS

SessionP == INSTANCE SessionManagerProofs WITH deps <- symDeps, rdeps <- symRdeps

------------------------------------------------------------------------------
(* A call of the orchestrator *)

FragmentRecord == [built : BOOLEAN, active : BOOLEAN, defined : SUBSET Symbol]

LoadTypeOK ==
  /\ unitCounter \in Nat
  /\ trackers \in [Fragment -> Nat]
  /\ fragments \in [Fragment -> FragmentRecord]
  /\ phase # "idle" => exec.id \in Fragment /\ exec.unit \in Units
  /\ phase # "remove" => doomed = {}

\* Trackers and modules correspond one to one.
Tracked ==
  /\ {m.unit : m \in loaded} = {trackers[f] : f \in Fragment} \ {0}
  /\ \A f, g \in Fragment : trackers[f] = trackers[g] /\ trackers[f] # 0 => f = g

Numbered ==
  /\ \A f \in Fragment : trackers[f] <= unitCounter
  /\ phase \in {"remove", "add"} => \A f \in Fragment : trackers[f] < unitCounter

\* Tracked fragments are active, save those whose module is about to go.
ActiveOrDoomed ==
  \A f \in Fragment : trackers[f] # 0 => fragments[f].active \/ f \in doomed

Replaced ==
  /\ phase = "remove" => /\ trackers[exec.id] # 0 => exec.id \in doomed
  /\ phase = "add" => trackers[exec.id] = 0 /\ fragments[exec.id].active

\* A removal that failed leaves a tracker of a fragment that is inactive.
LoadInv ==
  LoadTypeOK /\ (~removalFailed => Tracked /\ Numbered /\ ActiveOrDoomed /\ Replaced)

------------------------------------------------------------------------------

\* An engine that has just been made has loaded nothing.
LEMMA NewEngineLoadInv ==
  ASSUME unitCounter = 0, trackers = [f \in Fragment |-> 0], loaded = {},
         fragments = [f \in Fragment |-> Ir!Blank], phase = "idle", doomed = {}
  PROVE  LoadInv
<1>1. LoadTypeOK
  BY DEF LoadTypeOK, FragmentRecord, Ir!Blank
<1>2. Tracked /\ Numbered /\ ActiveOrDoomed /\ Replaced
  BY DEF Tracked, Numbered, ActiveOrDoomed, Replaced
<1> QED BY <1>1, <1>2 DEF LoadInv

\* A step that leaves what is loaded alone and enters neither the removal nor
\* the addition of modules.
LEMMA OtherPhaseLoadInv ==
  ASSUME LoadInv, UNCHANGED <<unitCounter, trackers, loaded, fragments, removalFailed>>,
         phase' \notin {"remove", "add"}, doomed' \in {{}, doomed},
         phase' # "idle" => exec'.id \in Fragment /\ exec'.unit \in Units,
         phase # "remove" \/ doomed = {}
  PROVE  LoadInv'
<1>1. LoadTypeOK'
  BY DEF LoadInv, LoadTypeOK
<1>2. ASSUME ~removalFailed PROVE (Tracked /\ Numbered /\ ActiveOrDoomed /\ Replaced)'
  <2>1. Tracked /\ Numbered /\ ActiveOrDoomed
    BY <1>2 DEF LoadInv
  <2>2. doomed = {}
    BY DEF LoadInv, LoadTypeOK
  <2> QED BY <2>1, <2>2 DEF Tracked, Numbered, ActiveOrDoomed, Replaced
<1> QED BY <1>1, <1>2 DEF LoadInv

\* The call gets a number, and its fragment's previous module is doomed with
\* those of the dependents.
LEMMA UnloadLoadInv ==
  ASSUME LoadInv, Unload
  PROVE  LoadInv'
<1>1. /\ exec.id \in Fragment /\ phase' = "remove" /\ unitCounter' = unitCounter + 1
      /\ UNCHANGED <<exec, trackers, loaded, removalFailed>> /\ phase = "unload"
  BY DEF Unload, LoadInv, LoadTypeOK
<1>2. PICK D \in SUBSET Fragment :
        /\ fragments' = [g \in Fragment |-> IF g \in D THEN [fragments[g] EXCEPT !.active = FALSE]
                                            ELSE fragments[g]]
        /\ \A g \in D : trackers[g] # 0 => g \in doomed'
        /\ fragments[exec.id].active => exec.id \in D
        /\ doomed' = doomed \/ fragments[exec.id].active
  <2>1. CASE Ir!IsActive(exec.id)
    <3>1. /\ fragments' = [g \in Fragment |->
                IF g \in Ir!Deactivating(exec.id) THEN [fragments[g] EXCEPT !.active = FALSE]
                ELSE fragments[g]]
          /\ doomed' = {g \in Ir!InvalidatedFragments(exec.id) : trackers[g] # 0}
      BY <2>1 DEF Unload, Ir!InvalidateFragment
    <3> DEFINE D == Ir!Deactivating(exec.id) \cap Fragment
    <3>2. \A g \in D : g \in Ir!InvalidatedFragments(exec.id)
      BY DEF Ir!Deactivating
    <3>3. exec.id \in D
      BY <1>1, <2>1 DEF Ir!Deactivating, Ir!InvalidatedFragments
    <3>4. fragments' = [g \in Fragment |->
                IF g \in D THEN [fragments[g] EXCEPT !.active = FALSE] ELSE fragments[g]]
      BY <3>1
    <3>5. fragments[exec.id].active
      BY <2>1 DEF Ir!IsActive
    <3> HIDE DEF D
    <3>6. D \in SUBSET Fragment
      BY DEF D
    <3> QED BY <3>1, <3>2, <3>3, <3>4, <3>5, <3>6
  <2>2. CASE ~Ir!IsActive(exec.id)
    <3> DEFINE D == {}
    <3>1. fragments' = fragments /\ doomed' = doomed /\ ~fragments[exec.id].active
      BY <2>2 DEF Unload, irVars, Ir!IsActive
    <3>2. fragments' = [g \in Fragment |->
                IF g \in D THEN [fragments[g] EXCEPT !.active = FALSE] ELSE fragments[g]]
      BY <3>1 DEF LoadInv, LoadTypeOK
    <3>3. D \in SUBSET Fragment /\ \A g \in D : FALSE
      OBVIOUS
    <3> HIDE DEF D
    <3> QED BY <3>1, <3>2, <3>3
  <2> QED BY <2>1, <2>2
<1>3. /\ fragments' \in [Fragment -> FragmentRecord]
      /\ \A g \in Fragment \ D : fragments'[g] = fragments[g]
  <2>1. \A g \in Fragment : fragments[g] \in FragmentRecord
    BY DEF LoadInv, LoadTypeOK
  <2>2. \A g \in Fragment : [fragments[g] EXCEPT !.active = FALSE] \in FragmentRecord
    BY <2>1 DEF FragmentRecord
  <2> QED BY <1>2, <2>1, <2>2
<1>4. LoadTypeOK'
  BY <1>1, <1>3 DEF LoadInv, LoadTypeOK
<1>5. ASSUME ~removalFailed PROVE (Tracked /\ Numbered /\ ActiveOrDoomed /\ Replaced)'
  <2>1. Tracked /\ Numbered /\ ActiveOrDoomed /\ doomed = {}
    BY <1>1, <1>5 DEF LoadInv, LoadTypeOK
  <2>2. Tracked'
    BY <1>1, <2>1 DEF Tracked
  <2>3. \A f \in Fragment : trackers[f] \in Nat /\ unitCounter \in Nat /\ trackers[f] <= unitCounter
    BY <2>1 DEF LoadInv, LoadTypeOK, Numbered
  <2>4. Numbered'
    BY <1>1, <2>3 DEF Numbered
  <2>5. ActiveOrDoomed'
    BY <1>1, <1>2, <1>3, <2>1 DEF ActiveOrDoomed
  <2>6. Replaced'
    BY <1>1, <1>2, <2>1 DEF ActiveOrDoomed, Replaced
  <2> QED BY <2>2, <2>4, <2>5, <2>6
<1> QED BY <1>1, <1>4, <1>5 DEF LoadInv

\* A doomed module goes, and its tracker with it.
LEMMA RemoveModuleLoadInv ==
  ASSUME LoadInv, NEW g \in Fragment, RemoveModule(g)
  PROVE  LoadInv'
<1>1. /\ phase = "remove" /\ phase' = phase /\ g \in doomed /\ doomed' = doomed \ {g}
      /\ loaded' = {m \in loaded : m.unit # trackers[g]}
      /\ trackers' = [trackers EXCEPT ![g] = 0]
      /\ UNCHANGED <<exec, fragments, unitCounter, removalFailed>>
  BY DEF RemoveModule, Unloaded, irVars
<1>2. \A f \in Fragment : trackers'[f] = IF f = g THEN 0 ELSE trackers[f]
  BY <1>1 DEF LoadInv, LoadTypeOK
<1>3. LoadTypeOK'
  BY <1>1 DEF LoadInv, LoadTypeOK
<1>4. ASSUME ~removalFailed PROVE (Tracked /\ Numbered /\ ActiveOrDoomed /\ Replaced)'
  <2>1. Tracked /\ Numbered /\ ActiveOrDoomed /\ Replaced /\ exec.id \in Fragment
    BY <1>1, <1>4 DEF LoadInv, LoadTypeOK
  <2>2. Tracked'
    <3>1. {m.unit : m \in loaded'} = {m.unit : m \in loaded} \ {trackers[g]}
      BY <1>1
    <3>2. {trackers'[f] : f \in Fragment} \ {0}
             = ({trackers[f] : f \in Fragment} \ {0}) \ {trackers[g]}
      BY <1>2, <2>1 DEF Tracked
    <3> QED BY <1>2, <2>1, <3>1, <3>2 DEF Tracked
  <2>3. Numbered'
    <3>1. \A f \in Fragment : trackers[f] < unitCounter /\ trackers[f] \in Nat
      BY <1>1, <2>1 DEF LoadInv, LoadTypeOK, Numbered
    <3>2. unitCounter \in Nat
      BY DEF LoadInv, LoadTypeOK
    <3>3. \A f \in Fragment : trackers'[f] < unitCounter /\ trackers'[f] <= unitCounter
      BY <1>2, <3>1, <3>2
    <3> QED BY <1>1, <3>3 DEF Numbered
  <2>4. ActiveOrDoomed'
    BY <1>1, <1>2, <2>1 DEF ActiveOrDoomed
  <2>5. Replaced'
    BY <1>1, <1>2, <2>1 DEF Replaced
  <2> QED BY <2>2, <2>3, <2>4, <2>5
<1> QED BY <1>1, <1>3, <1>4 DEF LoadInv

\* A removal that fails ends the call.
LEMMA RemoveFailsLoadInv ==
  ASSUME LoadInv, RemoveFails
  PROVE  LoadInv'
<1>1. /\ removalFailed' = TRUE /\ phase = "remove" /\ phase' = "done" /\ doomed' = {}
      /\ UNCHANGED <<exec, fragments, unitCounter, trackers>>
  BY DEF RemoveFails, Return, irVars
<1> QED BY <1>1 DEF LoadInv, LoadTypeOK

\* The fragment of the call is active, and nothing it loaded is left.
LEMMA BuildLoadInv ==
  ASSUME LoadInv, Build
  PROVE  LoadInv'
<1>1. /\ phase = "remove" /\ phase' = "add" /\ doomed = {} /\ doomed' = {}
      /\ exec.id \in Fragment /\ exec.unit \in Units
      /\ fragments' = [fragments EXCEPT ![exec.id] =
                         [built |-> TRUE, active |-> TRUE, defined |-> exec.unit.defined]]
      /\ UNCHANGED <<exec, unitCounter, trackers, loaded, removalFailed>>
  BY DEF Build, Ir!BuildFragment, LoadInv, LoadTypeOK, jitVars
<1>2. [built |-> TRUE, active |-> TRUE, defined |-> exec.unit.defined] \in FragmentRecord
  BY <1>1, UnitsAreInterfaces DEF FragmentRecord
<1>3. /\ fragments' \in [Fragment -> FragmentRecord]
      /\ fragments'[exec.id].active
      /\ \A f \in Fragment : f # exec.id => fragments'[f] = fragments[f]
  BY <1>1, <1>2 DEF LoadInv, LoadTypeOK
<1>4. LoadTypeOK'
  BY <1>1, <1>3 DEF LoadInv, LoadTypeOK
<1>5. ASSUME ~removalFailed PROVE (Tracked /\ Numbered /\ ActiveOrDoomed /\ Replaced)'
  <2>1. Tracked /\ Numbered /\ ActiveOrDoomed /\ Replaced
    BY <1>5 DEF LoadInv
  <2>2. Tracked' /\ Numbered'
    <3>1. Tracked'
      BY <1>1, <2>1 DEF Tracked
    <3>2. Numbered'
      BY <1>1, <2>1 DEF Numbered
    <3> QED BY <3>1, <3>2
  <2>3. ActiveOrDoomed'
    BY <1>1, <1>3, <2>1 DEF ActiveOrDoomed
  <2>4. Replaced'
    BY <1>1, <1>3, <2>1 DEF Replaced
  <2> QED BY <2>2, <2>3, <2>4
<1> QED BY <1>1, <1>4, <1>5 DEF LoadInv

\* The new module and its tracker.
LEMMA AddModuleLoadInv ==
  ASSUME LoadInv, AddModule
  PROVE  LoadInv'
<1>1. /\ phase = "add" /\ phase' = "run" /\ doomed' = doomed /\ exec.id \in Fragment
      /\ loaded' = loaded \cup {[unit |-> unitCounter, exports |-> exec.unit.exports]}
      /\ trackers' = [trackers EXCEPT ![exec.id] = unitCounter]
      /\ UNCHANGED <<exec, fragments, unitCounter, removalFailed>>
  BY DEF AddModule, LoadInv, LoadTypeOK, irVars
<1>2. /\ unitCounter \in Nat
      /\ \A f \in Fragment : trackers'[f] = IF f = exec.id THEN unitCounter ELSE trackers[f]
  BY <1>1 DEF LoadInv, LoadTypeOK
<1>3. LoadTypeOK'
  BY <1>1, <1>2 DEF LoadInv, LoadTypeOK
<1>4. ASSUME ~removalFailed PROVE (Tracked /\ Numbered /\ ActiveOrDoomed /\ Replaced)'
  <2>1. Tracked /\ Numbered /\ ActiveOrDoomed /\ Replaced
    BY <1>4 DEF LoadInv
  <2>2. \A f \in Fragment : trackers[f] \in Nat /\ trackers[f] < unitCounter
    BY <1>1, <2>1 DEF LoadInv, LoadTypeOK, Numbered
  <2>3. trackers[exec.id] = 0 /\ unitCounter # 0
    BY <1>1, <1>2, <2>1, <2>2 DEF Replaced
  <2>4. Tracked'
    <3>1. {m.unit : m \in loaded'} = {m.unit : m \in loaded} \cup {unitCounter}
      <4> DEFINE new == [unit |-> unitCounter, exports |-> exec.unit.exports]
      <4>1. loaded' = loaded \cup {new} /\ new.unit = unitCounter
        BY <1>1
      <4> HIDE DEF new
      <4> QED BY <4>1
    <3>2. {trackers'[f] : f \in Fragment} \ {0}
             = ({trackers[f] : f \in Fragment} \ {0}) \cup {unitCounter}
      BY <1>1, <1>2, <2>3
    <3>3. \A f, g \in Fragment : trackers'[f] = trackers'[g] /\ trackers'[f] # 0 => f = g
      BY <1>2, <2>1, <2>2 DEF Tracked
    <3> QED BY <2>1, <3>1, <3>2, <3>3 DEF Tracked
  <2>5. Numbered'
    BY <1>1, <1>2, <2>2 DEF Numbered
  <2>6. ActiveOrDoomed'
    BY <1>1, <1>2, <2>1 DEF ActiveOrDoomed, Replaced
  <2>7. Replaced'
    BY <1>1 DEF Replaced
  <2> QED BY <2>4, <2>5, <2>6, <2>7
<1> QED BY <1>1, <1>3, <1>4 DEF LoadInv

\* The steps of a call that touch neither the fragments nor the JIT.
QuietStep ==
  \/ SyntaxError \/ RejectInvalidated
  \/ \E P \in SUBSET exec.unit.declared : CheckFails(P)
  \/ CheckSucceeds
  \/ \E d \in Symbol : CommitSymbol(d)
  \/ BuildFails \/ BuildThrows \/ AddFails
  \/ \E r \in {"ok", "failed"} : Run(r)

\* They keep the invariant.
LEMMA QuietStepLoadInv ==
  ASSUME LoadInv, phase # "idle", phase # "remove" \/ doomed = {}, QuietStep
  PROVE  LoadInv'
<1>0. exec.id \in Fragment /\ exec.unit \in Units
  BY DEF LoadInv, LoadTypeOK
<1>1. /\ UNCHANGED <<exec, unitCounter, trackers, loaded, fragments, removalFailed>>
      /\ phase' \in {"ended", "done", "commit", "unload"}
      /\ doomed' \in {{}, doomed}
  BY DEF QuietStep, SyntaxError, EndProcess, RejectInvalidated, CheckFails, CheckSucceeds, CommitSymbol,
         BuildFails, BuildThrows, AddFails, Run, Return, irVars, jitVars
<1> QED BY <1>0, <1>1, OtherPhaseLoadInv

\* Every step of a call keeps the invariant, whether it succeeds or fails.
LEMMA StepLoadInv ==
  ASSUME LoadInv, Step, phase # "idle"
  PROVE  LoadInv'
<1>1. CASE QuietStep
  <2>1. phase # "remove" \/ doomed = {}
    BY <1>1 DEF QuietStep, SyntaxError, RejectInvalidated, CheckFails, CheckSucceeds, CommitSymbol,
                BuildFails, BuildThrows, AddFails, Run
  <2> QED BY <1>1, <2>1, QuietStepLoadInv
<1>2. CASE Unload
  BY <1>2, UnloadLoadInv
<1>3. ASSUME NEW g \in Fragment, RemoveModule(g) PROVE LoadInv'
  BY <1>3, RemoveModuleLoadInv
<1>4. CASE RemoveFails
  BY <1>4, RemoveFailsLoadInv
<1>5. CASE Build
  BY <1>5, BuildLoadInv
<1>6. CASE AddModule
  BY <1>6, AddModuleLoadInv
<1> QED BY <1>1, <1>2, <1>3, <1>4, <1>5, <1>6 DEF Step, QuietStep

\* The drivers submit a unit, take the result and make a new engine.
LEMMA SubmitLoadInv ==
  ASSUME LoadInv, NEW f \in Fragment, NEW u \in Units, Submit(f, u)
  PROVE  LoadInv'
<1>1. /\ phase = "idle" /\ phase' = "analyze" /\ exec'.id = f /\ exec'.unit = u
      /\ doomed' = doomed
      /\ UNCHANGED <<unitCounter, trackers, loaded, fragments, removalFailed>>
  BY DEF Submit, irVars, jitVars
<1> QED BY <1>1, OtherPhaseLoadInv

\* Taking the result of a call ends it.
LEMMA TakeResultLoadInv ==
  ASSUME LoadInv, NEW r, TakeResult(r)
  PROVE  LoadInv'
<1>1. /\ phase = "done" /\ phase' = "idle" /\ doomed' = doomed
      /\ UNCHANGED <<unitCounter, trackers, loaded, fragments, removalFailed>>
  BY DEF TakeResult, irVars, jitVars
<1> QED BY <1>1, OtherPhaseLoadInv

\* A new engine replaces one that is not in a call.
LEMMA ResetEngineLoadInv ==
  ASSUME LoadInv, ResetEngine
  PROVE  LoadInv'
<1>1. /\ phase = "idle" /\ phase' = "idle" /\ doomed' = doomed
      /\ unitCounter' = 0 /\ trackers' = [f \in Fragment |-> 0] /\ loaded' = {}
      /\ fragments' = [f \in Fragment |-> Ir!Blank] /\ removalFailed' = FALSE
  BY DEF ResetEngine, Ir!Reset, callVars
<1>2. LoadTypeOK'
  BY <1>1 DEF LoadInv, LoadTypeOK, FragmentRecord, Ir!Blank
<1>3. (Tracked /\ Numbered /\ ActiveOrDoomed /\ Replaced)'
  BY <1>1 DEF Tracked, Numbered, ActiveOrDoomed, Replaced
<1> QED BY <1>2, <1>3 DEF LoadInv

\* A step that leaves the fragments, the JIT and the call alone.
LEMMA SameLoadInv ==
  ASSUME LoadInv, UNCHANGED <<irVars, jitVars, callVars>>
  PROVE  LoadInv'
BY DEF irVars, jitVars, callVars, LoadInv, LoadTypeOK, Tracked, Numbered, ActiveOrDoomed,
       Replaced

\* A step of the orchestrator happens in a call and leaves its text alone.
LEMMA StepIsInCall ==
  ASSUME Step
  PROVE  phase # "idle" /\ phase' # "idle" /\ exec' = exec
BY DEF Step, SyntaxError, EndProcess, RejectInvalidated, CheckFails, CheckSucceeds, CommitSymbol,
       Unload, RemoveModule, RemoveFails, BuildFails, BuildThrows, Build, AddModule, AddFails,
       Run, Return

------------------------------------------------------------------------------
(* The cells and their epochs *)

CellRecord == [created : BOOLEAN, text : Units \cup {NoText}, epoch : Nat, valid : BOOLEAN]
EpochRecord == [valid : BOOLEAN, cells : SUBSET Cell, defined : SUBSET Symbol]

\* The types of the cells and of the part of the epoch system they refer to.
CellTypeOK ==
  /\ cells \in [Cell -> CellRecord]
  /\ \A c \in Created : cells[c].text \in Units
  /\ counter \in 0..MaxEpoch
  /\ epochs \in [1..MaxEpoch -> EpochRecord]
  /\ cellEpoch \in [Cell -> 0..MaxEpoch] /\ \A c \in Cell : cellEpoch[c] <= counter
  /\ running \in {0, counter} /\ stale \in 0..MaxEpoch
  /\ DOMAIN epochRdeps = 1..MaxEpoch

\* While a cell is executed its epoch is running, and the orchestrator, if it
\* is called, has the text of that cell.
CallOfCell ==
  /\ running # 0 => \E c \in Created : cellEpoch[c] = running
  /\ phase # "idle" =>
       /\ running # 0 /\ exec.id \in Created
       /\ cellEpoch[exec.id] = running /\ exec.unit = cells[exec.id].text

\* A cell has an epoch of its own, which lists it.
EpochOfCell ==
  /\ \A c \in Cell : c \notin Created => cellEpoch[c] = 0
  /\ \A c \in Created : /\ cells[c].epoch = cellEpoch[c] /\ cellEpoch[c] # 0
                        /\ c \in epochs[cellEpoch[c]].cells
  /\ \A b, c \in Created : cellEpoch[b] = cellEpoch[c] => b = c

\* A cell that is shown as valid and not being executed is backed by its epoch.
Backed ==
  \A c \in Created :
    cells[c].valid /\ cellEpoch[c] # running =>
      epochs[cellEpoch[c]].valid /\ epochs[cellEpoch[c]].defined = cells[c].text.defined

CellInv == CellTypeOK /\ CallOfCell /\ EpochOfCell /\ Backed

------------------------------------------------------------------------------
(* The cells *)

\* A notebook that has just been made, or cleared.
EmptyNotebook ==
  /\ cells = [c \in Cell |-> NoCell] /\ counter = 0 /\ running = 0 /\ phase = "idle"
  /\ epochs = [e \in 1..MaxEpoch |-> Epoch!Blank] /\ cellEpoch = [c \in Cell |-> 0]
  /\ stale \in 0..MaxEpoch /\ epochRdeps = [e \in 1..MaxEpoch |-> {}]

\* A notebook without cells has nothing to back.
LEMMA EmptyCellInv == EmptyNotebook => CellInv
<1> SUFFICES ASSUME EmptyNotebook PROVE CellInv
  OBVIOUS
<1> USE DEF EmptyNotebook
<1>1. NoCell \in CellRecord /\ ~NoCell.created
  BY DEF NoCell, CellRecord
<1>2. Created = {}
  BY <1>1 DEF Created
<1>3. Epoch!Blank \in EpochRecord
  BY DEF Epoch!Blank, EpochRecord
<1>4. CellTypeOK
  BY <1>1, <1>2, <1>3, EpochsBounded DEF CellTypeOK
<1> QED BY <1>2, <1>4 DEF CellInv, CallOfCell, EpochOfCell, Backed

\* A cell, new or not, gets a new epoch, which is running.
LEMMA OpenEpochCellInv ==
  ASSUME CellInv, NEW c \in Cell, NEW r \in CellRecord, Epoch!CreateEpoch(c),
         phase = "idle", phase' = phase, cells' = [cells EXCEPT ![c] = r],
         r.created, r.text \in Units, r.epoch = counter + 1
  PROVE  CellInv'
<1>1. counter \in Nat /\ counter < MaxEpoch /\ running = 0
  BY EpochsBounded DEF Epoch!CreateEpoch, Epoch!NoEpoch, CellInv, CellTypeOK
<1>2. PICK n \in 1..MaxEpoch : n = counter + 1
  BY <1>1, EpochsBounded
<1> DEFINE new == [valid |-> TRUE, cells |-> {c}, defined |-> {}]
<1>3. /\ counter' = n /\ running' = n
      /\ epochs' = [epochs EXCEPT ![n] = new] /\ cellEpoch' = [cellEpoch EXCEPT ![c] = n]
      /\ stale' = cellEpoch[c] /\ epochRdeps' = epochRdeps
  BY <1>2 DEF Epoch!CreateEpoch, Epoch!AssignEpoch
<1>4. new \in EpochRecord /\ new.cells = {c}
  BY DEF EpochRecord
<1> HIDE DEF new
<1>5. /\ \A b \in Cell : /\ cells'[b] = IF b = c THEN r ELSE cells[b]
                         /\ cellEpoch'[b] = IF b = c THEN n ELSE cellEpoch[b]
                         /\ cellEpoch[b] # n /\ cellEpoch[b] \in 0..MaxEpoch
      /\ \A e \in 1..MaxEpoch : epochs'[e] = IF e = n THEN new ELSE epochs[e]
  BY <1>2, <1>3, EpochsBounded DEF CellInv, CellTypeOK
<1>6. Created' = Created \cup {c}
  BY <1>5 DEF Created
<1>7. CellTypeOK'
  <2>1. cells' \in [Cell -> CellRecord] /\ \A b \in Created' : cells'[b].text \in Units
    BY <1>5, <1>6 DEF CellInv, CellTypeOK, Created
  <2>2. epochs' \in [1..MaxEpoch -> EpochRecord]
    BY <1>3, <1>4 DEF CellInv, CellTypeOK
  <2>3. cellEpoch' \in [Cell -> 0..MaxEpoch] /\ \A b \in Cell : cellEpoch'[b] <= n
    BY <1>1, <1>2, <1>3, <1>5 DEF CellInv, CellTypeOK
  <2>4. stale' \in 0..MaxEpoch /\ DOMAIN epochRdeps' = 1..MaxEpoch
    BY <1>3, <1>5 DEF CellInv, CellTypeOK
  <2> QED BY <1>2, <1>3, <2>1, <2>2, <2>3, <2>4 DEF CellTypeOK
<1>8. CallOfCell'
  BY <1>3, <1>5, <1>6 DEF CallOfCell
<1>9. EpochOfCell'
  <2>1. \A b \in Created : b \in Cell /\ cellEpoch[b] \in 1..MaxEpoch
    BY <1>5 DEF CellInv, EpochOfCell, Created
  <2>2. \A b \in Cell : b \notin Created' => cellEpoch'[b] = 0
    BY <1>5, <1>6 DEF CellInv, EpochOfCell
  <2>3. \A b \in Created' : /\ cells'[b].epoch = cellEpoch'[b] /\ cellEpoch'[b] # 0
                            /\ b \in epochs'[cellEpoch'[b]].cells
    BY <1>2, <1>4, <1>5, <1>6, <2>1 DEF CellInv, EpochOfCell
  <2>4. \A a, b \in Created' : cellEpoch'[a] = cellEpoch'[b] => a = b
    BY <1>5, <1>6, <2>1 DEF CellInv, EpochOfCell
  <2> QED BY <2>2, <2>3, <2>4 DEF EpochOfCell
<1>10. Backed'
  <2> SUFFICES ASSUME NEW b \in Created', cells'[b].valid, cellEpoch'[b] # n
               PROVE  /\ epochs'[cellEpoch'[b]].valid
                      /\ epochs'[cellEpoch'[b]].defined = cells'[b].text.defined
    BY <1>3 DEF Backed
  <2>1. b \in Created /\ b # c /\ b \in Cell
    BY <1>5, <1>6 DEF Created
  <2>2. cellEpoch[b] \in 1..MaxEpoch /\ cellEpoch[b] # running
    BY <1>1, <1>5, <2>1 DEF CellInv, EpochOfCell
  <2> QED BY <1>5, <2>1, <2>2 DEF CellInv, Backed
<1> QED BY <1>7, <1>8, <1>9, <1>10 DEF CellInv

\* A text in a new cell.
LEMMA NewCellCellInv ==
  ASSUME CellInv, NEW c \in Cell, NEW u \in Units, NewCell(c, u)
  PROVE  CellInv'
<1> DEFINE r == [created |-> TRUE, text |-> u, epoch |-> counter', valid |-> TRUE]
<1>1. counter' = counter + 1 /\ counter' \in Nat
  BY EpochsBounded DEF NewCell, Epoch!CreateEpoch, CellInv, CellTypeOK
<1>2. r \in CellRecord /\ r.created /\ r.text \in Units /\ r.epoch = counter + 1
  BY <1>1 DEF CellRecord
<1>3. /\ Epoch!CreateEpoch(c) /\ phase = "idle" /\ phase' = phase
      /\ cells' = [cells EXCEPT ![c] = r]
  BY DEF NewCell, vars, callVars
<1> HIDE DEF r
<1> QED BY <1>2, <1>3, OpenEpochCellInv

\* The text of a cell that exists, executed again.
LEMMA RunCellCellInv ==
  ASSUME CellInv, NEW c \in Cell, RunCell(c)
  PROVE  CellInv'
<1> DEFINE r == [cells[c] EXCEPT !.epoch = counter', !.valid = TRUE]
<1>1. counter' = counter + 1 /\ counter' \in Nat /\ c \in Created
  BY EpochsBounded DEF RunCell, Epoch!CreateEpoch, CellInv, CellTypeOK
<1>2. cells[c] \in CellRecord /\ cells[c].created /\ cells[c].text \in Units
  BY <1>1 DEF CellInv, CellTypeOK, Created
<1>3. r \in CellRecord /\ r.created /\ r.text \in Units /\ r.epoch = counter + 1
  BY <1>1, <1>2 DEF CellRecord
<1>4. Epoch!CreateEpoch(c) /\ phase = "idle" /\ phase' = phase
  BY DEF RunCell, vars, callVars
<1>5. cells' = [cells EXCEPT ![c] = r]
  BY <1>2 DEF RunCell, CellInv, CellTypeOK, CellRecord
<1> HIDE DEF r
<1> QED BY <1>3, <1>4, <1>5, OpenEpochCellInv

\* The old epoch goes with all that depend on it, and so do the flags of all
\* cells that these epochs list.
LEMMA InvalidateOldCellInv ==
  ASSUME CellInv, InvalidateOldEpoch
  PROVE  CellInv'
<1> DEFINE A == Epoch!Affected(stale)
<1>1. /\ UNCHANGED <<counter, cellEpoch, running, phase, exec, epochRdeps>> /\ stale' = 0
      /\ epochs' = [x \in 1..MaxEpoch |->
                      IF x \in Epoch!Falling(stale) THEN [epochs[x] EXCEPT !.valid = FALSE]
                      ELSE epochs[x]]
      /\ cells' = [c \in Cell |-> IF c \in FlaggedCells THEN [cells[c] EXCEPT !.valid = FALSE]
                                  ELSE cells[c]]
  BY DEF InvalidateOldEpoch, Epoch!InvalidateOld, Epoch!EpochId, Epoch!NoEpoch, callVars
<1>2. Epoch!Falling(stale) \subseteq A
  BY DEF Epoch!Falling
<1>3. \A c \in Cell, e \in A : c \in epochs[e].cells => c \in FlaggedCells
  BY DEF FlaggedCells
<1> HIDE DEF A
<1>4. \A c \in Cell : cells[c] \in CellRecord
  BY DEF CellInv, CellTypeOK
<1>5. \A c \in Cell : /\ cells'[c] \in CellRecord
                      /\ cells'[c].created = cells[c].created /\ cells'[c].text = cells[c].text
                      /\ cells'[c].epoch = cells[c].epoch
                      /\ cells'[c].valid => cells[c].valid /\ c \notin FlaggedCells
  BY <1>1, <1>4 DEF CellRecord
<1>6. \A e \in 1..MaxEpoch : epochs[e] \in EpochRecord
  BY DEF CellInv, CellTypeOK
<1>7. \A e \in 1..MaxEpoch : /\ epochs'[e] \in EpochRecord
                             /\ epochs'[e].cells = epochs[e].cells
                             /\ epochs'[e].defined = epochs[e].defined
                             /\ e \notin A => epochs'[e] = epochs[e]
  BY <1>1, <1>2, <1>6 DEF EpochRecord
<1>8. Created' = Created
  BY <1>5 DEF Created
<1>9. CellTypeOK'
  <2>1. cells' \in [Cell -> CellRecord] /\ epochs' \in [1..MaxEpoch -> EpochRecord]
    BY <1>1, <1>5, <1>7
  <2>2. \A c \in Created' : cells'[c].text \in Units
    BY <1>5, <1>8 DEF CellInv, CellTypeOK, Created
  <2> QED BY <1>1, <2>1, <2>2, EpochsBounded DEF CellInv, CellTypeOK
<1>10. CallOfCell'
  BY <1>1, <1>5, <1>8 DEF CellInv, CallOfCell, Created
<1>11. \A c \in Created : c \in Cell /\ cellEpoch[c] \in 1..MaxEpoch
  BY DEF CellInv, CellTypeOK, EpochOfCell, Created
<1>12. EpochOfCell'
  BY <1>1, <1>5, <1>7, <1>8, <1>11 DEF CellInv, EpochOfCell
<1>13. Backed'
  <2> SUFFICES ASSUME NEW c \in Created, cells'[c].valid, cellEpoch[c] # running
               PROVE  /\ epochs'[cellEpoch[c]].valid
                      /\ epochs'[cellEpoch[c]].defined = cells'[c].text.defined
    BY <1>1, <1>8 DEF Backed
  <2>1. cells[c].valid /\ c \notin FlaggedCells
    BY <1>5, <1>11
  <2>2. cellEpoch[c] \notin A
    BY <1>3, <1>11, <2>1 DEF CellInv, EpochOfCell
  <2> QED BY <1>5, <1>7, <1>11, <2>1, <2>2 DEF CellInv, Backed
<1> QED BY <1>9, <1>10, <1>12, <1>13 DEF CellInv

\* The cell whose epoch is running is handed to the orchestrator.
LEMMA ExecuteTextCell ==
  ASSUME CellInv, ExecuteText
  PROVE  /\ Current \in Created /\ cellEpoch[Current] = running /\ running # 0
         /\ Submit(Current, cells[Current].text)
         /\ UNCHANGED <<cells, epochVars>>
<1>1. PICK c \in Created : cellEpoch[c] = running /\ running # 0
  BY DEF ExecuteText, CellInv, CallOfCell
<1>2. c \in Cell
  BY <1>1 DEF Created
<1>3. Current \in Cell /\ cellEpoch[Current] = running
  BY <1>1, <1>2 DEF Current
<1>4. Current \in Created
  BY <1>1, <1>3 DEF CellInv, EpochOfCell
<1> QED BY <1>1, <1>3, <1>4 DEF ExecuteText

\* Handing the text over changes no cell and no epoch.
LEMMA ExecuteTextCellInv ==
  ASSUME CellInv, ExecuteText
  PROVE  CellInv'
<1>1. /\ Current \in Created /\ cellEpoch[Current] = running /\ running # 0
      /\ phase' = "analyze" /\ exec' = [id |-> Current, unit |-> cells[Current].text]
      /\ UNCHANGED <<cells, counter, epochs, cellEpoch, running, stale, epochRdeps>>
  BY ExecuteTextCell DEF Submit, epochVars
<1>2. CellTypeOK' /\ EpochOfCell' /\ Backed'
  BY <1>1 DEF CellInv, CellTypeOK, EpochOfCell, Backed, Created
<1>3. CallOfCell'
  BY <1>1 DEF CallOfCell, Created
<1> QED BY <1>2, <1>3 DEF CellInv

\* What the orchestrator does changes no cell and no epoch.
LEMMA ExecuteCellInv ==
  ASSUME CellInv, Execute
  PROVE  CellInv'
<1>1. /\ phase # "idle" /\ UNCHANGED <<exec, cells, counter, epochs, cellEpoch, running, stale, epochRdeps>>
  BY StepIsInCall DEF Execute, epochVars
<1>2. CellTypeOK' /\ EpochOfCell' /\ Backed'
  BY <1>1 DEF CellInv, CellTypeOK, EpochOfCell, Backed, Created
<1>3. CallOfCell'
  BY <1>1 DEF CellInv, CallOfCell, Created
<1> QED BY <1>2, <1>3 DEF CellInv

\* The epoch gets the interface of the text that was executed.
LEMMA CellSucceedsCellInv ==
  ASSUME CellInv, CellSucceeds
  PROVE  CellInv'
<1> DEFINE x == exec.id
           new == [valid |-> TRUE, cells |-> epochs[running].cells \cup {x},
                   defined |-> exec.unit.defined]
<1>1. /\ phase' = "idle" /\ UNCHANGED <<cells, counter, cellEpoch>> /\ running' = 0
      /\ running # 0 /\ x \in Created /\ cellEpoch[x] = running
      /\ exec.unit = cells[x].text
      /\ epochs' = [epochs EXCEPT ![running] = new]
      /\ stale' = stale /\ DOMAIN epochRdeps' = DOMAIN epochRdeps
  BY DEF CellSucceeds, TakeResult, Epoch!CommitEpoch, Epoch!SetRdeps, Epoch!NoEpoch, CellInv, CallOfCell
<1>2. running \in 1..MaxEpoch /\ epochs[running] \in EpochRecord
  BY <1>1 DEF CellInv, CellTypeOK
<1>3. x \in Cell /\ exec.unit \in Units
  BY <1>1 DEF CellInv, CellTypeOK, Created
<1>4. /\ new \in EpochRecord /\ new.valid /\ new.defined = cells[x].text.defined
      /\ epochs[running].cells \subseteq new.cells
  BY <1>1, <1>2, <1>3, UnitsAreInterfaces DEF EpochRecord
<1> HIDE DEF new
<1>5. \A e \in 1..MaxEpoch : epochs'[e] = IF e = running THEN new ELSE epochs[e]
  BY <1>1, <1>2 DEF CellInv, CellTypeOK
<1>6. CellTypeOK'
  <2>1. epochs' \in [1..MaxEpoch -> EpochRecord]
    BY <1>1, <1>4 DEF CellInv, CellTypeOK
  <2> QED BY <1>1, <2>1 DEF CellInv, CellTypeOK, Created
<1>7. CallOfCell'
  BY <1>1 DEF CallOfCell
<1>8. \A c \in Created : cellEpoch[c] \in 1..MaxEpoch
  BY DEF CellInv, CellTypeOK, EpochOfCell, Created
<1>9. EpochOfCell'
  BY <1>1, <1>4, <1>5, <1>8 DEF CellInv, EpochOfCell, Created
<1>10. Backed'
  <2> SUFFICES ASSUME NEW c \in Created, cells[c].valid
               PROVE  /\ epochs'[cellEpoch[c]].valid
                      /\ epochs'[cellEpoch[c]].defined = cells[c].text.defined
    BY <1>1 DEF Backed, Created
  <2>1. CASE c = x
    BY <1>1, <1>2, <1>4, <1>5, <2>1
  <2>2. CASE c # x
    <3>1. cellEpoch[c] # running
      BY <1>1, <2>2 DEF CellInv, EpochOfCell
    <3> QED BY <1>5, <1>8, <3>1 DEF CellInv, Backed
  <2> QED BY <2>1, <2>2
<1> QED BY <1>6, <1>7, <1>9, <1>10 DEF CellInv

\* The cell is flagged, and its epoch stays without an interface.
LEMMA CellFailsCellInv ==
  ASSUME CellInv, CellFails
  PROVE  CellInv'
<1> DEFINE x == exec.id
<1>1. /\ phase' = "idle" /\ UNCHANGED <<counter, epochs, cellEpoch, stale, epochRdeps>> /\ running' = 0
      /\ running # 0 /\ x \in Created /\ cellEpoch[x] = running
      /\ cells' = [cells EXCEPT ![x].valid = FALSE]
  BY DEF CellFails, TakeResult, Epoch!AbandonEpoch, Epoch!NoEpoch, CellInv, CallOfCell
<1>2. \A c \in Cell : cells[c] \in CellRecord
  BY DEF CellInv, CellTypeOK
<1>3. \A c \in Cell : /\ cells'[c] \in CellRecord
                      /\ cells'[c].created = cells[c].created /\ cells'[c].text = cells[c].text
                      /\ cells'[c].epoch = cells[c].epoch
                      /\ cells'[c].valid => cells[c].valid /\ c # x
  <2>1. \A c \in Cell : cells'[c] = IF c = x THEN [cells[c] EXCEPT !.valid = FALSE] ELSE cells[c]
    BY <1>1 DEF CellInv, CellTypeOK
  <2> QED BY <1>2, <2>1 DEF CellRecord
<1>4. Created' = Created
  BY <1>3 DEF Created
<1>5. CellTypeOK'
  <2>1. cells' \in [Cell -> CellRecord]
    BY <1>1, <1>3 DEF CellInv, CellTypeOK
  <2>2. \A c \in Created' : cells'[c].text \in Units
    BY <1>3, <1>4 DEF CellInv, CellTypeOK, Created
  <2> QED BY <1>1, <2>1, <2>2 DEF CellInv, CellTypeOK
<1>6. CallOfCell'
  BY <1>1 DEF CallOfCell
<1>7. EpochOfCell'
  BY <1>1, <1>3, <1>4 DEF CellInv, EpochOfCell, Created
<1>8. Backed'
  <2> SUFFICES ASSUME NEW c \in Created, cells'[c].valid
               PROVE  /\ epochs[cellEpoch[c]].valid
                      /\ epochs[cellEpoch[c]].defined = cells'[c].text.defined
    BY <1>1, <1>4 DEF Backed
  <2>1. c # x /\ cells[c].valid /\ cells'[c].text = cells[c].text
    BY <1>3 DEF Created
  <2>2. cellEpoch[c] # running
    BY <1>1, <2>1 DEF CellInv, EpochOfCell
  <2> QED BY <2>1, <2>2 DEF CellInv, Backed
<1> QED BY <1>5, <1>6, <1>7, <1>8 DEF CellInv

\* Every step of the notebook keeps the invariant.
LEMMA NextCellInv == CellInv /\ [NotebookNext]_notebookVars => CellInv'
<1> SUFFICES ASSUME CellInv, [NotebookNext]_notebookVars PROVE CellInv'
  OBVIOUS
<1>1. ASSUME NEW c \in Cell, NEW u \in Units, NewCell(c, u) PROVE CellInv'
  BY <1>1, NewCellCellInv
<1>2. ASSUME NEW c \in Cell, RunCell(c) PROVE CellInv'
  BY <1>2, RunCellCellInv
<1>3. CASE InvalidateOldEpoch
  BY <1>3, InvalidateOldCellInv
<1>4. CASE ExecuteText
  BY <1>4, ExecuteTextCellInv
<1>5. CASE Execute
  BY <1>5, ExecuteCellInv
<1>6. CASE CellSucceeds
  BY <1>6, CellSucceedsCellInv
<1>7. CASE CellFails
  BY <1>7, CellFailsCellInv
<1>8. CASE ResetSession
  <2>1. EmptyNotebook'
    BY <1>8 DEF EmptyNotebook, ResetSession, ResetEngine, callVars, Epoch!Reset, Epoch!EpochId, Epoch!NoEpoch,
                Epoch!NoEdges, CellInv, CellTypeOK
  <2> QED BY <2>1, EmptyCellInv, PTL
<1>9. CASE UNCHANGED notebookVars
  BY <1>9 DEF notebookVars, vars, callVars, epochVars, CellInv, CellTypeOK, CallOfCell,
              EpochOfCell, Backed, Created
<1> QED BY <1>1, <1>2, <1>3, <1>4, <1>5, <1>6, <1>7, <1>8, <1>9 DEF NotebookNext

------------------------------------------------------------------------------
(* The modules in the JIT *)

\* Every step of the notebook keeps the invariant of the orchestrator.
LEMMA NextLoadInv == LoadInv /\ CellInv /\ [NotebookNext]_notebookVars => LoadInv'
<1> SUFFICES ASSUME LoadInv, CellInv, [NotebookNext]_notebookVars PROVE LoadInv'
  OBVIOUS
<1>1. CASE \E c \in Cell : RunCell(c) \/ \E u \in Units : NewCell(c, u)
  <2>1. UNCHANGED vars
    BY <1>1 DEF RunCell, NewCell
  <2> QED BY <2>1, SameLoadInv DEF vars
<1>2. CASE InvalidateOldEpoch
  BY <1>2, SameLoadInv DEF InvalidateOldEpoch
<1>3. CASE ExecuteText
  <2>1. Current \in Created /\ Submit(Current, cells[Current].text)
    BY <1>3, ExecuteTextCell
  <2>2. Current \in Fragment /\ cells[Current].text \in Units
    BY <2>1 DEF CellInv, CellTypeOK, Created, Cell
  <2> QED BY <2>1, <2>2, SubmitLoadInv
<1>4. CASE Execute
  BY <1>4, StepIsInCall, StepLoadInv DEF Execute
<1>5. CASE CellSucceeds \/ CellFails
  BY <1>5, TakeResultLoadInv DEF CellSucceeds, CellFails
<1>6. CASE ResetSession
  BY <1>6, ResetEngineLoadInv DEF ResetSession
<1>7. CASE UNCHANGED notebookVars
  BY <1>7, SameLoadInv DEF notebookVars, vars
<1> QED BY <1>1, <1>2, <1>3, <1>4, <1>5, <1>6, <1>7 DEF NotebookNext

\* The cells and the modules in the JIT, together.
LEMMA NotebookInvariant == NotebookSpec => [](CellInv /\ LoadInv)
<1>1. NotebookInit => CellInv
  BY EmptyCellInv, EpochsBounded DEF EmptyNotebook, NotebookInit, Init, Epoch!Init, Epoch!EpochId,
     Epoch!NoEpoch, Epoch!NoEdges
<1>2. NotebookInit => LoadInv
  BY NewEngineLoadInv DEF NotebookInit, Init, Ir!Init
<1> QED BY <1>1, <1>2, NextCellInv, NextLoadInv, PTL DEF NotebookSpec

\* Unless a removal has failed, between two calls of the orchestrator the JIT
\* holds one module for every tracker, and the fragments that have one are
\* active, in whatever phase earlier calls failed (InteractiveOrchestrator).
THEOREM NotebookModulesTracked == NotebookSpec => []LoadedModulesTracked
<1>1. LoadInv => LoadedModulesTracked
  BY DEF LoadInv, LoadTypeOK, Tracked, ActiveOrDoomed, LoadedModulesTracked, Ir!IsActive
<1> QED BY <1>1, NotebookInvariant, PTL

------------------------------------------------------------------------------
(* The session *)

SymbolInv == SessionP!IInv

\* The assumption of SessionManager holds of the constants of the notebook.
LEMMA SessionAssumptions == SessionP!VersionBound
BY VersionsBounded DEF SessionP!VersionBound

\* The two instances of the session have the same steps.
LEMMA SameSession ==
  /\ Session!Init <=> SessionP!Init
  /\ \A s : Session!Has(s) <=> SessionP!Has(s)
  /\ \A s : Session!IsValid(s) <=> SessionP!IsValid(s)
  /\ \A D, U : Session!BeginUnit(D, U) <=> SessionP!BeginUnit(D, U)
  /\ \A d : Session!CommitSymbol(d) <=> SessionP!CommitSymbol(d)
  /\ \A S : Session!InvalidateSymbols(S) <=> SessionP!InvalidateSymbols(S)
  /\ Session!Reset <=> SessionP!Reset
<1> USE DEF Session!NoEdges, SessionP!NoEdges, Session!Absent, SessionP!Absent,
            Session!NoUnit, SessionP!NoUnit
<1>1. Session!Init <=> SessionP!Init
  BY DEF Session!Init, SessionP!Init
<1>2. \A s : Session!Has(s) <=> SessionP!Has(s)
  BY DEF Session!Has, SessionP!Has
<1>3. \A s : Session!IsValid(s) <=> SessionP!IsValid(s)
  BY DEF Session!IsValid, SessionP!IsValid
<1>4. \A D, U : Session!BeginUnit(D, U) <=> SessionP!BeginUnit(D, U)
  BY DEF Session!BeginUnit, SessionP!BeginUnit, Session!tableVars, SessionP!tableVars
<1>5. \A d : Session!StaleWith(d) = SessionP!StaleWith(d)
  BY DEF Session!StaleWith, SessionP!StaleWith, Session!Dependents, SessionP!Dependents,
         Session!ClosedSets, SessionP!ClosedSets
<1>6. \A tab, S : Session!Invalidated(tab, S) = SessionP!Invalidated(tab, S)
  BY DEF Session!Invalidated, SessionP!Invalidated
<1>7. \A d : Session!Record(d) <=> SessionP!Record(d)
  BY DEF Session!Record, SessionP!Record, Session!SetDeps, SessionP!SetDeps,
         Session!SetRdeps, SessionP!SetRdeps, Session!Snapshot, SessionP!Snapshot
<1>8. \A d : Session!LoopStep(d) <=> SessionP!LoopStep(d)
  BY DEF Session!LoopStep, SessionP!LoopStep
<1>9. \A d : Session!AddSymbol(d) <=> SessionP!AddSymbol(d)
  BY <1>2, <1>7, <1>8 DEF Session!AddSymbol, SessionP!AddSymbol
<1>10. \A d : Session!RedefineSymbol(d) <=> SessionP!RedefineSymbol(d)
  BY <1>2, <1>5, <1>6, <1>7, <1>8
  DEF Session!RedefineSymbol, SessionP!RedefineSymbol, Session!VersionAfter, SessionP!VersionAfter
<1>11. \A d : Session!CommitSymbol(d) <=> SessionP!CommitSymbol(d)
  BY <1>9, <1>10 DEF Session!CommitSymbol, SessionP!CommitSymbol
<1>12. \A S : Session!InvalidateSymbols(S) <=> SessionP!InvalidateSymbols(S)
  BY <1>5, <1>6 DEF Session!InvalidateSymbols, SessionP!InvalidateSymbols
<1>13. Session!Reset <=> SessionP!Reset
  BY DEF Session!Reset, SessionP!Reset
<1> QED BY <1>1, <1>2, <1>3, <1>4, <1>11, <1>12, <1>13

\* Committing, and invalidating, takes no name out of the table.
LEMMA CommitKeepsNames ==
  ASSUME SessionP!IInv, NEW d \in Symbol, Session!CommitSymbol(d)
  PROVE  /\ d \in pending /\ pending' = pending \ {d}
         /\ Session!Has(d)'
         /\ \A s \in Symbol : Session!Has(s) => Session!Has(s)'
<1>1. \A s \in Symbol : symtab[s] \in SessionP!Entry
  BY DEF SessionP!IInv, SessionP!TypeOK
<1>2. symtab \in [Symbol -> SessionP!Entry]
  BY DEF SessionP!IInv, SessionP!TypeOK
<1>3. d \in pending /\ pending' = pending \ {d}
  BY DEF Session!CommitSymbol, Session!AddSymbol, Session!RedefineSymbol, Session!LoopStep
<1>4. CASE Session!AddSymbol(d)
  <2>1. symtab' = [symtab EXCEPT ![d] = [valid |-> TRUE, version |-> 1]]
    BY <1>4 DEF Session!AddSymbol
  <2> QED BY <1>2, <1>3, <2>1 DEF Session!Has
<1>5. CASE Session!RedefineSymbol(d)
  <2> DEFINE tab == Session!Invalidated(symtab, Session!StaleWith(d))
  <2>1. symtab' = [tab EXCEPT ![d] = [valid |-> TRUE, version |-> symtab[d].version + 1]]
    BY <1>5 DEF Session!RedefineSymbol, Session!VersionAfter
  <2>2. symtab[d].version \in Nat
    BY <1>1, VersionsBounded DEF SessionP!Entry
  <2>3. \A s \in Symbol : tab[s].version = symtab[s].version
    BY <1>1 DEF Session!Invalidated, SessionP!Entry
  <2>4. DOMAIN tab = Symbol
    BY DEF Session!Invalidated
  <2> HIDE DEF tab
  <2>5. \A s \in Symbol : symtab'[s] = IF s = d THEN [valid |-> TRUE, version |-> symtab[d].version + 1]
                                       ELSE tab[s]
    BY <2>1, <2>4
  <2>6. symtab'[d].version > 0
    BY <2>2, <2>5
  <2>7. \A s \in Symbol : s # d => symtab'[s].version = symtab[s].version
    BY <2>3, <2>5
  <2> QED BY <1>3, <2>6, <2>7 DEF Session!Has
<1> QED BY <1>4, <1>5 DEF Session!CommitSymbol

\* A step that leaves the session alone.
LEMMA SameSymbolInv ==
  ASSUME SymbolInv, UNCHANGED sessionVars
  PROVE  SymbolInv'
<1>1. UNCHANGED SessionP!vars
  BY DEF sessionVars, SessionP!vars
<1> QED BY <1>1, SessionAssumptions, SessionP!NextIInv DEF SymbolInv

\* What the analyzer lets through is what a unit of the session may use.
LEMMA CheckedAreAccepted ==
  ASSUME CheckSucceeds, exec.unit \in Units
  PROVE  exec.unit.used \in SUBSET {u \in Symbol : Session!Accepted(u)}
BY UnitsAreInterfaces DEF CheckSucceeds, UsesInvalidated, Session!Accepted

\* The names that a unit uses and defines are symbols of the session.
LEMMA CheckSucceedsSymbolInv ==
  ASSUME SymbolInv, CheckSucceeds, exec.unit \in Units
  PROVE  SymbolInv'
<1> DEFINE D == exec.unit.defined
           U == exec.unit.used
<1>1. D \in SUBSET Symbol /\ U \in SUBSET Symbol
  BY UnitsAreInterfaces
<1>2. CASE D = {}
  BY <1>2, SameSymbolInv DEF CheckSucceeds
<1>3. CASE D # {}
  <2>1. Session!BeginUnit(D, U)
    BY <1>3 DEF CheckSucceeds
  <2> HIDE DEF D, U
  <2> QED BY <1>1, <2>1, SameSession, SessionAssumptions, SessionP!BeginPreservesIInv DEF SymbolInv
<1> QED BY <1>2, <1>3

\* One symbol of the unit is committed.
LEMMA CommitSymbolSymbolInv ==
  ASSUME SymbolInv, NEW d \in Symbol, CommitSymbol(d)
  PROVE  SymbolInv'
<1>1. Session!CommitSymbol(d)
  BY DEF CommitSymbol
<1>2. SessionP!Next
  BY <1>1, SameSession DEF SessionP!Next
<1> QED BY <1>2, SessionAssumptions, SessionP!NextIInv DEF SymbolInv

\* The symbols of the epochs that fall are names of the session.
LEMMA WithdrawnAreSymbols ==
  ASSUME CellInv, InvalidateOldEpoch
  PROVE  Epoch!Withdrawn(stale) \in SUBSET Symbol
<1>1. stale \in 1..MaxEpoch /\ DOMAIN epochRdeps = 1..MaxEpoch
  BY DEF InvalidateOldEpoch, Epoch!InvalidateOld, Epoch!NoEpoch, CellInv, CellTypeOK
<1>2. Epoch!Falling(stale) \subseteq 1..MaxEpoch
  BY <1>1 DEF Epoch!Falling, Epoch!Affected, Epoch!Dependents
<1> QED BY <1>2 DEF Epoch!Withdrawn, CellInv, CellTypeOK, EpochRecord

\* So the session can be told of them.
LEMMA InvalidateOldSymbolInv ==
  ASSUME SymbolInv, CellInv, InvalidateOldEpoch
  PROVE  SymbolInv'
<1> DEFINE S == Epoch!Withdrawn(stale)
<1>1. Session!InvalidateSymbols(S)
  BY DEF InvalidateOldEpoch
<1>2. S \in SUBSET Symbol
  BY WithdrawnAreSymbols
<1> HIDE DEF S
<1> QED BY <1>1, <1>2, SameSession, SessionAssumptions, SessionP!InvalidatePreservesIInv DEF SymbolInv

\* A new engine has an empty table.
LEMMA ResetSymbolInv ==
  ASSUME SymbolInv, Session!Reset
  PROVE  SymbolInv'
BY SameSession, SessionAssumptions, SessionP!ResetPreservesIInv DEF SymbolInv

\* A step of a call keeps the invariant of the session.
LEMMA StepSymbolInv ==
  ASSUME SymbolInv, LoadInv, Step, phase # "idle"
  PROVE  SymbolInv'
<1>1. CASE CheckSucceeds
  <2>1. exec.unit \in Units
    BY <1>1 DEF LoadInv, LoadTypeOK
  <2> QED BY <1>1, <2>1, CheckSucceedsSymbolInv
<1>2. ASSUME NEW d \in Symbol, CommitSymbol(d) PROVE SymbolInv'
  BY <1>2, CommitSymbolSymbolInv
<1>3. CASE ~CheckSucceeds /\ ~\E d \in Symbol : CommitSymbol(d)
  <2>1. UNCHANGED sessionVars
    BY <1>3 DEF Step, SyntaxError, EndProcess, RejectInvalidated, CheckFails, Unload, RemoveModule,
                RemoveFails, BuildFails, BuildThrows, Build, AddModule, AddFails, Run
  <2> QED BY <2>1, SameSymbolInv
<1> QED BY <1>1, <1>2, <1>3

\* Every step of the notebook keeps the invariant of the session.
LEMMA NextSymbolInv ==
  SymbolInv /\ CellInv /\ LoadInv /\ [NotebookNext]_notebookVars => SymbolInv'
<1> SUFFICES ASSUME SymbolInv, CellInv, LoadInv, [NotebookNext]_notebookVars PROVE SymbolInv'
  OBVIOUS
<1>1. CASE Execute
  BY <1>1, StepIsInCall, StepSymbolInv DEF Execute
<1>2. CASE \/ \E c \in Cell : RunCell(c) \/ \E u \in Units : NewCell(c, u)
           \/ ExecuteText \/ CellSucceeds \/ CellFails \/ UNCHANGED notebookVars
  <2>1. UNCHANGED sessionVars
    BY <1>2 DEF RunCell, NewCell, ExecuteText, Submit, CellSucceeds, CellFails, TakeResult,
                notebookVars, vars
  <2> QED BY <2>1, SameSymbolInv
<1>3. CASE InvalidateOldEpoch
  BY <1>3, InvalidateOldSymbolInv
<1>4. CASE ResetSession
  BY <1>4, ResetSymbolInv DEF ResetSession, ResetEngine
<1> QED BY <1>1, <1>2, <1>3, <1>4 DEF NotebookNext

\* The session, in every run of the notebook.
LEMMA SymbolInvariant == NotebookSpec => []SymbolInv
<1>1. NotebookInit => SymbolInv
  BY SameSession, SessionAssumptions, SessionP!InitIInv DEF NotebookInit, Init, SymbolInv
<1> QED BY <1>1, NextSymbolInv, NotebookInvariant, PTL DEF NotebookSpec

\* In a notebook too, only the first definition of a name passes its dependents
\* by: a symbol that is reported valid was computed from the current definitions,
\* or without one that has been defined once since, although the checker's scope
\* has a say in what a cell may use (IncrementalSemanticAnalyzer) and the epoch
\* system withdraws symbols on its own account (Notebook::execute_cell).
THEOREM NotebookSymbolsFreshAfterFirst == NotebookSpec => []SymbolsFreshAfterFirst
<1>1. SymbolInv => SymbolsFreshAfterFirst
  BY SameSession
  DEF SymbolInv, SessionP!IInv, SessionP!FreshAfterFirst, SymbolsFreshAfterFirst,
      Session!FreshAfterFirst
<1> QED BY <1>1, SymbolInvariant, PTL

------------------------------------------------------------------------------
(* The notebook runs its three managers as they specify *)

EpochP == INSTANCE EpochManagerProofs WITH deps <- epochDeps, rdeps <- epochRdeps

IrP == INSTANCE IrIncrementalBuilderProofs WITH
         producer <- fragProducer, deps <- fragDeps, rdeps <- fragRdeps

\* The assumptions of the managers hold of the constants of the notebook.
LEMMA ManagerAssumptions == EpochP!EpochBound /\ IrP!NoFragmentIsNone
BY EpochsBounded, NoFragmentIsNoUnit DEF EpochP!EpochBound, IrP!NoFragmentIsNone

\* The two instances of the epoch system have the same steps.
LEMMA SameEpochs ==
  /\ Epoch!Init <=> EpochP!Init
  /\ \A e : Epoch!Affected(e) = EpochP!Affected(e)
  /\ \A e : Epoch!Falling(e) = EpochP!Falling(e)
  /\ Epoch!Next <=> EpochP!Next
<1> USE DEF Epoch!NoEpoch, EpochP!NoEpoch, Epoch!EpochId, EpochP!EpochId,
            Epoch!Blank, EpochP!Blank, Epoch!NoEdges, EpochP!NoEdges
<1>1. Epoch!Init <=> EpochP!Init
  BY DEF Epoch!Init, EpochP!Init
<1>2. \A e : Epoch!Affected(e) = EpochP!Affected(e)
  BY DEF Epoch!Affected, EpochP!Affected, Epoch!Dependents, EpochP!Dependents,
         Epoch!ClosedSets, EpochP!ClosedSets
<1>3. \A e : Epoch!Falling(e) = EpochP!Falling(e)
  BY <1>2 DEF Epoch!Falling, EpochP!Falling
<1>4. \A c : Epoch!CreateEpoch(c) <=> EpochP!CreateEpoch(c)
  BY DEF Epoch!CreateEpoch, EpochP!CreateEpoch, Epoch!AssignEpoch, EpochP!AssignEpoch
<1>5. Epoch!InvalidateOld <=> EpochP!InvalidateOld
  BY <1>3 DEF Epoch!InvalidateOld, EpochP!InvalidateOld, Epoch!ProducersAfter, EpochP!ProducersAfter
<1>6. \A c, D, U : Epoch!CommitEpoch(c, D, U) <=> EpochP!CommitEpoch(c, D, U)
  BY DEF Epoch!CommitEpoch, EpochP!CommitEpoch, Epoch!ProducersOf, EpochP!ProducersOf,
         Epoch!SetDeps, EpochP!SetDeps, Epoch!SetRdeps, EpochP!SetRdeps
<1>7. Epoch!AbandonEpoch <=> EpochP!AbandonEpoch
  BY DEF Epoch!AbandonEpoch, EpochP!AbandonEpoch
<1>8. Epoch!Reset <=> EpochP!Reset
  BY DEF Epoch!Reset, EpochP!Reset
<1>9. Epoch!Next <=> EpochP!Next
  BY <1>4, <1>5, <1>6, <1>7, <1>8 DEF Epoch!Next, EpochP!Next
<1> QED BY <1>1, <1>2, <1>3, <1>9

\* The two instances of the fragments have the same steps.
LEMMA SameFragments ==
  /\ Ir!Init <=> IrP!Init
  /\ \A f : Ir!InvalidatedFragments(f) = IrP!InvalidatedFragments(f)
  /\ Ir!Next <=> IrP!Next
<1> USE DEF Ir!Blank, IrP!Blank, Ir!NoEdges, IrP!NoEdges, Ir!IsActive, IrP!IsActive
<1>1. Ir!Init <=> IrP!Init
  BY DEF Ir!Init, IrP!Init
<1>2. \A f : Ir!InvalidatedFragments(f) = IrP!InvalidatedFragments(f)
  BY DEF Ir!InvalidatedFragments, IrP!InvalidatedFragments, Ir!Dependents, IrP!Dependents,
         Ir!ClosedSets, IrP!ClosedSets
<1>3. \A f : Ir!Deactivating(f) = IrP!Deactivating(f)
  BY <1>2 DEF Ir!Deactivating, IrP!Deactivating
<1>4. \A f : Ir!InvalidateFragment(f) <=> IrP!InvalidateFragment(f)
  BY <1>3 DEF Ir!InvalidateFragment, IrP!InvalidateFragment, Ir!ProducersAfter, IrP!ProducersAfter
<1>5. \A f, D, U : Ir!BuildFragment(f, D, U) <=> IrP!BuildFragment(f, D, U)
  BY DEF Ir!BuildFragment, IrP!BuildFragment, Ir!ProducersOf, IrP!ProducersOf,
         Ir!SetDeps, IrP!SetDeps, Ir!SetRdeps, IrP!SetRdeps
<1>6. Ir!Reset <=> IrP!Reset
  BY DEF Ir!Reset, IrP!Reset
<1>7. Ir!Next <=> IrP!Next
  BY <1>4, <1>5, <1>6 DEF Ir!Next, IrP!Next
<1> QED BY <1>1, <1>2, <1>7

\* A step of the notebook is a step of the epoch system or leaves it alone.
LEMMA NotebookStepOfEpochs ==
  ASSUME CellInv, LoadInv, [NotebookNext]_notebookVars
  PROVE  [Epoch!Next]_(Epoch!vars)
<1>1. CASE \E c \in Cell : RunCell(c) \/ \E u \in Units : NewCell(c, u)
  BY <1>1 DEF RunCell, NewCell, Epoch!Next
<1>2. CASE InvalidateOldEpoch
  BY <1>2 DEF InvalidateOldEpoch, Epoch!Next
<1>3. CASE ExecuteText \/ Execute \/ UNCHANGED notebookVars
  BY <1>3 DEF ExecuteText, Execute, notebookVars, epochVars, Epoch!vars
<1>4. CASE CellSucceeds
  <2>1. exec.id \in Cell /\ exec.unit \in Units
    BY <1>4 DEF CellSucceeds, TakeResult, LoadInv, LoadTypeOK, Cell
  <2>2. exec.unit.defined \in SUBSET Symbol /\ exec.unit.used \in SUBSET Symbol
    BY <2>1, UnitsAreInterfaces
  <2> QED BY <1>4, <2>1, <2>2 DEF CellSucceeds, Epoch!Next
<1>5. CASE CellFails
  BY <1>5 DEF CellFails, Epoch!Next
<1>6. CASE ResetSession
  BY <1>6 DEF ResetSession, Epoch!Next
<1> QED BY <1>1, <1>2, <1>3, <1>4, <1>5, <1>6 DEF NotebookNext

\* A step of a call is a step of the fragments or leaves them alone.
LEMMA StepOfFragments ==
  ASSUME LoadInv, Step, phase # "idle"
  PROVE  [Ir!Next]_(Ir!vars)
<1>0. exec.id \in Fragment /\ exec.unit \in Units
  BY DEF LoadInv, LoadTypeOK
<1>1. CASE Unload
  BY <1>0, <1>1 DEF Unload, Ir!IsActive, irVars, Ir!vars, Ir!Next
<1>2. CASE Build
  <2>1. exec.unit.defined \in SUBSET Symbol /\ exec.unit.used \in SUBSET Symbol
    BY <1>0, UnitsAreInterfaces
  <2> QED BY <1>0, <1>2, <2>1 DEF Build, Ir!Next
<1>3. CASE ~Unload /\ ~Build
  <2>1. UNCHANGED irVars
    BY <1>3 DEF Step, SyntaxError, EndProcess, RejectInvalidated, CheckFails, CheckSucceeds,
                CommitSymbol, RemoveModule, RemoveFails, BuildFails, BuildThrows, AddModule,
                AddFails, Run
  <2> QED BY <2>1 DEF irVars, Ir!vars
<1> QED BY <1>1, <1>2, <1>3

\* A step of a call is a step of the session or leaves it alone.
LEMMA StepOfSession ==
  ASSUME LoadInv, Step, phase # "idle"
  PROVE  [Session!Next]_(Session!vars)
<1>1. CASE CheckSucceeds /\ exec.unit.defined # {}
  <2>1. exec.unit \in Units
    BY DEF LoadInv, LoadTypeOK
  <2>2. /\ exec.unit.defined \in SUBSET Symbol
        /\ exec.unit.used \in SUBSET {u \in Symbol : Session!Accepted(u)}
    BY <1>1, <2>1, UnitsAreInterfaces, CheckedAreAccepted
  <2> QED BY <1>1, <2>2 DEF CheckSucceeds, Session!Next
<1>2. CASE \E d \in Symbol : CommitSymbol(d)
  BY <1>2 DEF CommitSymbol, Session!Next
<1>3. CASE ~(CheckSucceeds /\ exec.unit.defined # {}) /\ ~\E d \in Symbol : CommitSymbol(d)
  <2>1. UNCHANGED sessionVars
    BY <1>3 DEF Step, SyntaxError, EndProcess, RejectInvalidated, CheckFails, CheckSucceeds,
                Unload, RemoveModule, RemoveFails, BuildFails, BuildThrows, Build, AddModule,
                AddFails, Run
  <2> QED BY <2>1 DEF sessionVars, Session!vars
<1> QED BY <1>1, <1>2, <1>3

\* A step of the notebook is a step of the session or leaves it alone.
LEMMA NotebookStepOfSession ==
  ASSUME SymbolInv, CellInv, LoadInv, [NotebookNext]_notebookVars
  PROVE  [Session!Next]_(Session!vars)
<1>1. CASE Execute
  BY <1>1, StepIsInCall, StepOfSession DEF Execute
<1>2. CASE InvalidateOldEpoch
  <2>1. Session!InvalidateSymbols(Epoch!Withdrawn(stale))
    BY <1>2 DEF InvalidateOldEpoch
  <2>2. CASE Epoch!Withdrawn(stale) # {}
    BY <1>2, <2>1, <2>2, WithdrawnAreSymbols DEF Session!Next
  <2>3. CASE Epoch!Withdrawn(stale) = {}
    <3>1. symtab' = Session!Invalidated(symtab, {})
      BY <2>1, <2>3 DEF Session!InvalidateSymbols
    <3>2. symtab = [s \in Symbol |-> symtab[s]]
      BY DEF SymbolInv, SessionP!IInv, SessionP!TypeOK
    <3> QED BY <2>1, <3>1, <3>2 DEF Session!InvalidateSymbols, Session!Invalidated, Session!vars
  <2> QED BY <2>2, <2>3
<1>3. CASE ResetSession
  BY <1>3 DEF ResetSession, ResetEngine, Session!Next
<1>4. CASE \/ \E c \in Cell : RunCell(c) \/ \E u \in Units : NewCell(c, u)
           \/ ExecuteText \/ CellSucceeds \/ CellFails \/ UNCHANGED notebookVars
  <2>1. UNCHANGED sessionVars
    BY <1>4 DEF RunCell, NewCell, ExecuteText, Submit, CellSucceeds, CellFails, TakeResult,
                notebookVars, vars
  <2> QED BY <2>1 DEF sessionVars, Session!vars
<1> QED BY <1>1, <1>2, <1>3, <1>4 DEF NotebookNext

\* A step of the notebook is a step of the fragments or leaves them alone.
LEMMA NotebookStepOfFragments ==
  ASSUME LoadInv, [NotebookNext]_notebookVars
  PROVE  [Ir!Next]_(Ir!vars)
<1>1. CASE Execute
  BY <1>1, StepIsInCall, StepOfFragments DEF Execute
<1>2. CASE ResetSession
  BY <1>2 DEF ResetSession, ResetEngine, Ir!Next
<1>3. CASE ~Execute /\ ~ResetSession
  <2>1. UNCHANGED irVars
    BY <1>3 DEF NotebookNext, NewCell, RunCell, InvalidateOldEpoch, ExecuteText, Submit,
                CellSucceeds, CellFails, TakeResult, notebookVars, vars
  <2> QED BY <2>1 DEF irVars, Ir!vars
<1> QED BY <1>1, <1>2, <1>3

\* The notebook opens, invalidates, commits and abandons epochs only as
\* EpochManager specifies, so all that is proved of the epoch system on its own
\* holds of the notebook (Notebook::execute_cell, NotebookEpochManager).
THEOREM NotebookRunsEpochs == NotebookSpec => Epoch!Spec
BY NotebookStepOfEpochs, NotebookInvariant, PTL DEF NotebookSpec, NotebookInit, Epoch!Spec

\* The notebook begins, commits and invalidates units only as SessionManager
\* specifies: the checks between the analyzer and the commit take no use back that
\* the analyzer let through, and no epoch withdraws a name while a unit is being
\* committed (InteractiveOrchestrator::execute, Notebook::execute_cell).
THEOREM NotebookRunsSession == NotebookSpec => Session!Spec
BY SymbolInvariant, NotebookStepOfSession, NotebookInvariant, PTL
DEF NotebookSpec, NotebookInit, Init, Session!Spec

\* The notebook builds and invalidates fragments only as IrIncrementalBuilder
\* specifies (InteractiveOrchestrator::execute).
THEOREM NotebookRunsFragments == NotebookSpec => Ir!Spec
BY NotebookStepOfFragments, NotebookInvariant, PTL DEF NotebookSpec, NotebookInit, Init, Ir!Spec

\* The invariants of the two managers hold in the notebook.
LEMMA NotebookKeepsManagers == NotebookSpec => [](EpochP!IInv /\ IrP!IInv)
<1>1. EpochP!Spec => []EpochP!IInv
  BY EpochP!EpochInvariant, ManagerAssumptions
<1>2. Epoch!Spec => EpochP!Spec
  BY SameEpochs, PTL DEF Epoch!Spec, EpochP!Spec, Epoch!vars, EpochP!vars
<1>3. IrP!Spec => []IrP!IInv
  BY IrP!FragmentInvariant, ManagerAssumptions
<1>4. Ir!Spec => IrP!Spec
  BY SameFragments, PTL DEF Ir!Spec, IrP!Spec, Ir!vars, IrP!vars
<1> QED BY <1>1, <1>2, <1>3, <1>4, NotebookRunsEpochs, NotebookRunsFragments, PTL

------------------------------------------------------------------------------
(* What the abstract specification promises, in the notebook *)

\* The promise is the same in the two instances of the epoch system.
LEMMA SameEpochPromise == EpochP!ImplementsInvalidation => Epoch!ImplementsInvalidation
<1> USE DEF Epoch!EpochId, EpochP!EpochId
<1>1. Epoch!Abstract!Init <=> EpochP!Abstract!Init
  BY DEF Epoch!Abstract!Init, EpochP!Abstract!Init, Epoch!Abstract!NoEdges, EpochP!Abstract!NoEdges
<1>2. Epoch!Abstract!vars = EpochP!Abstract!vars
  BY DEF Epoch!Abstract!vars, EpochP!Abstract!vars
<1>3. UNCHANGED Epoch!Abstract!vars <=> UNCHANGED EpochP!Abstract!vars
  BY DEF Epoch!Abstract!vars, EpochP!Abstract!vars
<1>4. \A S : Epoch!Abstract!Downstream(S) = EpochP!Abstract!Downstream(S)
  BY DEF Epoch!Abstract!Downstream, EpochP!Abstract!Downstream, Epoch!Abstract!Reversed,
         EpochP!Abstract!Reversed, Epoch!Abstract!Dependents, EpochP!Abstract!Dependents,
         Epoch!Abstract!ClosedSets, EpochP!Abstract!ClosedSets
<1>5. Epoch!Abstract!Next <=> EpochP!Abstract!Next
  BY <1>4
  DEF Epoch!Abstract!Next, EpochP!Abstract!Next, Epoch!Abstract!Define, EpochP!Abstract!Define,
      Epoch!Abstract!Withdraw, EpochP!Abstract!Withdraw, Epoch!Abstract!Clear, EpochP!Abstract!Clear,
      Epoch!Abstract!NoEdges, EpochP!Abstract!NoEdges
<1> QED BY <1>1, <1>2, <1>3, <1>5, PTL
        DEF Epoch!ImplementsInvalidation, EpochP!ImplementsInvalidation, Epoch!Abstract!Spec,
            EpochP!Abstract!Spec

\* So it is in those of the session.
LEMMA SameSessionPromise == SessionP!ImplementsSymbolInvalidation => Session!ImplementsSymbolInvalidation
<1> USE DEF Session!IsValid, SessionP!IsValid, Session!Has, SessionP!Has
<1>1. Session!Abstract!SymbolInit <=> SessionP!Abstract!SymbolInit
  BY DEF Session!Abstract!SymbolInit, SessionP!Abstract!SymbolInit, Session!Abstract!Init,
         SessionP!Abstract!Init, Session!Abstract!NoEdges, SessionP!Abstract!NoEdges
<1>2. Session!Abstract!symbolVars = SessionP!Abstract!symbolVars
  BY DEF Session!Abstract!symbolVars, SessionP!Abstract!symbolVars, Session!Abstract!vars,
         SessionP!Abstract!vars
<1>3. UNCHANGED Session!Abstract!symbolVars <=> UNCHANGED SessionP!Abstract!symbolVars
  BY DEF Session!Abstract!symbolVars, SessionP!Abstract!symbolVars, Session!Abstract!vars,
         SessionP!Abstract!vars
<1>4. \A S : Session!Abstract!Downstream(S) = SessionP!Abstract!Downstream(S)
  BY DEF Session!Abstract!Downstream, SessionP!Abstract!Downstream, Session!Abstract!Reversed,
         SessionP!Abstract!Reversed, Session!Abstract!Dependents, SessionP!Abstract!Dependents,
         Session!Abstract!ClosedSets, SessionP!Abstract!ClosedSets
<1>5. Session!Abstract!SymbolNext <=> SessionP!Abstract!SymbolNext
  BY <1>4
  DEF Session!Abstract!SymbolNext, SessionP!Abstract!SymbolNext,
      Session!Abstract!Introduce, SessionP!Abstract!Introduce,
      Session!Abstract!Redefine, SessionP!Abstract!Redefine,
      Session!Abstract!WithdrawSymbols, SessionP!Abstract!WithdrawSymbols,
      Session!Abstract!Forget, SessionP!Abstract!Forget,
      Session!Abstract!Define, SessionP!Abstract!Define,
      Session!Abstract!Withdraw, SessionP!Abstract!Withdraw,
      Session!Abstract!Clear, SessionP!Abstract!Clear,
      Session!Abstract!NoEdges, SessionP!Abstract!NoEdges
<1> QED BY <1>1, <1>2, <1>3, <1>5, PTL
        DEF Session!ImplementsSymbolInvalidation, SessionP!ImplementsSymbolInvalidation,
            Session!Abstract!SymbolSpec, SessionP!Abstract!SymbolSpec

\* So it is in those of the fragments.
LEMMA SameFragmentPromise == IrP!ImplementsInvalidation => Ir!ImplementsInvalidation
<1> USE DEF Ir!IsActive, IrP!IsActive
<1>1. Ir!Abstract!Init <=> IrP!Abstract!Init
  BY DEF Ir!Abstract!Init, IrP!Abstract!Init, Ir!Abstract!NoEdges, IrP!Abstract!NoEdges
<1>2. Ir!Abstract!vars = IrP!Abstract!vars
  BY DEF Ir!Abstract!vars, IrP!Abstract!vars
<1>3. UNCHANGED Ir!Abstract!vars <=> UNCHANGED IrP!Abstract!vars
  BY DEF Ir!Abstract!vars, IrP!Abstract!vars
<1>4. \A S : Ir!Abstract!Downstream(S) = IrP!Abstract!Downstream(S)
  BY DEF Ir!Abstract!Downstream, IrP!Abstract!Downstream, Ir!Abstract!Reversed,
         IrP!Abstract!Reversed, Ir!Abstract!Dependents, IrP!Abstract!Dependents,
         Ir!Abstract!ClosedSets, IrP!Abstract!ClosedSets
<1>5. Ir!Abstract!Next <=> IrP!Abstract!Next
  BY <1>4
  DEF Ir!Abstract!Next, IrP!Abstract!Next, Ir!Abstract!Define, IrP!Abstract!Define,
      Ir!Abstract!Withdraw, IrP!Abstract!Withdraw, Ir!Abstract!Clear, IrP!Abstract!Clear,
      Ir!Abstract!NoEdges, IrP!Abstract!NoEdges
<1> QED BY <1>1, <1>2, <1>3, <1>5, PTL
        DEF Ir!ImplementsInvalidation, IrP!ImplementsInvalidation, Ir!Abstract!Spec,
            IrP!Abstract!Spec

\* The two instances of the session have the same next-state relation.
LEMMA SameSessionSteps == Session!Next <=> SessionP!Next
BY SameSession
DEF Session!Next, SessionP!Next, Session!Accepted, SessionP!Accepted

\* The symbols, the epochs and the fragments of a notebook each become stale
\* exactly when something upstream of them was redefined or withdrawn, wherever
\* a call fails and whatever was executed again before; the first definition of
\* a name alone stales no symbol
\* (Notebook::execute_cell, InteractiveOrchestrator::execute).
THEOREM NotebookRefinesInvalidation ==
  NotebookSpec => /\ Session!ImplementsSymbolInvalidation
                  /\ Epoch!ImplementsInvalidation
                  /\ Ir!ImplementsInvalidation
<1>1. Session!Spec => Session!ImplementsSymbolInvalidation
  <2>1. SessionP!Spec => SessionP!ImplementsSymbolInvalidation
    BY SessionP!SessionRefines, SessionAssumptions
  <2>2. Session!Spec => SessionP!Spec
    BY SameSession, SameSessionSteps, PTL
    DEF Session!Spec, SessionP!Spec, Session!vars, SessionP!vars
  <2> QED BY <2>1, <2>2, SameSessionPromise
<1>2. Epoch!Spec => Epoch!ImplementsInvalidation
  <2>1. EpochP!Spec => EpochP!ImplementsInvalidation
    BY EpochP!EpochsRefine, ManagerAssumptions
  <2>2. Epoch!Spec => EpochP!Spec
    BY SameEpochs, PTL DEF Epoch!Spec, EpochP!Spec, Epoch!vars, EpochP!vars
  <2> QED BY <2>1, <2>2, SameEpochPromise
<1>3. Ir!Spec => Ir!ImplementsInvalidation
  <2>1. IrP!Spec => IrP!ImplementsInvalidation
    BY IrP!FragmentsRefine, ManagerAssumptions
  <2>2. Ir!Spec => IrP!Spec
    BY SameFragments, PTL DEF Ir!Spec, IrP!Spec, Ir!vars, IrP!vars
  <2> QED BY <2>1, <2>2, SameFragmentPromise
<1> QED BY <1>1, <1>2, <1>3, NotebookRunsSession, NotebookRunsEpochs, NotebookRunsFragments

------------------------------------------------------------------------------
(* The code of the cells *)

\* The epoch that speaks for a cell: while its old epoch is about to be
\* invalidated, that one.
EpochFor(g) == IF stale # 0 /\ cellEpoch[g] = running THEN stale ELSE cellEpoch[g]

\* A cell is standing when its epoch committed an interface, or it is shown as
\* valid, and no invalidation has reached it.
Standing(c) ==
  /\ c \in Created /\ cellEpoch[c] # running
  /\ epochs[cellEpoch[c]].valid
  /\ cells[c].valid \/ epochs[cellEpoch[c]].defined # {}

\* A cell that others may depend on.
Target(g) ==
  /\ g \in Created /\ EpochFor(g) \notin {0, running}
  /\ epochs[EpochFor(g)].valid /\ epochs[EpochFor(g)].defined # {}

\* The two producer maps name the same cell for a symbol.
Agree(u) ==
  fragProducer[u] # NoFragment =>
    fragProducer[u] \in Created /\ producer[u] = EpochFor(fragProducer[u])

\* The call is bound to succeed unless it fails late.
Committing ==
  phase \in {"commit", "unload", "remove", "add", "run"} \/ (phase = "done" /\ result = "ok")

\* A standing cell has its code, and depends in the epoch system on what it
\* depends on in the builder.
StandingHaveCode ==
  \A c \in Cell : Standing(c) =>
    HasCode(c) /\ \A g \in fragDeps[c] : Target(g) /\ EpochFor(g) \in epochDeps[cellEpoch[c]]

ProducersAgree ==
  /\ \A u \in Symbol :
       Session!IsValid(u) /\ ~(Committing /\ u \in exec.unit.defined) => Agree(u)
  /\ phase \in {"commit", "unload", "remove"} => \A u \in exec.unit.used : Agree(u)

\* The builder knows no producer of a name that the session does not have.
ProducedAreKnown ==
  /\ \A u \in Symbol : fragProducer[u] # NoFragment => Session!Has(u)
  /\ phase = "commit" =>
       /\ pending \subseteq exec.unit.defined
       /\ \A u \in exec.unit.defined : Session!Has(u) \/ u \in pending
  /\ phase \in {"unload", "remove"} => \A u \in exec.unit.defined : Session!Has(u)

DoomedAreInactive == phase = "remove" => \A g \in doomed : ~Ir!IsActive(g)

\* What the call has built is what its epoch will say.
CallHasCode ==
  phase \in {"add", "run"} \/ (phase = "done" /\ result = "ok") =>
    /\ Ir!IsActive(exec.id) /\ (phase # "add" => trackers[exec.id] # 0)
    /\ \A u \in exec.unit.defined : fragProducer[u] = exec.id
    /\ \A g \in fragDeps[exec.id] :
         g \in Created /\ \E u \in exec.unit.used : producer[u] = EpochFor(g)

Settled == (phase # "idle" => stale = 0) /\ (removalFailed => failedLate)

CodeStands ==
  StandingHaveCode /\ ProducersAgree /\ ProducedAreKnown /\ DoomedAreInactive /\ CallHasCode

\* Nothing is claimed once a call has failed after it committed its symbols.
CodeInv == Settled /\ (~failedLate /\ phase # "ended" => CodeStands)

\* What the managers say of the states of the notebook.
ManagersInv == CellInv /\ LoadInv /\ SymbolInv /\ EpochP!IInv /\ IrP!IInv

\* The facts about the graphs that the proofs below use.
LEMMA GraphFacts ==
  ASSUME ManagersInv
  PROVE  /\ fragDeps \in [Fragment -> SUBSET Fragment] /\ fragRdeps \in [Fragment -> SUBSET Fragment]
         /\ \A f, g \in Fragment : g \in fragDeps[f] => f \in fragRdeps[g]
         /\ \A f, g \in Fragment : f \in fragRdeps[g] => g \in fragDeps[f]
         /\ fragProducer \in [Symbol -> Fragment \cup {NoFragment}]
         /\ epochDeps \in [1..MaxEpoch -> SUBSET (1..MaxEpoch)]
         /\ epochRdeps \in [1..MaxEpoch -> SUBSET (1..MaxEpoch)]
         /\ \A d, e \in 1..MaxEpoch : d \in epochDeps[e] => e \in epochRdeps[d]
         /\ producer \in [Symbol -> 0..MaxEpoch]
         /\ \A s \in Symbol : producer[s] # 0 =>
              epochs[producer[s]].valid /\ s \in epochs[producer[s]].defined
         /\ running # 0 => epochs[running].defined = {}
         /\ running = 0 => stale = 0
         /\ Cell = Fragment
<1>1. IrP!TypeOK /\ IrP!GraphMirrored /\ EpochP!TypeOK /\ EpochP!GraphMirrored
      /\ EpochP!ProducerLive /\ EpochP!InProgress
  BY DEF ManagersInv, IrP!IInv, EpochP!IInv
<1> QED BY <1>1 DEF IrP!TypeOK, IrP!GraphMirrored, IrP!Mirrored, EpochP!TypeOK, EpochP!GraphMirrored,
     EpochP!Mirrored, EpochP!ProducerLive, EpochP!InProgress, EpochP!EpochId, EpochP!NoEpoch, Cell

\* The part of the cells that the proofs below use.
LEMMA CellFacts ==
  ASSUME CellInv
  PROVE  /\ \A c \in Created : c \in Fragment /\ cellEpoch[c] \in 1..MaxEpoch /\ cellEpoch[c] # 0
                               /\ cellEpoch[c] <= counter
         /\ \A b, c \in Created : cellEpoch[b] = cellEpoch[c] => b = c
         /\ running # 0 => running \in 1..MaxEpoch
         /\ phase # "idle" => /\ running # 0 /\ exec.id \in Created /\ exec.id \in Fragment
                              /\ cellEpoch[exec.id] = running /\ exec.unit = cells[exec.id].text
                              /\ exec.unit \in Units
BY DEF CellInv, CellTypeOK, EpochOfCell, CallOfCell, Created, Cell

\* Nothing is claimed of a notebook in which a call has failed late, nor of a
\* process that has ended.
LEMMA FailedCodeInv ==
  ASSUME Settled', failedLate' \/ phase' = "ended"
  PROVE  CodeInv'
BY DEF CodeInv

\* What a call does leaves the standing of the cells alone.
LEMMA SameCells ==
  ASSUME UNCHANGED <<cells, epochVars>>
  PROVE  /\ Created' = Created
         /\ \A c : EpochFor(c)' = EpochFor(c)
         /\ \A c : Standing(c)' <=> Standing(c)
         /\ \A c : Target(c)' <=> Target(c)
         /\ UNCHANGED <<cellEpoch, producer, epochDeps, stale>>
BY DEF epochVars, Created, EpochFor, Standing, Target

\* A check that fails, or rejects an invalidated symbol, changes nothing that
\* the invariant is about.
LEMMA RejectCodeInv ==
  ASSUME CodeStands, RejectInvalidated \/ \E P \in SUBSET exec.unit.declared : CheckFails(P),
         UNCHANGED <<cells, epochVars>>
  PROVE  CodeStands'
<1>1. /\ phase = "analyze" /\ phase' = "done" /\ result' = "failed"
      /\ UNCHANGED <<exec, sessionVars, irVars, trackers>>
  BY DEF RejectInvalidated, CheckFails, Return, jitVars
<1>2. UNCHANGED <<symtab, fragments, fragProducer, fragDeps>>
  BY <1>1 DEF sessionVars, irVars
<1>3. StandingHaveCode'
  BY <1>1, <1>2, SameCells DEF CodeStands, StandingHaveCode, HasCode, Ir!IsActive
<1>4. ProducersAgree'
  BY <1>1, <1>2, SameCells DEF CodeStands, ProducersAgree, Agree, Committing, Session!IsValid
<1>5. ProducedAreKnown'
  BY <1>1, <1>2 DEF CodeStands, ProducedAreKnown, Session!Has
<1>6. DoomedAreInactive' /\ CallHasCode'
  BY <1>1 DEF DoomedAreInactive, CallHasCode
<1> QED BY <1>3, <1>4, <1>5, <1>6 DEF CodeStands

\* The names a unit uses are valid in the session, or the builder does not know
\* them: either way the two producer maps agree on them.
LEMMA CheckSucceedsCodeInv ==
  ASSUME ManagersInv, CodeStands, CheckSucceeds, UNCHANGED <<cells, epochVars>>
  PROVE  CodeStands'
<1>1. /\ phase = "analyze" /\ phase' \in {"commit", "unload"}
      /\ UNCHANGED <<exec, fragments, fragProducer, fragDeps, trackers, doomed, symtab>>
      /\ phase' = "unload" => exec.unit.defined = {}
      /\ phase' = "commit" => pending' = exec.unit.defined
  BY DEF CheckSucceeds, irVars, jitVars, sessionVars, Session!BeginUnit, Session!tableVars
<1>2. \A u \in exec.unit.used : u \in Symbol /\ Agree(u)
  <2> SUFFICES ASSUME NEW u \in exec.unit.used PROVE u \in Symbol /\ Agree(u)
    OBVIOUS
  <2>1. u \in Symbol
    BY <1>1, CellFacts, UnitsAreInterfaces DEF ManagersInv
  <2>2. Session!Has(u) => Session!IsValid(u)
    BY DEF CheckSucceeds, UsesInvalidated
  <2>3. CASE fragProducer[u] = NoFragment
    BY <2>1, <2>3 DEF Agree
  <2>4. CASE fragProducer[u] # NoFragment
    BY <1>1, <2>1, <2>2, <2>4 DEF CodeStands, ProducedAreKnown, ProducersAgree, Committing
  <2> QED BY <2>1, <2>3, <2>4
<1>3. \A u : Agree(u)' <=> Agree(u)
  BY <1>1, SameCells DEF Agree
<1>4. StandingHaveCode'
  BY <1>1, SameCells DEF CodeStands, StandingHaveCode, HasCode, Ir!IsActive
<1>5. ProducersAgree'
  BY <1>1, <1>2, <1>3 DEF CodeStands, ProducersAgree, Committing, Session!IsValid
<1>6. ProducedAreKnown'
  BY <1>1 DEF CodeStands, ProducedAreKnown, Session!Has
<1>7. DoomedAreInactive' /\ CallHasCode'
  BY <1>1 DEF DoomedAreInactive, CallHasCode
<1> QED BY <1>4, <1>5, <1>6, <1>7 DEF CodeStands

\* Committing a name makes no other name valid.
LEMMA CommitMakesValid ==
  ASSUME SessionP!IInv, NEW d \in Symbol, Session!CommitSymbol(d)
  PROVE  \A s \in Symbol : s # d /\ Session!IsValid(s)' => Session!IsValid(s)
<1>1. symtab \in [Symbol -> SessionP!Entry]
  BY DEF SessionP!IInv, SessionP!TypeOK
<1>2. CASE Session!AddSymbol(d)
  BY <1>1, <1>2 DEF Session!AddSymbol, Session!IsValid
<1>3. CASE Session!RedefineSymbol(d)
  <2> DEFINE tab == Session!Invalidated(symtab, Session!StaleWith(d))
  <2>1. symtab' = [tab EXCEPT ![d] = [valid |-> TRUE, version |-> symtab[d].version + 1]]
    BY <1>3 DEF Session!RedefineSymbol, Session!VersionAfter
  <2>2. \A s \in Symbol : symtab[s] \in SessionP!Entry
    BY <1>1
  <2>3. \A s \in Symbol : tab[s].valid => symtab[s].valid
    BY <2>2 DEF Session!Invalidated, SessionP!Entry
  <2>4. DOMAIN tab = Symbol
    BY DEF Session!Invalidated
  <2> HIDE DEF tab
  <2>5. \A s \in Symbol : s # d => symtab'[s] = tab[s]
    BY <2>1, <2>4
  <2> QED BY <2>3, <2>5 DEF Session!IsValid
<1> QED BY <1>2, <1>3 DEF Session!CommitSymbol

\* The committed names are excepted until the call is over.
LEMMA CommitSymbolCodeInv ==
  ASSUME ManagersInv, CodeStands, NEW d \in Symbol, CommitSymbol(d), UNCHANGED <<cells, epochVars>>
  PROVE  CodeStands'
<1>1. /\ phase = "commit" /\ phase' \in {"commit", "unload"}
      /\ phase' = "unload" => pending' = {}
      /\ UNCHANGED <<exec, fragments, fragProducer, fragDeps, trackers, doomed>>
      /\ Session!CommitSymbol(d)
  BY DEF CommitSymbol, irVars, jitVars
<1>2. /\ d \in pending /\ pending' = pending \ {d} /\ Session!Has(d)'
      /\ \A s \in Symbol : Session!Has(s) => Session!Has(s)'
      /\ \A s \in Symbol : s # d /\ Session!IsValid(s)' => Session!IsValid(s)
  BY <1>1, CommitKeepsNames, CommitMakesValid DEF ManagersInv, SymbolInv
<1>3. exec.unit.defined \subseteq Symbol /\ d \in exec.unit.defined
  BY <1>1, <1>2, CellFacts, UnitsAreInterfaces
  DEF ManagersInv, CodeStands, ProducedAreKnown
<1>4. \A u : Agree(u)' <=> Agree(u)
  BY <1>1, SameCells DEF Agree
<1>5. StandingHaveCode'
  BY <1>1, SameCells DEF CodeStands, StandingHaveCode, HasCode, Ir!IsActive
<1>6. ProducersAgree'
  BY <1>1, <1>2, <1>3, <1>4 DEF CodeStands, ProducersAgree, Committing
<1>7. ProducedAreKnown'
  BY <1>1, <1>2, <1>3 DEF CodeStands, ProducedAreKnown
<1>8. DoomedAreInactive' /\ CallHasCode'
  BY <1>1 DEF DoomedAreInactive, CallHasCode
<1> QED BY <1>5, <1>6, <1>7, <1>8 DEF CodeStands

\* The cells that are not standing are closed under the reverse edges of the
\* builder, and the cell of the call is one of them; so the invalidation that
\* starts from it reaches no standing cell.
LEMMA UnloadSparesStanding ==
  ASSUME ManagersInv, CodeStands, phase # "idle", stale = 0
  PROVE  \A c \in Fragment : Standing(c) => c \notin Ir!InvalidatedFragments(exec.id)
<1> DEFINE S == {c \in Fragment : ~Standing(c)}
<1>1. exec.id \in S
  BY CellFacts DEF Standing, ManagersInv
<1>2. ASSUME NEW m \in S PROVE fragRdeps[m] \subseteq S
  <2> SUFFICES ASSUME NEW n \in fragRdeps[m], Standing(n) PROVE FALSE
    BY GraphFacts
  <2>1. n \in Fragment /\ m \in Fragment /\ m \in fragDeps[n]
    BY GraphFacts
  <2>2. Target(m)
    BY <2>1, GraphFacts DEF CodeStands, StandingHaveCode
  <2>3. Standing(m)
    BY <2>2 DEF Target, Standing, EpochFor
  <2> QED BY <1>2, <2>3
<1>3. IrP!Dependents(fragRdeps, exec.id) \subseteq S
  <2>1. PICK C \in SUBSET Fragment : C = S
    OBVIOUS
  <2>2. fragRdeps[exec.id] \subseteq C /\ \A m \in C : fragRdeps[m] \subseteq C
    BY <1>1, <1>2, <2>1
  <2>3. exec.id \in Fragment /\ fragRdeps \in [Fragment -> SUBSET Fragment]
    BY <1>1, GraphFacts
  <2> HIDE DEF S
  <2>4. IrP!Dependents(fragRdeps, exec.id) \subseteq C
    BY <2>2, <2>3, ManagerAssumptions, IrP!DependentsLeast
  <2> QED BY <2>1, <2>4
<1>4. Ir!InvalidatedFragments(exec.id) \subseteq S
  BY <1>1, <1>3, SameFragments DEF IrP!InvalidatedFragments
<1> QED BY <1>4

\* Unloading the previous fragment of the cell takes no code from a standing
\* cell.
LEMMA UnloadCodeInv ==
  ASSUME ManagersInv, CodeStands, stale = 0, Unload, UNCHANGED <<cells, epochVars>>
  PROVE  CodeStands'
<1>1. /\ phase = "unload" /\ phase' = "remove" /\ UNCHANGED <<exec, symtab, trackers, fragDeps>>
      /\ doomed = {}
  BY DEF Unload, sessionVars, irVars, Ir!InvalidateFragment, ManagersInv, LoadInv, LoadTypeOK
<1>2. /\ \A c \in Fragment : c \notin Ir!InvalidatedFragments(exec.id) => fragments'[c] = fragments[c]
      /\ \A u \in Symbol : fragProducer'[u] \in {fragProducer[u], NoFragment}
      /\ \A g \in doomed' : ~fragments'[g].active
  <2>1. CASE Ir!IsActive(exec.id)
    <3>1. /\ fragments' = [g \in Fragment |->
                IF g \in Ir!Deactivating(exec.id) THEN [fragments[g] EXCEPT !.active = FALSE]
                ELSE fragments[g]]
          /\ fragProducer' = Ir!ProducersAfter(exec.id)
          /\ doomed' = {g \in Ir!InvalidatedFragments(exec.id) : trackers[g] # 0}
      BY <2>1 DEF Unload, Ir!InvalidateFragment
    <3>2. \A g \in Fragment : /\ fragments[g] \in FragmentRecord
                              /\ [fragments[g] EXCEPT !.active = FALSE].active = FALSE
      BY DEF ManagersInv, LoadInv, LoadTypeOK, FragmentRecord
    <3>3. Ir!InvalidatedFragments(exec.id) \subseteq Fragment
      BY <1>1, CellFacts, GraphFacts DEF ManagersInv, Ir!InvalidatedFragments, Ir!Dependents
    <3>4. \A g \in Ir!InvalidatedFragments(exec.id) : ~fragments'[g].active
      BY <3>1, <3>2, <3>3 DEF Ir!Deactivating, Ir!IsActive
    <3>5. \A u \in Symbol : fragProducer'[u] \in {fragProducer[u], NoFragment}
      BY <3>1 DEF Ir!ProducersAfter
    <3>6. \A c \in Fragment : c \notin Ir!InvalidatedFragments(exec.id) => fragments'[c] = fragments[c]
      BY <3>1 DEF Ir!Deactivating
    <3> QED BY <3>1, <3>4, <3>5, <3>6
  <2>2. CASE ~Ir!IsActive(exec.id)
    BY <1>1, <2>2 DEF Unload, irVars
  <2> QED BY <2>1, <2>2
<1>3. StandingHaveCode'
  <2>1. \A c \in Fragment : Standing(c) => fragments'[c] = fragments[c]
    BY <1>1, <1>2, UnloadSparesStanding
  <2> QED BY <1>1, <2>1, SameCells, GraphFacts DEF CodeStands, StandingHaveCode, HasCode, Ir!IsActive
<1>4. \A u \in Symbol : Agree(u) => Agree(u)'
  BY <1>2, SameCells DEF Agree
<1>5. exec.unit.used \subseteq Symbol
  BY <1>1, CellFacts, UnitsAreInterfaces DEF ManagersInv
<1>6. ProducersAgree'
  BY <1>1, <1>4, <1>5 DEF CodeStands, ProducersAgree, Committing, Session!IsValid
<1>7. ProducedAreKnown'
  BY <1>1, <1>2 DEF CodeStands, ProducedAreKnown, Session!Has
<1>8. DoomedAreInactive' /\ CallHasCode'
  BY <1>1, <1>2 DEF DoomedAreInactive, CallHasCode, Ir!IsActive
<1> QED BY <1>3, <1>6, <1>7, <1>8 DEF CodeStands

\* The modules that go belong to inactive fragments.
LEMMA RemoveModuleCodeInv ==
  ASSUME ManagersInv, CodeStands, NEW g \in Fragment, RemoveModule(g), UNCHANGED <<cells, epochVars>>
  PROVE  CodeStands'
<1>1. /\ phase = "remove" /\ phase' = phase /\ g \in doomed /\ doomed' \subseteq doomed
      /\ trackers' = [trackers EXCEPT ![g] = 0]
      /\ UNCHANGED <<exec, symtab, fragments, fragProducer, fragDeps>>
  BY DEF RemoveModule, irVars, sessionVars
<1>2. ~Ir!IsActive(g)
  BY <1>1 DEF CodeStands, DoomedAreInactive
<1>3. \A f \in Fragment : f # g => trackers'[f] = trackers[f]
  BY <1>1 DEF ManagersInv, LoadInv, LoadTypeOK
<1>4. StandingHaveCode'
  BY <1>1, <1>2, <1>3, SameCells, GraphFacts DEF CodeStands, StandingHaveCode, HasCode, Ir!IsActive
<1>5. ProducersAgree'
  BY <1>1, SameCells DEF CodeStands, ProducersAgree, Agree, Committing, Session!IsValid
<1>6. ProducedAreKnown'
  BY <1>1 DEF CodeStands, ProducedAreKnown, Session!Has
<1>7. DoomedAreInactive' /\ CallHasCode'
  BY <1>1 DEF CodeStands, DoomedAreInactive, CallHasCode, Ir!IsActive
<1> QED BY <1>4, <1>5, <1>6, <1>7 DEF CodeStands

\* The fragment of the call depends on the producers of the names it uses,
\* which are those of the epoch system.
LEMMA BuildCodeInv ==
  ASSUME ManagersInv, CodeStands, Build, UNCHANGED <<cells, epochVars>>
  PROVE  CodeStands'
<1> DEFINE x == exec.id
<1>1. /\ phase = "remove" /\ phase' = "add" /\ x \in Fragment /\ x \in Created
      /\ cellEpoch[x] = running
      /\ fragments' = [fragments EXCEPT ![x] =
                         [built |-> TRUE, active |-> TRUE, defined |-> exec.unit.defined]]
      /\ fragProducer' = [s \in Symbol |-> IF s \in exec.unit.defined THEN x ELSE fragProducer[s]]
      /\ fragDeps' = [fragDeps EXCEPT ![x] = Ir!ProducersOf(x, exec.unit.used)]
      /\ UNCHANGED <<exec, symtab, trackers, doomed>>
      /\ exec.unit.defined \subseteq Symbol /\ exec.unit.used \subseteq Symbol
  BY CellFacts, UnitsAreInterfaces
  DEF ManagersInv, Build, Ir!BuildFragment, Ir!SetDeps, jitVars, sessionVars
<1> HIDE DEF x
<1>2. /\ fragments'[x].active
      /\ fragDeps'[x] = Ir!ProducersOf(x, exec.unit.used)
      /\ \A f \in Fragment : f # x => fragments'[f] = fragments[f] /\ fragDeps'[f] = fragDeps[f]
  BY <1>1, GraphFacts DEF ManagersInv, LoadInv, LoadTypeOK
<1>3. ~Standing(x)
  BY <1>1 DEF Standing
<1>4. StandingHaveCode'
  BY <1>1, <1>2, <1>3, SameCells, GraphFacts DEF CodeStands, StandingHaveCode, HasCode, Ir!IsActive
<1>5. ProducersAgree'
  <2>1. \A u \in Symbol : u \notin exec.unit.defined => (Agree(u) => Agree(u)')
    BY <1>1, SameCells DEF Agree
  <2> QED BY <1>1, <2>1 DEF CodeStands, ProducersAgree, Committing, Session!IsValid
<1>6. ProducedAreKnown'
  BY <1>1 DEF CodeStands, ProducedAreKnown, Session!Has
<1>7. CallHasCode'
  <2>1. \A g \in fragDeps'[x] : g \in Created /\ \E u \in exec.unit.used : producer[u] = EpochFor(g)
    <3> SUFFICES ASSUME NEW g \in fragDeps'[x]
                 PROVE  g \in Created /\ \E u \in exec.unit.used : producer[u] = EpochFor(g)
      OBVIOUS
    <3>1. PICK u \in exec.unit.used : g = fragProducer[u] /\ g # NoFragment
      BY <1>2 DEF Ir!ProducersOf
    <3>2. Agree(u)
      BY <1>1 DEF CodeStands, ProducersAgree
    <3> QED BY <3>1, <3>2 DEF Agree
  <2>2. \A u \in exec.unit.defined : fragProducer'[u] = x
    BY <1>1
  <2>3. exec.id = x
    BY DEF x
  <2> QED BY <1>1, <1>2, <2>1, <2>2, <2>3, SameCells DEF CallHasCode, Ir!IsActive
<1>8. DoomedAreInactive'
  BY <1>1 DEF DoomedAreInactive
<1> QED BY <1>4, <1>5, <1>6, <1>7, <1>8 DEF CodeStands

\* The fragment of the call gets its module.
LEMMA AddModuleCodeInv ==
  ASSUME ManagersInv, CodeStands, ~removalFailed, AddModule, UNCHANGED <<cells, epochVars>>
  PROVE  CodeStands'
<1> DEFINE x == exec.id
<1>1. /\ phase = "add" /\ phase' = "run" /\ x \in Fragment /\ x \in Created
      /\ cellEpoch[x] = running
      /\ trackers' = [trackers EXCEPT ![x] = unitCounter]
      /\ UNCHANGED <<exec, symtab, fragments, fragProducer, fragDeps, doomed>>
  BY CellFacts DEF ManagersInv, AddModule, irVars, sessionVars
<1>2. unitCounter # 0
  BY <1>1 DEF ManagersInv, LoadInv, LoadTypeOK, Replaced, Numbered
<1>3. trackers'[x] # 0 /\ \A f \in Fragment : f # x => trackers'[f] = trackers[f]
  BY <1>1, <1>2 DEF ManagersInv, LoadInv, LoadTypeOK
<1>4. ~Standing(x)
  BY <1>1 DEF Standing
<1>5. StandingHaveCode'
  BY <1>1, <1>3, <1>4, SameCells, GraphFacts DEF CodeStands, StandingHaveCode, HasCode, Ir!IsActive
<1>6. ProducersAgree'
  BY <1>1, SameCells DEF CodeStands, ProducersAgree, Agree, Committing, Session!IsValid
<1>7. ProducedAreKnown' /\ DoomedAreInactive'
  BY <1>1 DEF CodeStands, ProducedAreKnown, DoomedAreInactive, Session!Has
<1>8. CallHasCode'
  BY <1>1, <1>3, SameCells DEF CodeStands, CallHasCode, Ir!IsActive
<1> QED BY <1>5, <1>6, <1>7, <1>8 DEF CodeStands

\* The call succeeds.
LEMMA RunCodeInv ==
  ASSUME CodeStands, Run("ok"), UNCHANGED <<cells, epochVars>>
  PROVE  CodeStands'
<1>1. /\ phase = "run" /\ phase' = "done" /\ result' = "ok"
      /\ UNCHANGED <<exec, symtab, fragments, fragProducer, fragDeps, trackers>>
  BY DEF Run, Return, irVars, sessionVars, jitVars
<1>2. StandingHaveCode'
  BY <1>1, SameCells DEF CodeStands, StandingHaveCode, HasCode, Ir!IsActive
<1>3. ProducersAgree'
  BY <1>1, SameCells DEF CodeStands, ProducersAgree, Agree, Committing, Session!IsValid
<1>4. ProducedAreKnown' /\ DoomedAreInactive'
  BY <1>1 DEF CodeStands, ProducedAreKnown, DoomedAreInactive, Session!Has
<1>5. CallHasCode'
  BY <1>1, SameCells DEF CodeStands, CallHasCode, Ir!IsActive
<1> QED BY <1>2, <1>3, <1>4, <1>5 DEF CodeStands

\* Every step of a call keeps the invariant.
LEMMA ExecuteCodeInv ==
  ASSUME ManagersInv, CodeInv, Execute
  PROVE  CodeInv'
<1>0. Step /\ UNCHANGED <<cells, epochVars>> /\ phase # "idle" /\ stale = 0 /\ stale' = 0
  BY StepIsInCall DEF Execute, CodeInv, Settled, epochVars
<1>1. CASE RemoveFails \/ BuildFails \/ AddFails \/ Run("failed")
  <2>1. Return("failed") /\ phase # "analyze"
    BY <1>1 DEF RemoveFails, BuildFails, AddFails, Run
  <2>2. failedLate'
    <3>1. failedLate' = (failedLate \/ TRUE)
      BY <2>1 DEF Return
    <3> QED BY <3>1
  <2> QED BY <1>0, <2>2, FailedCodeInv DEF Settled
<1>2. CASE ~(RemoveFails \/ BuildFails \/ AddFails \/ Run("failed"))
  <2>1. UNCHANGED removalFailed /\ (failedLate' <=> failedLate)
    <3>1. UNCHANGED removalFailed
      BY <1>0, <1>2
      DEF Step, SyntaxError, EndProcess, RejectInvalidated, CheckFails, CheckSucceeds, CommitSymbol,
          Unload, RemoveModule, BuildThrows, Build, AddModule, Run, jitVars
    <3>2. UNCHANGED failedLate \/ \E r : Return(r) /\ (r # "failed" \/ phase = "analyze")
      BY <1>0, <1>2
      DEF Step, SyntaxError, EndProcess, RejectInvalidated, CheckFails, CheckSucceeds, CommitSymbol,
          Unload, RemoveModule, BuildThrows, Build, AddModule, Run
    <3>3. ASSUME NEW r, Return(r), r # "failed" \/ phase = "analyze" PROVE failedLate' <=> failedLate
      <4>1. failedLate' = (failedLate \/ FALSE)
        BY <3>3 DEF Return
      <4> QED BY <4>1
    <3> QED BY <3>1, <3>2, <3>3
  <2>2. Settled'
    BY <1>0, <2>1 DEF CodeInv, Settled
  <2>3. CASE failedLate \/ SyntaxError \/ BuildThrows
    BY <2>1, <2>2, <2>3, FailedCodeInv DEF SyntaxError, BuildThrows, EndProcess
  <2>4. CASE ~failedLate /\ ~SyntaxError /\ ~BuildThrows
    <3>1. phase # "ended"
      BY <1>0 DEF Step, SyntaxError, RejectInvalidated, CheckFails, CheckSucceeds, CommitSymbol,
        Unload, RemoveModule, RemoveFails, BuildFails, BuildThrows, Build, AddModule, AddFails, Run
    <3>2. CodeStands /\ ~removalFailed
      BY <2>4, <3>1 DEF CodeInv, CodeStands, Settled
    <3>3. CodeStands'
      <4>1. CASE RejectInvalidated \/ \E P \in SUBSET exec.unit.declared : CheckFails(P)
        BY <1>0, <3>2, <4>1, RejectCodeInv
      <4>2. CASE CheckSucceeds
        BY <1>0, <3>2, <4>2, CheckSucceedsCodeInv
      <4>3. CASE \E d \in Symbol : CommitSymbol(d)
        BY <1>0, <3>2, <4>3, CommitSymbolCodeInv
      <4>4. CASE Unload
        BY <1>0, <3>2, <4>4, UnloadCodeInv
      <4>5. CASE \E g \in Fragment : RemoveModule(g)
        BY <1>0, <3>2, <4>5, RemoveModuleCodeInv
      <4>6. CASE Build
        BY <1>0, <3>2, <4>6, BuildCodeInv
      <4>7. CASE AddModule
        BY <1>0, <3>2, <4>7, AddModuleCodeInv
      <4>8. CASE \E r \in {"ok", "failed"} : Run(r)
        <5>1. Run("ok")
          BY <1>2, <4>8
        <5> QED BY <1>0, <3>2, <5>1, RunCodeInv
      <4> QED BY <1>0, <1>2, <2>4, <4>1, <4>2, <4>3, <4>4, <4>5, <4>6, <4>7, <4>8 DEF Step
    <3> QED BY <2>2, <3>3 DEF CodeInv, CodeStands
  <2> QED BY <2>3, <2>4
<1> QED BY <1>1, <1>2

\* Opening an epoch for a cell: the epoch that speaks for it stays the same.
LEMMA OpenEpochCodeInv ==
  ASSUME ManagersInv, CodeInv, NEW c \in Cell, NewCell(c, cells'[c].text) \/ RunCell(c)
  PROVE  CodeInv'
<1>1. /\ phase = "idle" /\ phase' = "idle" /\ running = 0 /\ stale = 0
      /\ counter \in Nat /\ counter + 1 \in 1..MaxEpoch
      /\ UNCHANGED <<symtab, fragments, fragProducer, fragDeps, trackers, producer, failedLate,
                     removalFailed>>
  BY EpochsBounded, GraphFacts
  DEF ManagersInv, NewCell, RunCell, Epoch!CreateEpoch, Epoch!NoEpoch, vars, callVars, sessionVars,
      irVars, jitVars, CellInv, CellTypeOK
<1>2. PICK n \in 1..MaxEpoch : n = counter + 1
  BY <1>1
<1>3. /\ Epoch!CreateEpoch(c)
      /\ \A b \in Cell : b # c => cells'[b] = cells[b]
      /\ cells'[c].created /\ cells'[c].valid
  <2>1. \A b \in Cell : cells[b] \in CellRecord
    BY DEF ManagersInv, CellInv, CellTypeOK
  <2>2. CASE NewCell(c, cells'[c].text)
    BY <2>1, <2>2 DEF NewCell, ManagersInv, CellInv, CellTypeOK
  <2>3. CASE RunCell(c)
    BY <2>1, <2>3 DEF RunCell, ManagersInv, CellInv, CellTypeOK, CellRecord, Created
  <2> QED BY <2>2, <2>3
<1>4. /\ running' = n /\ stale' = cellEpoch[c]
      /\ \A b \in Cell : cellEpoch'[b] = IF b = c THEN n ELSE cellEpoch[b]
      /\ \A e \in 1..MaxEpoch : e # n => epochs'[e] = epochs[e] /\ epochDeps'[e] = epochDeps[e]
  BY <1>2, <1>3, GraphFacts
  DEF Epoch!CreateEpoch, Epoch!AssignEpoch, ManagersInv, CellInv, CellTypeOK
<1>5. \A b \in Created : /\ b \in Cell /\ b \in Created' /\ cellEpoch[b] \in 1..MaxEpoch
                         /\ cellEpoch[b] # n
  BY <1>1, <1>2, <1>3, CellFacts DEF ManagersInv, Created, CellInv, CellTypeOK
<1>6. c \notin Created => cellEpoch[c] = 0
  BY DEF ManagersInv, CellInv, EpochOfCell
<1>7. \A b \in Created : EpochFor(b) = cellEpoch[b] /\ EpochFor(b)' = cellEpoch[b]
  BY <1>1, <1>4, <1>5 DEF EpochFor
<1>8. ASSUME ~failedLate, StandingHaveCode PROVE StandingHaveCode'
  <2> SUFFICES ASSUME NEW b \in Cell, Standing(b)'
               PROVE  /\ HasCode(b)'
                      /\ \A g \in fragDeps'[b] : Target(g)' /\ EpochFor(g)' \in epochDeps'[cellEpoch'[b]]
    BY DEF StandingHaveCode
  <2>1. b # c /\ b \in Created
    BY <1>3, <1>4 DEF Standing, Created
  <2>2. Standing(b)
    BY <1>1, <1>3, <1>4, <1>5, <2>1 DEF Standing
  <2>3. HasCode(b) /\ \A g \in fragDeps[b] : Target(g) /\ EpochFor(g) \in epochDeps[cellEpoch[b]]
    BY <1>8, <2>2 DEF StandingHaveCode
  <2>4. \A g : Target(g) => Target(g)'
    BY <1>1, <1>4, <1>5, <1>7 DEF Target
  <2>5. epochDeps'[cellEpoch'[b]] = epochDeps[cellEpoch[b]]
    BY <1>4, <1>5, <2>1
  <2>6. \A g \in fragDeps[b] : EpochFor(g)' = EpochFor(g)
    BY <1>7, <2>3 DEF Target
  <2> QED BY <1>1, <2>3, <2>4, <2>5, <2>6 DEF HasCode, Ir!IsActive
<1>9. ASSUME ProducersAgree PROVE ProducersAgree'
  <2>1. \A u : Agree(u) => Agree(u)'
    BY <1>1, <1>5, <1>7 DEF Agree
  <2> QED BY <1>1, <1>9, <2>1 DEF ProducersAgree, Committing, Session!IsValid
<1>10. ASSUME ProducedAreKnown PROVE ProducedAreKnown'
  BY <1>1, <1>10 DEF ProducedAreKnown, Session!Has
<1>11. DoomedAreInactive' /\ CallHasCode'
  BY <1>1 DEF DoomedAreInactive, CallHasCode
<1>12. Settled'
  BY <1>1 DEF CodeInv, CodeStands, Settled
<1> QED BY <1>1, <1>8, <1>9, <1>10, <1>11, <1>12 DEF CodeInv, CodeStands

\* The old epoch falls with its dependents.  A cell that stays standing
\* depends on none of them; and a symbol that stays valid was produced by
\* none of them, since the symbols of the epochs that fall are withdrawn.
LEMMA InvalidateOldCodeInv ==
  ASSUME ManagersInv, CodeInv, InvalidateOldEpoch
  PROVE  CodeInv'
<1> DEFINE A == Epoch!Affected(stale)
<1>1. /\ phase = "idle" /\ phase' = "idle" /\ stale # 0 /\ stale' = 0 /\ running # 0
      /\ UNCHANGED <<cellEpoch, epochDeps, running, fragments, fragProducer, fragDeps, trackers,
                     failedLate, removalFailed>>
      /\ epochs' = [x \in 1..MaxEpoch |->
                      IF x \in Epoch!Falling(stale) THEN [epochs[x] EXCEPT !.valid = FALSE]
                      ELSE epochs[x]]
      /\ producer' = Epoch!ProducersAfter(stale)
      /\ cells' = [b \in Cell |-> IF b \in FlaggedCells THEN [cells[b] EXCEPT !.valid = FALSE]
                                  ELSE cells[b]]
      /\ Session!InvalidateSymbols(Epoch!Withdrawn(stale))
  BY GraphFacts
  DEF InvalidateOldEpoch, Epoch!InvalidateOld, Epoch!NoEpoch, Epoch!EpochId, callVars, irVars, jitVars
<1>2. stale \in 1..MaxEpoch
  BY <1>1 DEF ManagersInv, CellInv, CellTypeOK
<1>3. /\ A \subseteq 1..MaxEpoch /\ stale \in A
      /\ \A d \in A : epochRdeps[d] \subseteq A
  <2>1. epochRdeps \in [1..MaxEpoch -> SUBSET (1..MaxEpoch)]
    BY GraphFacts
  <2> QED BY <1>2, <2>1 DEF Epoch!Affected, Epoch!Dependents, Epoch!ClosedSets
<1>4. \A e : e \in Epoch!Falling(stale) <=> e \in A /\ epochs[e].valid
  BY DEF Epoch!Falling
<1> HIDE DEF A
<1>5. \A e \in 1..MaxEpoch : epochs[e] \in EpochRecord
  BY DEF ManagersInv, CellInv, CellTypeOK
<1>6. \A e \in 1..MaxEpoch : /\ epochs'[e].valid <=> epochs[e].valid /\ e \notin A
                             /\ epochs'[e].defined = epochs[e].defined
  BY <1>1, <1>4, <1>5 DEF EpochRecord
<1>7. \A b \in Cell : /\ cells'[b].created = cells[b].created
                      /\ cells'[b].valid => cells[b].valid
  <2>1. \A b \in Cell : cells[b] \in CellRecord
    BY DEF ManagersInv, CellInv, CellTypeOK
  <2> QED BY <1>1, <2>1 DEF CellRecord
<1>8. Created' = Created
  BY <1>7 DEF Created
<1>9. \A b \in Created : b \in Cell /\ b \in Fragment /\ cellEpoch[b] \in 1..MaxEpoch
  BY CellFacts DEF ManagersInv, Created
<1>10. \A g : EpochFor(g)' = cellEpoch[g]
  BY <1>1 DEF EpochFor
<1>11. \A g : EpochFor(g) # stale => EpochFor(g) = cellEpoch[g]
  BY DEF EpochFor
<1>12. ASSUME StandingHaveCode PROVE StandingHaveCode'
  <2> SUFFICES ASSUME NEW b \in Cell, Standing(b)'
               PROVE  /\ HasCode(b)'
                      /\ \A g \in fragDeps'[b] : Target(g)' /\ EpochFor(g)' \in epochDeps'[cellEpoch'[b]]
    BY DEF StandingHaveCode
  <2>1. b \in Created /\ cellEpoch[b] # running /\ epochs'[cellEpoch[b]].valid
        /\ (cells'[b].valid \/ epochs'[cellEpoch[b]].defined # {})
    BY <1>1, <1>8 DEF Standing
  <2>2. Standing(b) /\ cellEpoch[b] \notin A
    BY <1>6, <1>7, <1>9, <2>1 DEF Standing
  <2>3. HasCode(b) /\ \A g \in fragDeps[b] : Target(g) /\ EpochFor(g) \in epochDeps[cellEpoch[b]]
    BY <1>12, <2>2 DEF StandingHaveCode
  <2>4. ASSUME NEW g \in fragDeps[b]
        PROVE  Target(g)' /\ EpochFor(g)' \in epochDeps[cellEpoch[b]]
    <3>1. Target(g) /\ EpochFor(g) \in epochDeps[cellEpoch[b]]
      BY <2>3
    <3>2. EpochFor(g) \in 1..MaxEpoch /\ cellEpoch[b] \in epochRdeps[EpochFor(g)]
      BY <1>9, <2>1, <3>1, GraphFacts
    <3>3. EpochFor(g) \notin A
      BY <1>3, <2>2, <3>2
    <3>4. EpochFor(g)' = EpochFor(g)
      BY <1>3, <1>10, <1>11, <3>3
    <3>5. epochs'[EpochFor(g)].valid /\ epochs'[EpochFor(g)].defined = epochs[EpochFor(g)].defined
      BY <1>6, <3>1, <3>2, <3>3 DEF Target
    <3> QED BY <1>1, <1>8, <3>1, <3>4, <3>5 DEF Target
  <2> QED BY <1>1, <2>3, <2>4 DEF HasCode, Ir!IsActive
<1>13. ASSUME ProducersAgree PROVE ProducersAgree'
  <2> SUFFICES ASSUME NEW u \in Symbol, Session!IsValid(u)' PROVE Agree(u)'
    BY <1>1 DEF ProducersAgree, Committing
  <2>1. Session!IsValid(u) /\ u \notin Epoch!Withdrawn(stale)
    <3>1. symtab[u] \in SessionP!Entry
      BY DEF ManagersInv, SymbolInv, SessionP!IInv, SessionP!TypeOK
    <3> QED BY <1>1, <3>1 DEF Session!InvalidateSymbols, Session!Invalidated, Session!IsValid, SessionP!Entry
  <2>2. Agree(u)
    BY <1>1, <1>13, <2>1 DEF ProducersAgree, Committing
  <2>3. SUFFICES ASSUME fragProducer[u] # NoFragment
                 PROVE  fragProducer[u] \in Created /\ producer'[u] = EpochFor(fragProducer[u])'
    BY <1>1, <1>8 DEF Agree
  <2>4. fragProducer[u] \in Created /\ producer[u] = EpochFor(fragProducer[u])
    BY <2>2, <2>3 DEF Agree
  <2>5. producer[u] # 0
    BY <1>1, <1>9, <2>4 DEF EpochFor
  <2>6. epochs[producer[u]].valid /\ u \in epochs[producer[u]].defined
    BY <2>5, GraphFacts
  <2>7. producer[u] \notin Epoch!Falling(stale)
    BY <2>1, <2>6 DEF Epoch!Withdrawn
  <2>8. producer'[u] = producer[u] /\ producer[u] \notin A
    BY <1>1, <1>4, <2>6, <2>7 DEF Epoch!ProducersAfter
  <2>9. producer[u] # stale
    BY <1>3, <2>8
  <2> QED BY <1>1, <1>10, <1>11, <2>4, <2>8, <2>9
<1>14. ASSUME ProducedAreKnown PROVE ProducedAreKnown'
  <2>1. \A u \in Symbol : symtab'[u].version = symtab[u].version
    <3>1. \A u \in Symbol : symtab[u] \in SessionP!Entry
      BY DEF ManagersInv, SymbolInv, SessionP!IInv, SessionP!TypeOK
    <3> QED BY <1>1, <3>1 DEF Session!InvalidateSymbols, Session!Invalidated, SessionP!Entry
  <2> QED BY <1>1, <1>14, <2>1 DEF ProducedAreKnown, Session!Has
<1>15. Settled' /\ DoomedAreInactive' /\ CallHasCode'
  BY <1>1 DEF CodeInv, CodeStands, Settled, DoomedAreInactive, CallHasCode
<1> QED BY <1>1, <1>12, <1>13, <1>14, <1>15 DEF CodeInv, CodeStands

\* The epoch of the cell depends on the producers of the names that the cell
\* uses, and these are the epochs of the cells that its fragment depends on.
LEMMA CellSucceedsCodeInv ==
  ASSUME ManagersInv, CodeInv, CellSucceeds
  PROVE  CodeInv'
<1> DEFINE x == exec.id
<1>1. /\ phase = "done" /\ result = "ok" /\ phase' = "idle" /\ running' = 0 /\ running # 0
      /\ stale = 0 /\ x \in Created /\ x \in Fragment /\ cellEpoch[x] = running
      /\ running \in 1..MaxEpoch /\ exec.unit \in Units
      /\ UNCHANGED <<symtab, fragments, fragProducer, fragDeps, trackers, cells, cellEpoch, stale,
                     failedLate, removalFailed>>
      /\ epochs' = [epochs EXCEPT ![running] =
                      [valid |-> TRUE, cells |-> @.cells \cup {x}, defined |-> exec.unit.defined]]
      /\ epochDeps' = [epochDeps EXCEPT ![running] = Epoch!ProducersOf(exec.unit.used)]
      /\ producer' = [s \in Symbol |-> IF s \in exec.unit.defined THEN running ELSE producer[s]]
  BY CellFacts
  DEF ManagersInv, CellSucceeds, TakeResult, Epoch!CommitEpoch, Epoch!NoEpoch, Epoch!SetDeps,
      sessionVars, irVars, jitVars
<1> HIDE DEF x
<1>2. exec.id = x
  BY DEF x
<1>3. /\ epochs'[running].valid /\ epochs'[running].defined = exec.unit.defined
      /\ epochDeps'[running] = Epoch!ProducersOf(exec.unit.used)
      /\ \A e \in 1..MaxEpoch : e # running => epochs'[e] = epochs[e] /\ epochDeps'[e] = epochDeps[e]
  BY <1>1, GraphFacts DEF ManagersInv, CellInv, CellTypeOK
<1>4. Created' = Created
  BY <1>1 DEF Created
<1>5. /\ \A b \in Created : b \in Fragment /\ cellEpoch[b] \in 1..MaxEpoch /\ cellEpoch[b] # 0
      /\ \A b \in Created : b # x => cellEpoch[b] # running
  BY <1>1, CellFacts DEF ManagersInv
<1>6. \A g : EpochFor(g) = cellEpoch[g] /\ EpochFor(g)' = cellEpoch[g]
  BY <1>1 DEF EpochFor
<1>7. exec.unit.defined \subseteq Symbol /\ exec.unit.used \subseteq Symbol
  BY <1>1, UnitsAreInterfaces
<1>8. ASSUME StandingHaveCode, CallHasCode PROVE StandingHaveCode'
  <2> SUFFICES ASSUME NEW b \in Cell, Standing(b)'
               PROVE  /\ HasCode(b)'
                      /\ \A g \in fragDeps'[b] : Target(g)' /\ EpochFor(g)' \in epochDeps'[cellEpoch'[b]]
    BY DEF StandingHaveCode
  <2>1. b \in Created
    BY <1>4 DEF Standing
  <2>2. CASE b = x
    <3>1. HasCode(x) /\ \A g \in fragDeps[x] :
            g \in Created /\ \E u \in exec.unit.used : producer[u] = EpochFor(g)
      BY <1>1, <1>2, <1>8 DEF CallHasCode, HasCode
    <3>2. ASSUME NEW g \in fragDeps[x]
          PROVE  Target(g)' /\ EpochFor(g)' \in epochDeps'[running]
      <4>1. PICK u \in exec.unit.used : g \in Created /\ producer[u] = cellEpoch[g]
        BY <1>6, <3>1
      <4>2. /\ cellEpoch[g] \in 1..MaxEpoch /\ cellEpoch[g] # 0
            /\ epochs[cellEpoch[g]].valid /\ u \in epochs[cellEpoch[g]].defined
        BY <1>5, <1>7, <4>1, GraphFacts
      <4>3. cellEpoch[g] # running
        BY <1>1, <4>2, GraphFacts
      <4>4. Target(g)'
        BY <1>1, <1>3, <1>4, <1>6, <4>1, <4>2, <4>3 DEF Target
      <4>5. cellEpoch[g] \in Epoch!ProducersOf(exec.unit.used)
        BY <4>1, <4>2, <4>3 DEF Epoch!ProducersOf, Epoch!NoEpoch
      <4> QED BY <1>3, <1>6, <4>4, <4>5
    <3> QED BY <1>1, <2>2, <3>1, <3>2 DEF HasCode, Ir!IsActive
  <2>3. CASE b # x
    <3>1. Standing(b)
      BY <1>1, <1>3, <1>4, <1>5, <2>1, <2>3 DEF Standing
    <3>2. HasCode(b) /\ \A g \in fragDeps[b] : Target(g) /\ EpochFor(g) \in epochDeps[cellEpoch[b]]
      BY <1>8, <3>1 DEF StandingHaveCode
    <3>3. \A g : Target(g) => Target(g)'
      BY <1>1, <1>3, <1>4, <1>5, <1>6 DEF Target
    <3>4. epochDeps'[cellEpoch'[b]] = epochDeps[cellEpoch[b]]
      BY <1>1, <1>3, <1>5, <2>1, <2>3
    <3> QED BY <1>1, <1>6, <3>2, <3>3, <3>4 DEF HasCode, Ir!IsActive
  <2> QED BY <2>2, <2>3
<1>9. ASSUME ProducersAgree, CallHasCode PROVE ProducersAgree'
  <2> SUFFICES ASSUME NEW u \in Symbol, Session!IsValid(u) PROVE Agree(u)'
    BY <1>1 DEF ProducersAgree, Committing, Session!IsValid
  <2>1. CASE u \in exec.unit.defined
    <3>1. fragProducer[u] = x /\ producer'[u] = running
      BY <1>1, <1>2, <1>9, <2>1 DEF CallHasCode
    <3> QED BY <1>1, <1>4, <1>6, <3>1 DEF Agree
  <2>2. CASE u \notin exec.unit.defined
    <3>1. Agree(u) /\ producer'[u] = producer[u]
      BY <1>1, <1>9, <2>2 DEF ProducersAgree
    <3> QED BY <1>1, <1>4, <1>6, <3>1 DEF Agree
  <2> QED BY <2>1, <2>2
<1>10. ASSUME ProducedAreKnown PROVE ProducedAreKnown'
  BY <1>1, <1>10 DEF ProducedAreKnown, Session!Has
<1>11. Settled' /\ DoomedAreInactive' /\ CallHasCode'
  BY <1>1 DEF CodeInv, CodeStands, Settled, DoomedAreInactive, CallHasCode
<1> QED BY <1>1, <1>8, <1>9, <1>10, <1>11 DEF CodeInv, CodeStands

\* A call that failed before it committed anything leaves an epoch that defines
\* nothing and a cell that is flagged.
LEMMA CellFailsCodeInv ==
  ASSUME ManagersInv, CodeInv, CellFails
  PROVE  CodeInv'
<1> DEFINE x == exec.id
<1>1. /\ phase = "done" /\ result = "failed" /\ phase' = "idle" /\ running' = 0 /\ running # 0
      /\ stale = 0 /\ x \in Created /\ x \in Fragment /\ cellEpoch[x] = running
      /\ UNCHANGED <<symtab, fragments, fragProducer, fragDeps, trackers, epochs, epochDeps, producer,
                     cellEpoch, stale, failedLate, removalFailed>>
      /\ cells' = [cells EXCEPT ![x].valid = FALSE]
  BY CellFacts
  DEF ManagersInv, CellFails, TakeResult, Epoch!AbandonEpoch, Epoch!NoEpoch,
      sessionVars, irVars, jitVars
<1> HIDE DEF x
<1>2. \A b \in Cell : /\ cells'[b].created = cells[b].created
                      /\ cells'[b].valid => cells[b].valid /\ b # x
  <2>1. \A b \in Cell : cells[b] \in CellRecord
    BY DEF ManagersInv, CellInv, CellTypeOK
  <2>2. \A b \in Cell : cells'[b] = IF b = x THEN [cells[b] EXCEPT !.valid = FALSE] ELSE cells[b]
    BY <1>1 DEF ManagersInv, CellInv, CellTypeOK
  <2> QED BY <2>1, <2>2 DEF CellRecord
<1>3. Created' = Created
  BY <1>2 DEF Created
<1>4. \A b \in Created : cellEpoch[b] # 0 /\ (b # x => cellEpoch[b] # running)
  BY <1>1, CellFacts DEF ManagersInv
<1>5. \A g : EpochFor(g)' = EpochFor(g)
  BY <1>1 DEF EpochFor
<1>6. epochs[running].defined = {}
  BY <1>1, GraphFacts
<1>7. ASSUME StandingHaveCode PROVE StandingHaveCode'
  <2>1. \A b \in Cell : Standing(b)' => Standing(b)
    <3> SUFFICES ASSUME NEW b \in Cell, Standing(b)' PROVE Standing(b)
      OBVIOUS
    <3>1. /\ b \in Created /\ epochs[cellEpoch[b]].valid
          /\ cells'[b].valid \/ epochs[cellEpoch[b]].defined # {}
      BY <1>1, <1>3 DEF Standing
    <3>2. b # x
      BY <1>1, <1>2, <1>6, <3>1
    <3> QED BY <1>2, <1>4, <3>1, <3>2 DEF Standing
  <2>2. \A g : Target(g) => Target(g)'
    BY <1>1, <1>3, <1>4, <1>5 DEF Target, EpochFor
  <2> QED BY <1>1, <1>5, <1>7, <2>1, <2>2 DEF StandingHaveCode, HasCode, Ir!IsActive
<1>8. ASSUME ProducersAgree PROVE ProducersAgree'
  BY <1>1, <1>3, <1>5, <1>8 DEF ProducersAgree, Agree, Committing, Session!IsValid
<1>9. ASSUME ProducedAreKnown PROVE ProducedAreKnown'
  BY <1>1, <1>9 DEF ProducedAreKnown, Session!Has
<1>10. Settled' /\ DoomedAreInactive' /\ CallHasCode'
  BY <1>1 DEF CodeInv, CodeStands, Settled, DoomedAreInactive, CallHasCode
<1> QED BY <1>1, <1>7, <1>8, <1>9, <1>10 DEF CodeInv, CodeStands

\* A notebook without cells and without symbols.
NothingBuilt ==
  /\ Created = {} /\ fragProducer = [s \in Symbol |-> NoFragment]
  /\ phase = "idle" /\ removalFailed = FALSE

\* There is nothing that its code could disagree with.
LEMMA EmptyCodeInv == NothingBuilt => CodeInv
<1> SUFFICES ASSUME NothingBuilt PROVE CodeInv
  OBVIOUS
<1>1. \A u \in Symbol : fragProducer[u] = NoFragment
  BY DEF NothingBuilt
<1>2. StandingHaveCode
  BY DEF NothingBuilt, StandingHaveCode, Standing
<1> QED BY <1>1, <1>2 DEF NothingBuilt, CodeInv, CodeStands, Settled, ProducersAgree, Agree, ProducedAreKnown,
                          DoomedAreInactive, CallHasCode

\* Every step of the notebook keeps the invariant.
LEMMA NextCodeInv == ManagersInv /\ CodeInv /\ [NotebookNext]_notebookVars => CodeInv'
<1> SUFFICES ASSUME ManagersInv, CodeInv, [NotebookNext]_notebookVars PROVE CodeInv'
  OBVIOUS
<1>1. ASSUME NEW c \in Cell, RunCell(c) \/ \E u \in Units : NewCell(c, u) PROVE CodeInv'
  <2>1. NewCell(c, cells'[c].text) \/ RunCell(c)
    <3> SUFFICES ASSUME NEW u \in Units, NewCell(c, u) PROVE NewCell(c, cells'[c].text)
      BY <1>1
    <3>1. cells'[c].text = u
      BY DEF NewCell, ManagersInv, CellInv, CellTypeOK
    <3> QED BY <3>1
  <2> QED BY <2>1, OpenEpochCodeInv
<1>2. CASE InvalidateOldEpoch
  BY <1>2, InvalidateOldCodeInv
<1>3. CASE ExecuteText \/ UNCHANGED notebookVars
  <2>1. /\ UNCHANGED <<cells, epochVars, symtab, fragments, fragProducer, fragDeps, trackers,
                       failedLate, removalFailed>>
        /\ \/ phase = "idle" /\ phase' = "analyze" /\ stale = 0 /\ stale' = 0
           \/ UNCHANGED <<phase, exec, result, pending, doomed, stale>>
    BY <1>3 DEF ExecuteText, Submit, notebookVars, vars, epochVars, sessionVars, irVars, jitVars, callVars
  <2>2. ASSUME StandingHaveCode PROVE StandingHaveCode'
    BY <2>1, <2>2, SameCells DEF StandingHaveCode, HasCode, Ir!IsActive
  <2>3. ASSUME ProducersAgree PROVE ProducersAgree'
    BY <2>1, <2>3, SameCells DEF ProducersAgree, Agree, Committing, Session!IsValid
  <2>4. ASSUME ProducedAreKnown PROVE ProducedAreKnown'
    BY <2>1, <2>4 DEF ProducedAreKnown, Session!Has
  <2>5. ASSUME DoomedAreInactive, CallHasCode PROVE DoomedAreInactive' /\ CallHasCode'
    BY <2>1, <2>5, SameCells DEF DoomedAreInactive, CallHasCode, Ir!IsActive
  <2>6. Settled'
    BY <2>1 DEF CodeInv, CodeStands, Settled
  <2>7. ~failedLate' /\ phase' # "ended" => ~failedLate /\ phase # "ended"
    BY <2>1
  <2> QED BY <2>2, <2>3, <2>4, <2>5, <2>6, <2>7 DEF CodeInv, CodeStands
<1>4. CASE Execute
  BY <1>4, ExecuteCodeInv
<1>5. CASE CellSucceeds
  BY <1>5, CellSucceedsCodeInv
<1>6. CASE CellFails
  BY <1>6, CellFailsCodeInv
<1>7. CASE ResetSession
  <2>1. NothingBuilt'
    BY <1>7 DEF ResetSession, ResetEngine, Ir!Reset, callVars, NothingBuilt, Created, NoCell
  <2> QED BY <2>1, EmptyCodeInv, PTL
<1> QED BY <1>1, <1>2, <1>3, <1>4, <1>5, <1>6, <1>7 DEF NotebookNext

\* The managers, together.
LEMMA ManagersInvariant == NotebookSpec => []ManagersInv
BY NotebookInvariant, SymbolInvariant, NotebookKeepsManagers, PTL DEF ManagersInv

\* The code of the cells, in every run.
LEMMA CodeInvariant == NotebookSpec => []CodeInv
<1>1. NotebookInit => CodeInv
  <2>1. NotebookInit => NothingBuilt
    BY DEF NotebookInit, Init, Ir!Init, NothingBuilt, Created, NoCell
  <2> QED BY <2>1, EmptyCodeInv
<1> QED BY <1>1, NextCodeInv, ManagersInvariant, PTL DEF NotebookSpec

\* Unless a call has failed after it committed its symbols, every cell that is
\* shown as valid has its code in the JIT: its fragment is active and its module
\* is loaded.  The flags are set from the epochs and the modules are unloaded
\* along the fragments, two graphs that the code never compares
\* (Notebook::execute_cell, InteractiveOrchestrator::execute).
THEOREM NotebookLoadedUnlessFailedLate == NotebookSpec => []LoadedUnlessFailedLate
<1>1. ManagersInv /\ CodeInv => LoadedUnlessFailedLate
  <2> SUFFICES ASSUME ManagersInv, CodeInv, Quiet, ~failedLate, NEW c \in Created, cells[c].valid
               PROVE  HasCode(c)
    BY DEF LoadedUnlessFailedLate
  <2>1. c \in Cell /\ cellEpoch[c] # running
    BY CellFacts DEF ManagersInv, Quiet, Created
  <2>2. epochs[cellEpoch[c]].valid
    BY <2>1 DEF ManagersInv, CellInv, Backed
  <2>3. Standing(c)
    BY <2>1, <2>2 DEF Standing
  <2> QED BY <2>1, <2>3 DEF CodeInv, CodeStands, StandingHaveCode, Quiet
<1> QED BY <1>1, CodeInvariant, ManagersInvariant, PTL

------------------------------------------------------------------------------
(* The code behind the symbols *)

\* The builder has a producer for every valid symbol, but for those that the
\* call under way has committed and not built yet.
ValidAreProduced ==
  \A u \in Symbol :
    Session!IsValid(u) /\ ~(Committing /\ u \in exec.unit.defined) => fragProducer[u] # NoFragment

ProducedInv == ~failedLate /\ phase # "ended" => ValidAreProduced

\* The producer of a symbol on which the two maps agree is a standing cell.
LEMMA ProducerStands ==
  ASSUME ManagersInv, stale = 0, NEW u \in Symbol, fragProducer[u] # NoFragment, Agree(u)
  PROVE  Standing(fragProducer[u])
<1> DEFINE g == fragProducer[u]
<1>1. g \in Created /\ producer[u] = cellEpoch[g] /\ cellEpoch[g] # 0
  BY CellFacts DEF Agree, EpochFor, ManagersInv
<1>2. epochs[cellEpoch[g]].valid /\ u \in epochs[cellEpoch[g]].defined
  BY <1>1, GraphFacts
<1>3. cellEpoch[g] # running
  BY <1>1, <1>2, GraphFacts
<1> QED BY <1>1, <1>2, <1>3 DEF Standing

\* Unloading the previous fragment of the cell leaves every other valid symbol
\* its producer.
LEMMA UnloadKeepsProduced ==
  ASSUME ManagersInv, CodeStands, stale = 0, ValidAreProduced, Unload
  PROVE  ValidAreProduced'
<1>1. phase = "unload" /\ Committing /\ Committing' /\ UNCHANGED <<exec, symtab>>
      /\ (UNCHANGED fragProducer \/ fragProducer' = Ir!ProducersAfter(exec.id))
  BY DEF Unload, Committing, sessionVars, irVars, Ir!InvalidateFragment
<1> SUFFICES ASSUME NEW u \in Symbol, Session!IsValid(u), u \notin exec.unit.defined
             PROVE  fragProducer'[u] # NoFragment
  BY <1>1 DEF ValidAreProduced, Session!IsValid
<1>2. fragProducer[u] # NoFragment /\ Agree(u)
  BY DEF ValidAreProduced, CodeStands, ProducersAgree
<1>3. fragProducer[u] \in Fragment /\ Standing(fragProducer[u])
  BY <1>2, ProducerStands, GraphFacts
<1>4. fragProducer[u] \notin Ir!InvalidatedFragments(exec.id)
  BY <1>1, <1>3, UnloadSparesStanding
<1>5. fragProducer[u] \notin Ir!Deactivating(exec.id)
  BY <1>4 DEF Ir!Deactivating
<1> QED BY <1>1, <1>2, <1>5 DEF Ir!ProducersAfter

\* A step of a call makes no symbol valid but those of its unit, and takes the
\* producer of none of the others away.
LEMMA ExecuteProducedInv ==
  ASSUME ManagersInv, CodeInv, ProducedInv, Execute, ~failedLate', phase' # "ended"
  PROVE  ValidAreProduced'
<1>1. Step /\ phase # "idle" /\ stale = 0
  BY StepIsInCall DEF Execute, CodeInv, Settled
<1>2. ~failedLate /\ phase # "ended"
  <2>1. phase # "ended" /\ (UNCHANGED failedLate \/ \E r : Return(r))
    BY <1>1
    DEF Step, SyntaxError, EndProcess, RejectInvalidated, CheckFails, CheckSucceeds, CommitSymbol,
        Unload, RemoveModule, RemoveFails, BuildFails, BuildThrows, Build, AddModule, AddFails, Run
  <2>2. ASSUME NEW r, Return(r) PROVE ~failedLate
    <3>1. failedLate' = (failedLate \/ (r = "failed" /\ phase # "analyze"))
      BY <2>2 DEF Return
    <3> QED BY <3>1
  <2> QED BY <2>1, <2>2
<1>3. ValidAreProduced /\ CodeStands
  BY <1>2 DEF ProducedInv, CodeInv
<1>4. ASSUME NEW d \in Symbol, CommitSymbol(d) PROVE ValidAreProduced'
  <2>1. /\ phase = "commit" /\ phase' \in {"commit", "unload"} /\ UNCHANGED <<exec, fragProducer>>
        /\ Session!CommitSymbol(d)
    BY <1>4 DEF CommitSymbol, irVars
  <2>2. d \in exec.unit.defined
    BY <1>3, <2>1, CommitKeepsNames DEF ManagersInv, SymbolInv, CodeStands, ProducedAreKnown
  <2>3. \A s \in Symbol : s # d /\ Session!IsValid(s)' => Session!IsValid(s)
    BY <2>1, CommitMakesValid DEF ManagersInv, SymbolInv
  <2> QED BY <1>3, <2>1, <2>2, <2>3 DEF ValidAreProduced, Committing
<1>5. CASE Unload
  BY <1>1, <1>3, <1>5, UnloadKeepsProduced
<1>6. CASE Build
  <2>1. /\ phase = "remove" /\ phase' = "add" /\ UNCHANGED <<exec, symtab>> /\ exec.id # NoFragment
        /\ fragProducer' = [s \in Symbol |-> IF s \in exec.unit.defined THEN exec.id
                                             ELSE fragProducer[s]]
    BY <1>1, <1>6, CellFacts, NoFragmentIsNoUnit
    DEF ManagersInv, Build, Ir!BuildFragment, sessionVars
  <2> QED BY <1>3, <2>1 DEF ValidAreProduced, Committing, Session!IsValid
<1>7. CASE /\ ~Unload /\ ~Build /\ ~\E d \in Symbol : CommitSymbol(d)
  <2>1. UNCHANGED <<symtab, fragProducer, exec>> /\ (Committing => Committing')
    BY <1>1, <1>2, <1>7
    DEF Step, SyntaxError, EndProcess, RejectInvalidated, CheckFails, CheckSucceeds, RemoveModule,
        RemoveFails, BuildFails, BuildThrows, AddModule, AddFails, Run, Return, Committing,
        sessionVars, irVars, Session!BeginUnit, Session!tableVars
  <2> QED BY <1>3, <2>1 DEF ValidAreProduced, Session!IsValid
<1> QED BY <1>4, <1>5, <1>6, <1>7

\* Every step of the notebook keeps the producers of the valid symbols.
LEMMA NextProducedInv ==
  ManagersInv /\ CodeInv /\ ProducedInv /\ [NotebookNext]_notebookVars => ProducedInv'
<1> SUFFICES ASSUME ManagersInv, CodeInv, ProducedInv, [NotebookNext]_notebookVars,
                    ~failedLate', phase' # "ended"
             PROVE  ValidAreProduced'
  BY DEF ProducedInv
<1>1. CASE Execute
  BY <1>1, ExecuteProducedInv
<1>2. CASE InvalidateOldEpoch
  <2>1. /\ UNCHANGED <<fragProducer, exec, failedLate, phase, result>>
        /\ Session!InvalidateSymbols(Epoch!Withdrawn(stale))
    BY <1>2 DEF InvalidateOldEpoch, irVars, callVars
  <2>2. ASSUME NEW u \in Symbol, Session!IsValid(u)' PROVE Session!IsValid(u)
    <3>1. symtab[u] \in SessionP!Entry
      BY DEF ManagersInv, SymbolInv, SessionP!IInv, SessionP!TypeOK
    <3> QED BY <2>1, <2>2, <3>1
            DEF Session!InvalidateSymbols, Session!Invalidated, Session!IsValid, SessionP!Entry
  <2> QED BY <2>1, <2>2 DEF ProducedInv, ValidAreProduced, Committing
<1>3. CASE CellSucceeds
  <2>1. /\ UNCHANGED <<symtab, fragProducer, failedLate>> /\ phase = "done" /\ result = "ok"
        /\ exec.id # NoFragment
    BY <1>3, CellFacts, NoFragmentIsNoUnit
    DEF CellSucceeds, TakeResult, sessionVars, irVars, ManagersInv
  <2>2. ValidAreProduced /\ \A u \in exec.unit.defined : fragProducer[u] = exec.id
    BY <2>1 DEF ProducedInv, CodeInv, CodeStands, CallHasCode
  <2> QED BY <2>1, <2>2 DEF ValidAreProduced, Session!IsValid
<1>4. CASE CellFails
  <2>1. UNCHANGED <<symtab, fragProducer, failedLate>> /\ phase = "done" /\ result = "failed"
    BY <1>4 DEF CellFails, TakeResult, sessionVars, irVars
  <2> QED BY <2>1 DEF ProducedInv, ValidAreProduced, Committing, Session!IsValid
<1>5. CASE \/ \E c \in Cell : RunCell(c) \/ \E u \in Units : NewCell(c, u)
           \/ ExecuteText \/ UNCHANGED notebookVars
  <2>1. /\ UNCHANGED <<symtab, fragProducer, failedLate, result>>
        /\ phase = "idle" \/ UNCHANGED <<phase, exec>>
    BY <1>5 DEF RunCell, NewCell, ExecuteText, Submit, notebookVars, vars, sessionVars, irVars, callVars
  <2> QED BY <2>1 DEF ProducedInv, ValidAreProduced, Committing, Session!IsValid
<1>6. CASE ResetSession
  <2>1. symtab' = [s \in Symbol |-> [valid |-> FALSE, version |-> 0]]
    BY <1>6 DEF ResetSession, ResetEngine, Session!Reset, Session!Absent
  <2> QED BY <2>1 DEF ValidAreProduced, Session!IsValid
<1> QED BY <1>1, <1>2, <1>3, <1>4, <1>5, <1>6 DEF NotebookNext

\* Unless a call has failed after it committed its symbols, a symbol that the
\* session reports valid is defined by a cell whose code is in the JIT: cells
\* that are executed again, and all that is unloaded with them, take their
\* symbols along (Notebook::execute_cell, InteractiveOrchestrator::execute).
THEOREM NotebookValidSymbolsLoaded == NotebookSpec => []ValidSymbolsLoaded
<1>1. NotebookInit => ProducedInv
  <2>1. NotebookInit => symtab = [s \in Symbol |-> [valid |-> FALSE, version |-> 0]]
    BY DEF NotebookInit, Init, Session!Init, Session!Absent
  <2> QED BY <2>1 DEF ProducedInv, ValidAreProduced, Session!IsValid
<1>2. ManagersInv /\ CodeInv /\ ProducedInv => ValidSymbolsLoaded
  <2> SUFFICES ASSUME ManagersInv, CodeInv, ProducedInv, Quiet, ~failedLate,
                      NEW s \in Symbol, Session!IsValid(s)
               PROVE  \E c \in Created : HasCode(c) /\ s \in fragments[c].defined
    BY DEF ValidSymbolsLoaded
  <2>1. fragProducer[s] # NoFragment /\ Agree(s) /\ stale = 0
    BY GraphFacts
    DEF ProducedInv, ValidAreProduced, CodeInv, CodeStands, ProducersAgree, Committing, Quiet
  <2>2. Standing(fragProducer[s])
    BY <2>1, ProducerStands
  <2>3. fragProducer[s] \in Created /\ fragProducer[s] \in Cell
    BY <2>2 DEF Standing, Created
  <2>4. HasCode(fragProducer[s])
    BY <2>2, <2>3 DEF CodeInv, CodeStands, StandingHaveCode, Quiet
  <2>5. s \in fragments[fragProducer[s]].defined
    BY <2>1 DEF ManagersInv, IrP!IInv, IrP!ProducerActive
  <2> QED BY <2>3, <2>4, <2>5
<1> QED BY <1>1, <1>2, NextProducedInv, CodeInvariant, ManagersInvariant, PTL DEF NotebookSpec

------------------------------------------------------------------------------
(* The flags of cells that were executed again *)

\* Only cells that exist are listed; a cell that is shown as valid is listed by
\* its current epoch only, except while its old epoch is about to fall, and that
\* one lists it.
FlagInv ==
  /\ \A e \in 1..MaxEpoch : epochs[e].cells \subseteq Created
  /\ \A c \in Created, e \in 1..MaxEpoch :
       cells[c].valid /\ c \in epochs[e].cells =>
         e = cellEpoch[c] \/ (stale # 0 /\ cellEpoch[c] = running)
  /\ stale # 0 => \A c \in Created : cellEpoch[c] = running => c \in epochs[stale].cells

\* Opening an epoch sets the flag of a cell that older epochs list, too: either
\* the cell is new, or its last epoch lists it and is about to fall.
LEMMA OpenEpochFlagInv ==
  ASSUME CellInv, FlagInv, NEW c \in Cell, NewCell(c, cells'[c].text) \/ RunCell(c)
  PROVE  FlagInv'
<1>1. Epoch!CreateEpoch(c) /\ running = 0 /\ counter \in Nat /\ counter + 1 \in 1..MaxEpoch
  BY EpochsBounded DEF NewCell, RunCell, Epoch!CreateEpoch, Epoch!NoEpoch, CellInv, CellTypeOK
<1>2. PICK n \in 1..MaxEpoch : n = counter + 1
  BY <1>1
<1>3. /\ \A b \in Cell : b # c => cells'[b] = cells[b]
      /\ cells'[c].created
  <2>1. \A b \in Cell : cells[b] \in CellRecord
    BY DEF CellInv, CellTypeOK
  <2>2. CASE NewCell(c, cells'[c].text)
    BY <2>1, <2>2 DEF NewCell, CellInv, CellTypeOK
  <2>3. CASE RunCell(c)
    BY <2>1, <2>3 DEF RunCell, CellInv, CellTypeOK, CellRecord, Created
  <2> QED BY <2>2, <2>3
<1>4. /\ running' = n /\ stale' = cellEpoch[c] /\ epochs'[n].cells = {c}
      /\ \A b \in Cell : cellEpoch'[b] = IF b = c THEN n ELSE cellEpoch[b]
      /\ \A e \in 1..MaxEpoch : e # n => epochs'[e] = epochs[e]
  BY <1>1, <1>2 DEF Epoch!CreateEpoch, Epoch!AssignEpoch, CellInv, CellTypeOK
<1>5. Created' = Created \cup {c}
  BY <1>3 DEF Created
<1>6. \A b \in Created : /\ b \in Cell /\ cellEpoch[b] \in 1..MaxEpoch /\ cellEpoch[b] # n
                         /\ b \in epochs[cellEpoch[b]].cells
  BY <1>1, <1>2, CellFacts DEF CellInv, CellTypeOK, EpochOfCell, Created
<1>7. c \notin Created => cellEpoch[c] = 0
  BY DEF CellInv, EpochOfCell
<1>8. \A e \in 1..MaxEpoch : epochs'[e].cells \subseteq Created'
  BY <1>4, <1>5 DEF FlagInv
<1>9. ASSUME NEW b \in Created', NEW e \in 1..MaxEpoch, cells'[b].valid, b \in epochs'[e].cells
      PROVE  e = cellEpoch'[b] \/ (stale' # 0 /\ cellEpoch'[b] = running')
  <2>1. CASE b = c
    <3>1. e = n \/ c \in Created
      BY <1>4, <1>9, <2>1 DEF FlagInv
    <3>2. c \in Created => cellEpoch[c] # 0
      BY <1>6
    <3> QED BY <1>4, <2>1, <3>1, <3>2
  <2>2. CASE b # c
    <3>1. b \in Created /\ cells[b].valid /\ b \in Cell
      BY <1>3, <1>5, <1>6, <1>9, <2>2
    <3>2. e # n /\ b \in epochs[e].cells
      BY <1>4, <1>9, <2>2
    <3>3. e = cellEpoch[b] \/ cellEpoch[b] = running
      BY <3>1, <3>2 DEF FlagInv
    <3> QED BY <1>1, <1>4, <1>6, <2>2, <3>1, <3>3
  <2> QED BY <2>1, <2>2
<1>10. ASSUME stale' # 0, NEW b \in Created', cellEpoch'[b] = running'
       PROVE  b \in epochs'[stale'].cells
  <2>1. b = c
    BY <1>4, <1>5, <1>6, <1>10
  <2>2. c \in Created
    BY <1>4, <1>7, <1>10
  <2> QED BY <1>4, <1>6, <2>1, <2>2
<1> QED BY <1>8, <1>9, <1>10 DEF FlagInv

\* The cells that the old epoch lists are flagged, and the cell whose execution
\* made it fall is one of them.
LEMMA InvalidateOldFlagInv ==
  ASSUME CellInv, FlagInv, InvalidateOldEpoch
  PROVE  FlagInv'
<1>1. /\ stale # 0 /\ stale' = 0 /\ UNCHANGED <<cellEpoch, running>> /\ stale \in 1..MaxEpoch
      /\ epochs' = [x \in 1..MaxEpoch |->
                      IF x \in Epoch!Falling(stale) THEN [epochs[x] EXCEPT !.valid = FALSE]
                      ELSE epochs[x]]
      /\ cells' = [b \in Cell |-> IF b \in FlaggedCells THEN [cells[b] EXCEPT !.valid = FALSE]
                                  ELSE cells[b]]
  BY DEF InvalidateOldEpoch, Epoch!InvalidateOld, Epoch!NoEpoch, Epoch!EpochId, CellInv, CellTypeOK
<1>2. \A e \in 1..MaxEpoch : epochs'[e].cells = epochs[e].cells
  <2>1. \A e \in 1..MaxEpoch : epochs[e] \in EpochRecord
    BY DEF CellInv, CellTypeOK
  <2> QED BY <1>1, <2>1 DEF EpochRecord
<1>3. \A b \in Cell : /\ cells'[b].created = cells[b].created
                      /\ cells'[b].valid => cells[b].valid /\ b \notin FlaggedCells
  <2>1. \A b \in Cell : cells[b] \in CellRecord
    BY DEF CellInv, CellTypeOK
  <2> QED BY <1>1, <2>1 DEF CellRecord
<1>4. Created' = Created /\ Created \subseteq Cell
  BY <1>3 DEF Created
<1>5. epochs[stale].cells \subseteq FlaggedCells
  BY DEF FlaggedCells, Epoch!Affected
<1>6. ASSUME NEW b \in Created, NEW e \in 1..MaxEpoch, cells'[b].valid, b \in epochs[e].cells
      PROVE  e = cellEpoch[b]
  <2>1. cells[b].valid /\ b \notin epochs[stale].cells
    BY <1>3, <1>4, <1>5, <1>6
  <2>2. cellEpoch[b] # running
    BY <1>1, <2>1 DEF FlagInv
  <2> QED BY <1>6, <2>1, <2>2 DEF FlagInv
<1> QED BY <1>1, <1>2, <1>4, <1>6 DEF FlagInv

\* The epoch that is committed is the current one of the cell it lists.
LEMMA CellSucceedsFlagInv ==
  ASSUME CellInv, FlagInv, CellSucceeds
  PROVE  FlagInv'
<1> DEFINE x == exec.id
<1>1. /\ x \in Created /\ cellEpoch[x] = running /\ running \in 1..MaxEpoch /\ stale = 0
      /\ UNCHANGED <<cells, cellEpoch, stale>>
      /\ epochs' = [epochs EXCEPT ![running] =
                      [valid |-> TRUE, cells |-> @.cells \cup {x}, defined |-> exec.unit.defined]]
  BY CellFacts DEF CellSucceeds, TakeResult, Epoch!CommitEpoch, Epoch!NoEpoch
<1> HIDE DEF x
<1>2. \A e \in 1..MaxEpoch : epochs'[e].cells = IF e = running THEN epochs[e].cells \cup {x}
                                                ELSE epochs[e].cells
  BY <1>1 DEF CellInv, CellTypeOK
<1>3. Created' = Created
  BY <1>1 DEF Created
<1> QED BY <1>1, <1>2, <1>3 DEF FlagInv

\* Every step of the notebook keeps the invariant.
LEMMA NextFlagInv == CellInv /\ FlagInv /\ [NotebookNext]_notebookVars => FlagInv'
<1> SUFFICES ASSUME CellInv, FlagInv, [NotebookNext]_notebookVars PROVE FlagInv'
  OBVIOUS
<1>1. ASSUME NEW c \in Cell, RunCell(c) \/ \E u \in Units : NewCell(c, u) PROVE FlagInv'
  <2>1. NewCell(c, cells'[c].text) \/ RunCell(c)
    BY <1>1 DEF NewCell, CellInv, CellTypeOK
  <2> QED BY <2>1, OpenEpochFlagInv
<1>2. CASE InvalidateOldEpoch
  BY <1>2, InvalidateOldFlagInv
<1>3. CASE ExecuteText \/ Execute \/ UNCHANGED notebookVars
  <2>1. UNCHANGED <<cells, epochs, cellEpoch, stale, running>>
    BY <1>3 DEF ExecuteText, Execute, notebookVars, epochVars
  <2> QED BY <2>1 DEF FlagInv, Created
<1>4. CASE CellSucceeds
  BY <1>4, CellSucceedsFlagInv
<1>5. CASE CellFails
  <2>1. /\ UNCHANGED <<epochs, cellEpoch, stale>> /\ stale = 0
        /\ cells' = [cells EXCEPT ![exec.id].valid = FALSE]
    BY <1>5 DEF CellFails, Epoch!AbandonEpoch, Epoch!NoEpoch
  <2>2. \A b \in Cell : /\ cells'[b].created = cells[b].created
                        /\ cells'[b].valid => cells[b].valid
    <3>1. \A b \in Cell : cells[b] \in CellRecord
      BY DEF CellInv, CellTypeOK
    <3>2. \A b \in Cell : cells'[b] = IF b = exec.id THEN [cells[b] EXCEPT !.valid = FALSE] ELSE cells[b]
      BY <2>1 DEF CellInv, CellTypeOK
    <3> QED BY <3>1, <3>2 DEF CellRecord
  <2>3. Created' = Created /\ Created \subseteq Cell
    BY <2>2 DEF Created
  <2> QED BY <2>1, <2>2, <2>3 DEF FlagInv
<1>6. CASE ResetSession
  <2>1. /\ cells' = [c \in Cell |-> NoCell] /\ epochs' = [e \in 1..MaxEpoch |-> Epoch!Blank]
        /\ stale' = stale /\ running = 0 /\ running' = running
    BY <1>6 DEF ResetSession, Epoch!Reset, Epoch!EpochId, Epoch!NoEpoch
  <2>2. Created' = {} /\ \A e \in 1..MaxEpoch : epochs'[e].cells = {}
    BY <2>1 DEF Created, NoCell, Epoch!Blank
  <2> QED BY <2>2 DEF FlagInv
<1> QED BY <1>1, <1>2, <1>3, <1>4, <1>5, <1>6 DEF NotebookNext

\* The flags, in every run.
LEMMA FlagInvariant == NotebookSpec => []FlagInv
<1>1. NotebookInit => FlagInv
  BY DEF NotebookInit, Epoch!Init, Epoch!EpochId, Epoch!Blank, Epoch!NoEpoch, FlagInv, Created, NoCell
<1> QED BY <1>1, NextFlagInv, NotebookInvariant, PTL DEF NotebookSpec

\* A cell that is shown as valid is backed by its last epoch, which is valid
\* and has the interface of the cell, and by no other, whatever was executed
\* again, failed or fell with another cell in between (Notebook::execute_cell).
THEOREM NotebookShownValidIsLive == NotebookSpec => []ShownValidIsLive
<1>1. ManagersInv /\ FlagInv => ShownValidIsLive
  BY GraphFacts
  DEF ManagersInv, CellInv, FlagInv, EpochOfCell, Backed, ShownValidIsLive, Quiet, Epoch!EpochId
<1> QED BY <1>1, FlagInvariant, ManagersInvariant, PTL

------------------------------------------------------------------------------
(* What the managers assume of their caller *)

\* The calls that the notebook makes find the managers in the states in which
\* these may be called; neither side checks it.
CalledInOrder ==
  /\ phase \in {"idle", "analyze"} => pending = {}
  /\ phase = "commit" => pending # {}
  /\ phase = "unload" /\ Ir!IsActive(exec.id) => fragments[exec.id].built
  /\ phase = "remove" /\ doomed = {} => ~Ir!IsActive(exec.id)
  /\ phase = "done" => running # 0 /\ stale = 0 /\ cellEpoch[exec.id] = running

OrderInv ==
  /\ phase = "commit" <=> pending # {}
  /\ \A f \in Fragment : fragments[f].active => fragments[f].built
  /\ phase = "remove" => ~fragments[exec.id].active

\* Unloading makes the fragment of the call inactive.
LEMMA UnloadOrderInv ==
  ASSUME LoadInv, OrderInv, Unload
  PROVE  OrderInv'
<1>1. /\ phase = "unload" /\ phase' = "remove" /\ UNCHANGED <<exec, pending>> /\ exec.id \in Fragment
      /\ \A f \in Fragment : fragments[f] \in FragmentRecord
  BY DEF Unload, sessionVars, LoadInv, LoadTypeOK
<1>2. CASE Ir!IsActive(exec.id)
  <2>1. fragments' = [g \in Fragment |->
              IF g \in Ir!Deactivating(exec.id) THEN [fragments[g] EXCEPT !.active = FALSE]
              ELSE fragments[g]]
    BY <1>2 DEF Unload, Ir!InvalidateFragment
  <2>2. exec.id \in Ir!Deactivating(exec.id)
    BY <1>2 DEF Ir!Deactivating, Ir!InvalidatedFragments
  <2>3. \A f \in Fragment : /\ fragments'[f].active => fragments[f].active
                            /\ fragments'[f].built = fragments[f].built
                            /\ f \in Ir!Deactivating(exec.id) => ~fragments'[f].active
    BY <1>1, <2>1 DEF FragmentRecord
  <2> QED BY <1>1, <2>2, <2>3 DEF OrderInv
<1>3. CASE ~Ir!IsActive(exec.id)
  BY <1>1, <1>3 DEF Unload, irVars, OrderInv, Ir!IsActive
<1> QED BY <1>2, <1>3

\* Every step of the notebook keeps the invariant.
LEMMA NextOrderInv == LoadInv /\ OrderInv /\ [NotebookNext]_notebookVars => OrderInv'
<1> SUFFICES ASSUME LoadInv, OrderInv, [NotebookNext]_notebookVars PROVE OrderInv'
  OBVIOUS
<1>1. CASE Execute
  <2>0. Step
    BY <1>1 DEF Execute
  <2>1. CASE CheckSucceeds
    <3>1. /\ UNCHANGED fragments
          /\ IF exec.unit.defined = {} THEN phase' = "unload" /\ UNCHANGED pending
             ELSE phase' = "commit" /\ pending' = exec.unit.defined
      BY <2>1 DEF CheckSucceeds, irVars, sessionVars, Session!BeginUnit
    <3> QED BY <2>1, <3>1 DEF CheckSucceeds, OrderInv
  <2>2. ASSUME NEW d \in Symbol, CommitSymbol(d) PROVE OrderInv'
    BY <2>2 DEF CommitSymbol, irVars, OrderInv
  <2>3. CASE Unload
    BY <2>3, UnloadOrderInv
  <2>4. CASE Build
    <3>1. /\ phase' = "add" /\ phase = "remove" /\ UNCHANGED pending
          /\ fragments' = [fragments EXCEPT ![exec.id] =
                             [built |-> TRUE, active |-> TRUE, defined |-> exec.unit.defined]]
      BY <2>4 DEF Build, Ir!BuildFragment, sessionVars
    <3>2. \A f \in Fragment : fragments'[f] =
            IF f = exec.id THEN [built |-> TRUE, active |-> TRUE, defined |-> exec.unit.defined]
            ELSE fragments[f]
      BY <3>1 DEF LoadInv, LoadTypeOK
    <3> QED BY <3>1, <3>2 DEF OrderInv
  <2>5. CASE ~CheckSucceeds /\ ~Unload /\ ~Build /\ ~\E d \in Symbol : CommitSymbol(d)
    <3>1. /\ UNCHANGED <<exec, pending, fragments>> /\ phase # "commit"
          /\ phase' \in {"ended", "done", "run"} \/ (phase = "remove" /\ phase' = "remove")
      BY <2>0, <2>5
      DEF Step, SyntaxError, EndProcess, RejectInvalidated, CheckFails, RemoveModule, RemoveFails,
          BuildFails, BuildThrows, AddModule, AddFails, Run, Return, sessionVars, irVars
    <3> QED BY <3>1 DEF OrderInv
  <2> QED BY <2>1, <2>2, <2>3, <2>4, <2>5
<1>2. CASE ResetSession
  BY <1>2 DEF ResetSession, ResetEngine, Session!Reset, Ir!Reset, Ir!Blank, callVars, OrderInv
<1>3. CASE ~Execute /\ ~ResetSession
  <2>1. /\ UNCHANGED <<pending, fragments>>
        /\ UNCHANGED <<phase, exec>> \/ (phase = "idle" /\ phase' = "analyze")
                                     \/ (phase = "done" /\ phase' = "idle")
    BY <1>3 DEF NotebookNext, NewCell, RunCell, InvalidateOldEpoch, ExecuteText, Submit, CellSucceeds,
                CellFails, TakeResult, Session!InvalidateSymbols, notebookVars, vars, sessionVars,
                irVars, callVars
  <2> QED BY <2>1 DEF OrderInv
<1> QED BY <1>1, <1>2, <1>3

\* The notebook calls SessionManager, IrIncrementalBuilder and EpochManager only
\* in states in which their code expects to be called: a unit is committed when
\* none is being committed, a fragment is built only when it is inactive, the
\* fragment that is invalidated was built, and the epoch that is committed or
\* abandoned is the running one of the cell, after its old epoch has gone
\* (InteractiveOrchestrator::execute, Notebook::execute_cell).
THEOREM NotebookCalledInOrder == NotebookSpec => []CalledInOrder
<1>1. NotebookInit => OrderInv
  BY DEF NotebookInit, Init, Session!Init, Ir!Init, Ir!Blank, OrderInv
<1>2. ManagersInv /\ CodeInv /\ OrderInv => CalledInOrder
  <2> SUFFICES ASSUME ManagersInv, CodeInv, OrderInv PROVE CalledInOrder
    OBVIOUS
  <2>1. Ir!IsActive(exec.id) /\ phase # "idle" => fragments[exec.id].built
    BY CellFacts DEF ManagersInv, OrderInv, Ir!IsActive
  <2>2. phase # "idle" => running # 0 /\ stale = 0 /\ cellEpoch[exec.id] = running
    BY CellFacts DEF ManagersInv, CodeInv, Settled
  <2> QED BY <2>1, <2>2 DEF OrderInv, CalledInOrder, Ir!IsActive
<1>3. ManagersInv => LoadInv
  BY DEF ManagersInv
<1> QED BY <1>1, <1>2, <1>3, CodeInvariant, NextOrderInv, ManagersInvariant, PTL DEF NotebookSpec

------------------------------------------------------------------------------
(* The lines of the REPL *)

\* The fragments after that of the last line were never built, nor was that of
\* a line which has not come to its build.
FreshLines ==
  /\ \A n \in Fragment : n \in Nat /\ n > step => ~fragments[n].active
  /\ phase \in {"analyze", "commit", "unload"} => ~fragments[step].active

ReplInv ==
  /\ step \in Nat
  /\ fragments \in [Fragment -> FragmentRecord]
  /\ phase # "idle" => exec.id = step /\ step \in Fragment /\ exec.unit \in Units
  /\ doomed = {}
  /\ FreshLines

\* No step takes away a module or an active fragment.
KeepsCode ==
  /\ loaded \subseteq loaded'
  /\ \A f \in Fragment : Ir!IsActive(f) => fragments'[f].active

------------------------------------------------------------------------------

\* The REPL starts with no fragment built.
LEMMA InitReplInv == ReplInit => ReplInv
BY DEF ReplInit, Init, Ir!Init, Ir!Blank, ReplInv, FreshLines, FragmentRecord

\* A step that leaves the fragments alone.
LEMMA SameFragmentsReplInv ==
  ASSUME ReplInv, UNCHANGED <<step, exec, fragments>>, doomed' \in {{}, doomed},
         phase # "idle",
         phase' \in {"analyze", "commit", "unload"} => phase \in {"analyze", "commit", "unload"}
  PROVE  ReplInv'
BY DEF ReplInv, FreshLines

\* A line is the fragment that comes after all that were built.
LEMMA LineReplInv ==
  ASSUME ReplInv, NEW u \in Units, Line(u)
  PROVE  ReplInv' /\ KeepsCode
<1>1. /\ step' = step + 1 /\ step' \in Fragment /\ exec' = [id |-> step', unit |-> u]
      /\ UNCHANGED <<fragments, loaded, doomed>>
  BY DEF Line, NextStep, Submit, irVars, jitVars
<1>2. step \in Nat /\ step' \in Nat /\ step' > step
  BY <1>1 DEF ReplInv
<1>3. FreshLines'
  BY <1>1, <1>2 DEF ReplInv, FreshLines
<1> QED BY <1>1, <1>2, <1>3 DEF ReplInv, KeepsCode, Ir!IsActive

\* The call builds the fragment of its line.
LEMMA BuildReplInv ==
  ASSUME ReplInv, Build, UNCHANGED step
  PROVE  ReplInv' /\ KeepsCode
<1> DEFINE r == [built |-> TRUE, active |-> TRUE, defined |-> exec.unit.defined]
<1>1. /\ phase = "remove" /\ phase' = "add" /\ exec.id = step /\ step \in Fragment
      /\ exec.unit \in Units
      /\ fragments' = [fragments EXCEPT ![step] = r]
      /\ UNCHANGED <<step, exec, loaded, doomed>>
  BY DEF Build, Ir!BuildFragment, jitVars, ReplInv
<1>2. r \in FragmentRecord /\ r.active
  BY <1>1, UnitsAreInterfaces DEF FragmentRecord
<1> HIDE DEF r
<1>3. /\ fragments' \in [Fragment -> FragmentRecord]
      /\ \A f \in Fragment : fragments'[f] = IF f = step THEN r ELSE fragments[f]
  BY <1>1, <1>2 DEF ReplInv
<1>4. FreshLines'
  BY <1>1, <1>3 DEF ReplInv, FreshLines
<1>5. KeepsCode
  BY <1>1, <1>2, <1>3 DEF KeepsCode, Ir!IsActive
<1> QED BY <1>1, <1>3, <1>4, <1>5 DEF ReplInv

\* The other steps of a call: there is nothing to unload.
LEMMA StepReplInv ==
  ASSUME ReplInv, Step, UNCHANGED step
  PROVE  ReplInv' /\ KeepsCode
<1>1. CASE Build
  BY <1>1, BuildReplInv
<1>2. CASE Unload
  <2>1. UNCHANGED <<exec, fragments, loaded, doomed>> /\ phase = "unload" /\ phase' = "remove"
    BY <1>2 DEF Unload, ReplInv, FreshLines, Ir!IsActive, irVars
  <2> QED BY <2>1, SameFragmentsReplInv DEF KeepsCode, Ir!IsActive
<1>3. CASE RemoveFails \/ \E g \in Fragment : RemoveModule(g)
  BY <1>3 DEF RemoveFails, RemoveModule, ReplInv
<1>4. CASE AddModule
  <2>1. /\ UNCHANGED <<exec, fragments, doomed>> /\ loaded \subseteq loaded'
        /\ phase = "add" /\ phase' = "run"
    BY <1>4 DEF AddModule, irVars
  <2> QED BY <2>1, SameFragmentsReplInv DEF KeepsCode, Ir!IsActive
<1>5. CASE QuietStep
  <2>1. /\ UNCHANGED <<exec, fragments, loaded>> /\ doomed' \in {{}, doomed} /\ phase # "idle"
        /\ phase' \in {"analyze", "commit", "unload"} => phase \in {"analyze", "commit", "unload"}
    BY <1>5 DEF QuietStep, SyntaxError, EndProcess, RejectInvalidated, CheckFails, CheckSucceeds,
                CommitSymbol, BuildFails, BuildThrows, AddFails, Run, Return, irVars, jitVars
  <2> QED BY <2>1, SameFragmentsReplInv DEF KeepsCode, Ir!IsActive
<1> QED BY <1>1, <1>2, <1>3, <1>4, <1>5 DEF Step, QuietStep

\* Every step of the REPL keeps the invariant and the code.
LEMMA NextReplInv == ReplInv /\ [ReplNext]_replVars => ReplInv' /\ KeepsCode
<1> SUFFICES ASSUME ReplInv, [ReplNext]_replVars PROVE ReplInv' /\ KeepsCode
  OBVIOUS
<1>1. ASSUME NEW u \in Units, Line(u) PROVE ReplInv' /\ KeepsCode
  BY <1>1, LineReplInv
<1>2. CASE ExecuteLine
  BY <1>2, StepReplInv DEF ExecuteLine
<1>3. ASSUME NEW r, PrintResult(r) PROVE ReplInv' /\ KeepsCode
  <2>1. UNCHANGED <<step, fragments, loaded, doomed>> /\ phase' = "idle"
    BY <1>3 DEF PrintResult, TakeResult, irVars, jitVars
  <2> QED BY <2>1 DEF ReplInv, FreshLines, KeepsCode, Ir!IsActive
<1>4. CASE Clear \/ UNCHANGED replVars
  <2>1. UNCHANGED <<step, fragments, loaded, doomed, phase, exec>>
    BY <1>4 DEF Clear, replVars, vars, irVars, jitVars, callVars
  <2> QED BY <2>1 DEF ReplInv, FreshLines, KeepsCode, Ir!IsActive
<1> QED BY <1>1, <1>2, <1>3, <1>4 DEF ReplNext

\* Whether a line redefines symbols, fails in any phase, or follows `:clear`,
\* the code of the earlier lines stays loaded and their fragments stay active
\* (Repl::execute_line).
THEOREM ReplCodeStays == ReplSpec => EarlierCodeStaysLoaded
BY InitReplInv, NextReplInv, PTL DEF ReplSpec, EarlierCodeStaysLoaded, KeepsCode

\* Every step of the REPL keeps the invariant of the orchestrator.
LEMMA NextLineLoadInv == LoadInv /\ [ReplNext]_replVars => LoadInv'
<1> SUFFICES ASSUME LoadInv, [ReplNext]_replVars PROVE LoadInv'
  OBVIOUS
<1>1. ASSUME NEW u \in Units, Line(u) PROVE LoadInv'
  <2>1. PICK f \in Fragment : f = NextStep
    BY <1>1 DEF Line
  <2> QED BY <1>1, <2>1, SubmitLoadInv DEF Line
<1>2. CASE ExecuteLine
  BY <1>2, StepIsInCall, StepLoadInv DEF ExecuteLine
<1>3. ASSUME NEW r, PrintResult(r) PROVE LoadInv'
  BY <1>3, TakeResultLoadInv DEF PrintResult
<1>4. CASE Clear \/ UNCHANGED replVars
  BY <1>4, SameLoadInv DEF Clear, replVars, vars
<1> QED BY <1>1, <1>2, <1>3, <1>4 DEF ReplNext

\* The modules in the JIT and the trackers of the REPL correspond as those of the
\* notebook do: `:clear` leaves both alone (InteractiveOrchestrator).
THEOREM ReplModulesTracked == ReplSpec => []LoadedModulesTracked
<1>1. LoadInv => LoadedModulesTracked
  BY DEF LoadInv, LoadTypeOK, Tracked, ActiveOrDoomed, LoadedModulesTracked, Ir!IsActive
<1>2. ReplInit => LoadInv
  BY NewEngineLoadInv DEF ReplInit, Init, Ir!Init
<1> QED BY <1>1, <1>2, NextLineLoadInv, PTL DEF ReplSpec

\* A step of the REPL is a step of the fragments or leaves them alone.
LEMMA ReplStepOfFragments ==
  ASSUME LoadInv, [ReplNext]_replVars
  PROVE  [Ir!Next]_(Ir!vars)
<1>1. CASE ExecuteLine
  BY <1>1, StepIsInCall, StepOfFragments DEF ExecuteLine
<1>2. CASE ~ExecuteLine
  <2>1. UNCHANGED irVars
    BY <1>2 DEF ReplNext, Line, Submit, PrintResult, TakeResult, Clear, replVars, vars
  <2> QED BY <2>1 DEF irVars, Ir!vars
<1> QED BY <1>1, <1>2

\* The REPL builds fragments only as IrIncrementalBuilder specifies
\* (Repl::execute_line).
THEOREM ReplRunsFragments == ReplSpec => Ir!Spec
<1>1. ReplInit => LoadInv
  BY NewEngineLoadInv DEF ReplInit, Init, Ir!Init
<1> QED BY <1>1, NextLineLoadInv, ReplStepOfFragments, PTL DEF ReplSpec, ReplInit, Init, Ir!Spec

\* Every step of the REPL keeps the invariant of the session, and is a step of
\* it or leaves it alone.
LEMMA ReplStepOfSession ==
  ASSUME SymbolInv, LoadInv, [ReplNext]_replVars
  PROVE  SymbolInv' /\ [Session!Next]_(Session!vars)
<1>1. CASE ExecuteLine
  BY <1>1, StepIsInCall, StepSymbolInv, StepOfSession DEF ExecuteLine
<1>2. CASE Clear
  BY <1>2, ResetSymbolInv DEF Clear, Session!Next
<1>3. CASE ~ExecuteLine /\ ~Clear
  <2>1. UNCHANGED sessionVars
    BY <1>3 DEF ReplNext, Line, Submit, PrintResult, TakeResult, replVars, vars
  <2> QED BY <2>1, SameSymbolInv DEF sessionVars, Session!vars
<1> QED BY <1>1, <1>2, <1>3

\* The REPL commits units and resets the session only as SessionManager
\* specifies, so all that is proved of the session on its own holds of the REPL,
\* `:clear` included (Repl::execute_line, run_repl_mode).
THEOREM ReplRunsSession == ReplSpec => Session!Spec
<1>1. ReplInit => LoadInv /\ SymbolInv
  BY NewEngineLoadInv, SameSession, SessionAssumptions, SessionP!InitIInv
  DEF ReplInit, Init, Ir!Init, SymbolInv
<1> QED BY <1>1, NextLineLoadInv, ReplStepOfSession, PTL DEF ReplSpec, ReplInit, Init, Session!Spec
===============================================================================
