------------------------ MODULE SessionManagerProofs ------------------------
(***************************************************************************)
(* Proofs about SessionManager for every set of symbols and every bound.   *)
(*                                                                         *)
(* FreshAfterFirst is not inductive as it stands.  A redefinition finds    *)
(* the dependents of a symbol through the reverse edges, so these must     *)
(* mirror the forward edges; and a unit must not define what it uses, or   *)
(* a symbol would be computed from a version that its own unit replaces.   *)
(* The first definition of a name finds nobody computed from a version of  *)
(* it, so whoever depends on it is a case of the second disjunct.          *)
(***************************************************************************)
EXTENDS SessionManager, DependencyGraphProofs

\* What the commit loop may rely on about the unit it commits.
UnitInProgress ==
  /\ pending = {} => unit = NoUnit
  /\ unit.defined \cap unit.used = {}
  /\ \A d \in pending : symtab[d].version < MaxVersion

IInv ==
  /\ TypeOK
  /\ GraphMirrored
  /\ UnitInProgress
  /\ FreshAfterFirst

\* The invariant holds when the session starts.
LEMMA InitIInv == Init => IInv
<1> SUFFICES ASSUME Init PROVE IInv
  OBVIOUS
<1> USE VersionBound
<1>1. deps \in [Symbol -> SUBSET Symbol] /\ rdeps \in [Symbol -> SUBSET Symbol]
      /\ GraphMirrored
  BY NoEdgesFacts DEF Init, GraphMirrored
<1>2. symtab \in [Symbol -> Entry] /\ seen \in [Symbol -> [Symbol -> 0..MaxVersion]]
  BY DEF Init, Entry, Absent
<1>3. unit \in [defined : SUBSET Symbol, used : SUBSET Symbol]
      /\ pending \subseteq unit.defined
  BY DEF Init, NoUnit
<1>4. \A s \in Symbol : deps[s] = {}
  BY DEF Init, NoEdges
<1>5. UnitInProgress
  BY DEF Init, NoUnit, UnitInProgress
<1> QED BY <1>1, <1>2, <1>3, <1>4, <1>5 DEF IInv, TypeOK, FreshAfterFirst

\* What AddSymbol and RedefineSymbol both do: the loop advances, and the graph
\* records the dependencies of d.
RecordEffect(d) ==
  /\ d \in Symbol /\ d \notin unit.used
  /\ unit.used \in SUBSET Symbol
  /\ deps' \in [Symbol -> SUBSET Symbol] /\ rdeps' \in [Symbol -> SUBSET Symbol]
  /\ GraphMirrored'
  /\ deps'[d] = unit.used
  /\ \A s \in Symbol : s # d => deps'[s] = deps[s] /\ seen'[s] = seen[s]
  /\ seen' \in [Symbol -> [Symbol -> 0..MaxVersion]]
  /\ \A x \in unit.used : seen'[d][x] = symtab[x].version
  /\ unit' \in [defined : SUBSET Symbol, used : SUBSET Symbol]
  /\ unit'.defined \cap unit'.used = {}
  /\ unit'.used \subseteq unit.used
  /\ pending' \subseteq unit'.defined
  /\ pending' \subseteq pending \ {d}
  /\ pending' = {} => unit' = NoUnit

\* A step of the commit loop has that effect.
LEMMA RecordFacts ==
  ASSUME IInv, NEW d \in pending, LoopStep(d), Record(d)
  PROVE  RecordEffect(d)
<1> USE VersionBound
<1>1. d \in Symbol /\ d \notin unit.used /\ unit.used \in SUBSET Symbol
  BY DEF IInv, TypeOK, UnitInProgress
<1>2. deps' \in [Symbol -> SUBSET Symbol] /\ rdeps' \in [Symbol -> SUBSET Symbol]
  BY <1>1, SetEdgesType DEF IInv, TypeOK, Record
<1>3. GraphMirrored'
  BY <1>1, SetEdgesMirrored DEF IInv, TypeOK, Record, GraphMirrored
<1>4. deps'[d] = unit.used /\ \A s \in Symbol : s # d => deps'[s] = deps[s]
  BY <1>1 DEF IInv, TypeOK, Record, SetDeps
<1>5. Snapshot(unit.used) \in [Symbol -> 0..MaxVersion]
  BY <1>1 DEF IInv, TypeOK, Entry, Snapshot
<1>6. seen' \in [Symbol -> [Symbol -> 0..MaxVersion]]
      /\ \A s \in Symbol : s # d => seen'[s] = seen[s]
      /\ \A x \in unit.used : seen'[d][x] = symtab[x].version
  BY <1>1, <1>5 DEF IInv, TypeOK, Record, Snapshot
<1>7. /\ unit' \in [defined : SUBSET Symbol, used : SUBSET Symbol]
      /\ unit'.defined \cap unit'.used = {}
      /\ unit'.used \subseteq unit.used
      /\ pending' \subseteq unit'.defined
      /\ pending' \subseteq pending \ {d}
      /\ pending' = {} => unit' = NoUnit
  BY DEF IInv, TypeOK, LoopStep, UnitInProgress, NoUnit
<1> QED BY <1>1, <1>2, <1>3, <1>4, <1>6, <1>7 DEF RecordEffect

\* The first definition of a name keeps the invariant.
LEMMA AddPreservesIInv ==
  ASSUME IInv, NEW d \in Symbol, AddSymbol(d)
  PROVE  IInv'
<1> USE VersionBound
<1>1. RecordEffect(d) /\ d \in pending /\ ~Has(d)
  BY RecordFacts DEF AddSymbol, LoopStep
<1>2. symtab' = [symtab EXCEPT ![d] = [valid |-> TRUE, version |-> 1]]
  BY DEF AddSymbol
<1>3. symtab[d].version = 0 /\ 0 < MaxVersion
  BY <1>1 DEF IInv, TypeOK, Entry, Has, UnitInProgress
<1>4. symtab' \in [Symbol -> Entry]
  BY <1>2, <1>3 DEF IInv, TypeOK, Entry
<1>5. TypeOK'
  BY <1>1, <1>4 DEF TypeOK, RecordEffect
<1>6. \A s \in Symbol : s # d => symtab'[s] = symtab[s]
  BY <1>2 DEF IInv, TypeOK
<1>7. UnitInProgress'
  BY <1>1, <1>6 DEF RecordEffect, IInv, TypeOK, UnitInProgress
<1>8. FreshAfterFirst'
  <2> SUFFICES ASSUME NEW s \in Symbol, IsValid(s)', NEW x \in deps'[s]
               PROVE  \/ symtab'[x].version = seen'[s][x]
                      \/ seen'[s][x] = 0 /\ symtab'[x].version = 1
    BY DEF FreshAfterFirst
  <2>1. CASE s = d
    <3>1. x \in unit.used /\ x # d /\ x \in Symbol
      BY <1>1, <2>1 DEF RecordEffect
    <3> QED BY <1>1, <1>6, <2>1, <3>1 DEF RecordEffect
  <2>2. CASE s # d
    <3>1. x \in deps[s] /\ x \in Symbol /\ seen'[s] = seen[s] /\ IsValid(s)
      BY <1>1, <1>6, <2>2 DEF IsValid, IInv, TypeOK, RecordEffect
    <3>2. \/ symtab[x].version = seen[s][x]
          \/ seen[s][x] = 0 /\ symtab[x].version = 1
      BY <3>1 DEF IInv, FreshAfterFirst
    <3>3. CASE x = d
      <4>1. symtab'[x].version = 1
        BY <1>2, <3>3 DEF IInv, TypeOK
      <4> QED BY <1>3, <3>1, <3>2, <3>3, <4>1
    <3>4. CASE x # d
      BY <1>6, <3>1, <3>2, <3>4
    <3> QED BY <3>3, <3>4
  <2> QED BY <2>1, <2>2
<1> QED BY <1>1, <1>5, <1>7, <1>8 DEF IInv, RecordEffect

\* What a redefinition does to the table.
RedefineEffect(d) ==
  /\ symtab' \in [Symbol -> Entry]
  /\ symtab'[d] = [valid |-> TRUE, version |-> symtab[d].version + 1]
  /\ \A s \in Symbol : s # d =>
       /\ symtab'[s].version = symtab[s].version
       /\ symtab'[s].valid = (symtab[s].valid /\ s \notin Dependents(rdeps, d))

\* RedefineSymbol has that effect.
LEMMA RedefineTable ==
  ASSUME IInv, NEW d \in Symbol, RedefineSymbol(d)
  PROVE  RedefineEffect(d)
<1> USE VersionBound
<1> DEFINE tab == Invalidated(symtab, Dependents(rdeps, d))
<1>1. symtab' = [tab EXCEPT ![d] = [valid |-> TRUE, version |-> symtab[d].version + 1]]
  BY DEF RedefineSymbol, StaleWith, VersionAfter
<1>2. \A s \in Symbol : symtab[s] \in Entry
  BY DEF IInv, TypeOK
<1>3. \A s \in Symbol : /\ tab[s] \in Entry
                        /\ tab[s].version = symtab[s].version
                        /\ tab[s].valid = (symtab[s].valid /\ s \notin Dependents(rdeps, d))
  BY <1>2 DEF Invalidated, Entry
<1>4. symtab[d].version < MaxVersion
  BY DEF RedefineSymbol, LoopStep, IInv, UnitInProgress
<1>5. [valid |-> TRUE, version |-> symtab[d].version + 1] \in Entry
  BY <1>2, <1>4 DEF Entry
<1>6. tab \in [Symbol -> Entry]
  BY <1>3 DEF Invalidated
<1> HIDE DEF tab
<1> QED BY <1>1, <1>3, <1>5, <1>6 DEF RedefineEffect

\* A redefinition keeps the invariant.
LEMMA RedefinePreservesIInv ==
  ASSUME IInv, NEW d \in Symbol, RedefineSymbol(d)
  PROVE  IInv'
<1> USE VersionBound
<1>1. RecordEffect(d) /\ d \in pending
  BY RecordFacts DEF RedefineSymbol, LoopStep
<1>2. RedefineEffect(d)
  BY RedefineTable
<1>3. TypeOK'
  BY <1>1, <1>2 DEF TypeOK, RecordEffect, RedefineEffect
<1>4. UnitInProgress'
  <2>1. \A s \in Symbol : s # d => symtab'[s].version = symtab[s].version
    BY <1>2 DEF RedefineEffect
  <2>2. \A e \in pending' : e \in Symbol /\ e \in pending /\ e # d
    BY <1>1 DEF RecordEffect, IInv, TypeOK
  <2>3. \A e \in pending' : symtab'[e].version < MaxVersion
    BY <2>1, <2>2 DEF IInv, UnitInProgress
  <2> QED BY <1>1, <2>3 DEF RecordEffect, IInv, UnitInProgress
<1>5. \A s \in Symbol : d \in deps[s] => s \in Dependents(rdeps, d)
  <2>1. rdeps[d] \subseteq Dependents(rdeps, d)
    BY DirectAreDependents DEF IInv, TypeOK
  <2> QED BY <2>1 DEF IInv, TypeOK, GraphMirrored, Mirrored
<1>6. FreshAfterFirst'
  <2> SUFFICES ASSUME NEW s \in Symbol, IsValid(s)', NEW x \in deps'[s]
               PROVE  \/ symtab'[x].version = seen'[s][x]
                      \/ seen'[s][x] = 0 /\ symtab'[x].version = 1
    BY DEF FreshAfterFirst
  <2>1. CASE s = d
    <3>1. x \in unit.used /\ x # d /\ x \in Symbol /\ seen'[s][x] = symtab[x].version
      BY <1>1, <2>1 DEF RecordEffect
    <3> QED BY <1>2, <3>1 DEF RedefineEffect
  <2>2. CASE s # d
    <3>1. IsValid(s) /\ s \notin Dependents(rdeps, d)
      BY <1>2, <2>2 DEF IsValid, RedefineEffect
    <3>2. x \in deps[s] /\ x # d /\ x \in Symbol /\ seen'[s] = seen[s]
      BY <1>1, <1>5, <2>2, <3>1 DEF RecordEffect, IInv, TypeOK
    <3>3. \/ symtab[x].version = seen[s][x]
          \/ seen[s][x] = 0 /\ symtab[x].version = 1
      BY <3>1, <3>2 DEF IInv, FreshAfterFirst
    <3> QED BY <1>2, <3>2, <3>3 DEF RedefineEffect
  <2> QED BY <2>1, <2>2
<1> QED BY <1>1, <1>3, <1>4, <1>6 DEF IInv, RecordEffect

\* Entering commit_unit keeps the invariant.
LEMMA BeginPreservesIInv ==
  ASSUME IInv,
         NEW D \in SUBSET Symbol, NEW U \in SUBSET Symbol, BeginUnit(D, U)
  PROVE  IInv'
<1> USE VersionBound
<1>1. UNCHANGED <<symtab, deps, rdeps, seen>>
  BY DEF BeginUnit, tableVars
<1>2. unit' = [defined |-> D, used |-> U] /\ pending' = D /\ D # {} /\ D \cap U = {}
      /\ \A d \in D : symtab[d].version < MaxVersion
  BY DEF BeginUnit
<1>3. UnitInProgress'
  BY <1>1, <1>2 DEF UnitInProgress
<1>4. TypeOK'
  BY <1>1, <1>2 DEF IInv, TypeOK
<1> QED
  BY <1>1, <1>3, <1>4
  DEF IInv, GraphMirrored, Mirrored, FreshAfterFirst, IsValid

\* What invalidate_symbol of the symbols in S does to the table.
InvalidateEffect(S) ==
  /\ symtab' \in [Symbol -> Entry]
  /\ \A s \in Symbol :
       /\ symtab'[s].version = symtab[s].version
       /\ symtab'[s].valid =
            (symtab[s].valid /\ s \notin S \cup UNION {Dependents(rdeps, x) : x \in S})

\* InvalidateSymbols has that effect.
LEMMA InvalidateTable ==
  ASSUME IInv, NEW S \in SUBSET Symbol, InvalidateSymbols(S)
  PROVE  InvalidateEffect(S)
<1> DEFINE T == S \cup UNION {Dependents(rdeps, x) : x \in S}
<1>1. symtab' = Invalidated(symtab, T)
  BY DEF InvalidateSymbols, StaleWith
<1>2. \A s \in Symbol : symtab[s] \in Entry
  BY DEF IInv, TypeOK
<1> HIDE DEF T
<1>3. \A s \in Symbol : /\ symtab'[s] \in Entry
                        /\ symtab'[s].version = symtab[s].version
                        /\ symtab'[s].valid = (symtab[s].valid /\ s \notin T)
  BY <1>1, <1>2 DEF Invalidated, Entry
<1>4. symtab' \in [Symbol -> Entry]
  BY <1>1, <1>3 DEF Invalidated
<1> QED BY <1>3, <1>4 DEF InvalidateEffect, T

\* Invalidating symbols keeps the invariant.
LEMMA InvalidatePreservesIInv ==
  ASSUME IInv, NEW S \in SUBSET Symbol, InvalidateSymbols(S)
  PROVE  IInv'
<1> USE VersionBound
<1>1. UNCHANGED <<deps, rdeps, unit, pending, seen>>
  BY DEF InvalidateSymbols
<1>2. /\ symtab' \in [Symbol -> Entry]
      /\ \A s \in Symbol : symtab'[s].version = symtab[s].version
      /\ \A s \in Symbol : symtab'[s].valid => symtab[s].valid
  BY InvalidateTable DEF InvalidateEffect
<1>3. TypeOK'
  BY <1>1, <1>2 DEF IInv, TypeOK
<1>4. GraphMirrored'
  BY <1>1 DEF IInv, GraphMirrored
<1>5. UnitInProgress'
  BY <1>1, <1>2 DEF IInv, TypeOK, UnitInProgress
<1>6. FreshAfterFirst'
  BY <1>1, <1>2 DEF IInv, TypeOK, FreshAfterFirst, IsValid
<1> QED BY <1>3, <1>4, <1>5, <1>6 DEF IInv

\* Resetting the session keeps the invariant.
LEMMA ResetPreservesIInv ==
  ASSUME IInv, Reset
  PROVE  IInv'
<1> USE VersionBound
<1>1. /\ symtab' = [s \in Symbol |-> Absent]
      /\ deps' = NoEdges(Symbol) /\ rdeps' = NoEdges(Symbol)
      /\ seen' = [s \in Symbol |-> [x \in Symbol |-> 0]]
      /\ pending = {} /\ UNCHANGED <<unit, pending>>
  BY DEF Reset
<1>2. TypeOK'
  BY <1>1, NoEdgesFacts DEF IInv, TypeOK, Entry, Absent
<1>3. GraphMirrored'
  BY <1>1, NoEdgesFacts DEF GraphMirrored
<1>4. FreshAfterFirst'
  BY <1>1 DEF FreshAfterFirst, NoEdges
<1>5. UnitInProgress'
  BY <1>1 DEF IInv, UnitInProgress, NoUnit
<1> QED BY <1>2, <1>3, <1>4, <1>5 DEF IInv

\* Every step keeps the invariant.
LEMMA NextIInv == IInv /\ [Next]_vars => IInv'
<1> SUFFICES ASSUME IInv, [Next]_vars PROVE IInv'
  OBVIOUS
<1>1. ASSUME NEW D \in SUBSET Symbol, NEW U \in SUBSET {u \in Symbol : Accepted(u)},
             BeginUnit(D, U)
      PROVE  IInv'
  BY <1>1, BeginPreservesIInv
<1>2. ASSUME NEW d \in Symbol, AddSymbol(d)
      PROVE  IInv'
  BY <1>2, AddPreservesIInv
<1>3. ASSUME NEW d \in Symbol, RedefineSymbol(d)
      PROVE  IInv'
  BY <1>3, RedefinePreservesIInv
<1>4. ASSUME NEW S \in (SUBSET Symbol) \ {{}}, InvalidateSymbols(S)
      PROVE  IInv'
  BY <1>4, InvalidatePreservesIInv
<1>5. CASE Reset
  BY <1>5, ResetPreservesIInv
<1>6. CASE UNCHANGED vars
  BY <1>6
  DEF vars, IInv, TypeOK, GraphMirrored, UnitInProgress, FreshAfterFirst, IsValid
<1> QED BY <1>1, <1>2, <1>3, <1>4, <1>5, <1>6 DEF Next, CommitSymbol

\* The invariant holds in every state of every run of the session.
THEOREM SessionInvariant == Spec => []IInv
BY InitIInv, NextIInv, PTL DEF Spec

\* The table, the graph and the unit under way keep their types: the commit loop
\* never reaches a symbol that its unit does not define (commit_unit).
THEOREM SessionTypeOK == Spec => []TypeOK
<1>1. IInv => TypeOK
  BY DEF IInv
<1> QED BY SessionInvariant, <1>1, PTL

\* The two edge maps of the symbol graph stay mirrored, whatever is committed,
\* invalidated or reset (DependencyGraph::set_dependencies).
THEOREM SessionGraphMirrored == Spec => []GraphMirrored
<1>1. IInv => GraphMirrored
  BY DEF IInv
<1> QED BY SessionInvariant, <1>1, PTL

\* A symbol that is reported valid lags behind what it was computed from by the
\* first definition of a name at most, never by a redefinition
\* (SessionManager::add_symbol, redefine_symbol), for every set of symbols, every
\* unit and every order in which commit_unit takes the symbols of a unit.
THEOREM SessionFreshAfterFirst == Spec => []FreshAfterFirst
<1>1. IInv => FreshAfterFirst
  BY DEF IInv
<1> QED BY SessionInvariant, <1>1, PTL

\* What a symbol depends on, and what it was computed from, changes only with
\* an increase of its version (the version counter of redefine_symbol).
THEOREM SessionVersions == Spec => VersionsIdentifyDefinitions
<1> USE VersionBound
<1>1. ASSUME IInv, Next, symtab' # [x \in Symbol |-> Absent],
             NEW s \in Symbol, deps'[s] # deps[s] \/ seen'[s] # seen[s]
      PROVE  symtab'[s].version > symtab[s].version
  <2>1. ASSUME NEW d \in Symbol, AddSymbol(d)
        PROVE  symtab'[s].version > symtab[s].version
    <3>1. d = s
      BY <1>1, <2>1, RecordFacts DEF AddSymbol, LoopStep, RecordEffect
    <3>2. symtab'[s].version = 1 /\ symtab[s].version \in Nat /\ ~(symtab[s].version > 0)
      BY <1>1, <2>1, <3>1 DEF AddSymbol, Has, IInv, TypeOK, Entry
    <3> QED BY <3>2
  <2>2. ASSUME NEW d \in Symbol, RedefineSymbol(d)
        PROVE  symtab'[s].version > symtab[s].version
    <3>1. d = s
      BY <1>1, <2>2, RecordFacts DEF RedefineSymbol, LoopStep, RecordEffect
    <3>2. RedefineEffect(s)
      BY <1>1, <2>2, <3>1, RedefineTable
    <3>3. symtab'[s].version = symtab[s].version + 1
      BY <3>2 DEF RedefineEffect
    <3>4. symtab[s].version \in Nat
      BY <1>1 DEF IInv, TypeOK, Entry
    <3> QED BY <3>3, <3>4
  <2>3. ASSUME NEW D, NEW U, BeginUnit(D, U)
        PROVE  FALSE
    BY <1>1, <2>3 DEF BeginUnit, tableVars
  <2>4. ASSUME NEW S, InvalidateSymbols(S)
        PROVE  FALSE
    BY <1>1, <2>4 DEF InvalidateSymbols
  <2>5. CASE Reset
    BY <1>1, <2>5 DEF Reset
  <2> QED BY <1>1, <2>1, <2>2, <2>3, <2>4, <2>5 DEF Next, CommitSymbol
<1>2. IInv /\ [Next]_vars => [VersionStep]_vars
  BY <1>1 DEF VersionStep
<1> QED BY SessionInvariant, <1>2, PTL DEF Spec, VersionsIdentifyDefinitions

\* The initial state of the session is that of the abstract specification.
LEMMA AbstractInit == Init => Abstract!SymbolInit
BY DEF Init, Absent, NoEdges, Abstract!SymbolInit, Abstract!Init, Abstract!NoEdges, IsValid, Has

\* Under the invariant, the abstract downstream set is what the code walks.
LEMMA DownstreamIsStale ==
  ASSUME IInv, NEW S
  PROVE  Abstract!Downstream(S) = UNION {Dependents(rdeps, n) : n \in S}
<1>1. rdeps = [b \in Symbol |-> {a \in Symbol : b \in deps[a]}]
  <2>1. /\ deps \in [Symbol -> SUBSET Symbol] /\ rdeps \in [Symbol -> SUBSET Symbol]
        /\ Mirrored(deps, rdeps)
    BY DEF IInv, TypeOK, GraphMirrored
  <2> QED BY <2>1, MirroredIsReversed
<1>2. Abstract!Reversed = rdeps
  BY <1>1 DEF Abstract!Reversed
<1>3. ASSUME NEW n
      PROVE  Abstract!Dependents(rdeps, n) = Dependents(rdeps, n)
  BY DEF Dependents, ClosedSets, Abstract!Dependents, Abstract!ClosedSets
<1> QED BY <1>2, <1>3 DEF Abstract!Downstream

\* Every step of the session is an abstract step or changes nothing abstract:
\* a commit introduces or redefines a symbol, the epoch system withdraws, a
\* reset forgets.
LEMMA AbstractStep ==
  ASSUME IInv, [Next]_vars
  PROVE  [Abstract!SymbolNext]_(Abstract!symbolVars)
<1> USE VersionBound
<1>1. ASSUME NEW D, NEW U, BeginUnit(D, U)
      PROVE  UNCHANGED Abstract!symbolVars
  BY <1>1 DEF BeginUnit, tableVars, Abstract!symbolVars, Abstract!vars, IsValid, Has
<1>2. ASSUME NEW d \in Symbol, AddSymbol(d)
      PROVE  Abstract!Introduce(d, unit.used) /\ unit.used \in SUBSET Symbol
  <2>1. RecordEffect(d) /\ ~Has(d)
    BY <1>2, RecordFacts DEF AddSymbol, LoopStep
  <2>2. deps' = [deps EXCEPT ![d] = unit.used]
    BY <1>2 DEF AddSymbol, Record, SetDeps
  <2>3. {s \in Symbol : IsValid(s)'} = {s \in Symbol : IsValid(s)} \cup {d}
    BY <1>2 DEF AddSymbol, IInv, TypeOK, IsValid
  <2>4. {s \in Symbol : Has(s)'} = {s \in Symbol : Has(s)} \cup {d}
    BY <1>2 DEF AddSymbol, IInv, TypeOK, Has
  <2> QED BY <2>1, <2>2, <2>3, <2>4 DEF Abstract!Introduce, RecordEffect
<1>3. ASSUME NEW d \in Symbol, RedefineSymbol(d)
      PROVE  Abstract!Redefine(d, unit.used) /\ unit.used \in SUBSET Symbol
  <2>1. RecordEffect(d) /\ RedefineEffect(d) /\ Has(d)
    BY <1>3, RecordFacts, RedefineTable DEF RedefineSymbol, LoopStep
  <2>2. deps' = [deps EXCEPT ![d] = unit.used]
    BY <1>3 DEF RedefineSymbol, Record, SetDeps
  <2>3. Abstract!Downstream({d}) = Dependents(rdeps, d)
    <3>1. Abstract!Downstream({d}) = UNION {Dependents(rdeps, n) : n \in {d}}
      BY DownstreamIsStale
    <3> QED BY <3>1
  <2>4. {s \in Symbol : IsValid(s)'}
          = ({s \in Symbol : IsValid(s)} \ Dependents(rdeps, d)) \cup {d}
    <3>1. ASSUME NEW s \in Symbol
          PROVE  symtab'[s].valid <=>
                   (symtab[s].valid /\ s \notin Dependents(rdeps, d)) \/ s = d
      <4>1. CASE s = d
        BY <2>1, <4>1 DEF RedefineEffect
      <4>2. CASE s # d
        BY <2>1, <4>2 DEF RedefineEffect
      <4> QED BY <4>1, <4>2
    <3> QED BY <3>1 DEF IsValid
  <2>5. {s \in Symbol : Has(s)'} = {s \in Symbol : Has(s)}
    <3>1. ASSUME NEW s \in Symbol
          PROVE  symtab'[s].version > 0 <=> symtab[s].version > 0
      <4>1. symtab[s].version \in Nat
        BY DEF IInv, TypeOK, Entry
      <4>2. CASE s = d
        BY <2>1, <4>1, <4>2 DEF RedefineEffect, Has
      <4>3. CASE s # d
        BY <2>1, <4>3 DEF RedefineEffect
      <4> QED BY <4>2, <4>3
    <3> QED BY <3>1 DEF Has
  <2> QED BY <2>1, <2>2, <2>3, <2>4, <2>5 DEF Abstract!Redefine, Abstract!Define, RecordEffect
<1>4. ASSUME NEW S \in SUBSET Symbol, InvalidateSymbols(S)
      PROVE  Abstract!WithdrawSymbols(S)
  <2>1. InvalidateEffect(S) /\ deps' = deps
    BY <1>4, InvalidateTable DEF InvalidateSymbols
  <2>2. Abstract!Downstream(S) = UNION {Dependents(rdeps, n) : n \in S}
    BY DownstreamIsStale
  <2>3. {s \in Symbol : IsValid(s)'}
          = {s \in Symbol : IsValid(s)} \ (S \cup Abstract!Downstream(S))
    BY <2>1, <2>2 DEF InvalidateEffect, IsValid
  <2>4. {s \in Symbol : Has(s)'} = {s \in Symbol : Has(s)}
    BY <2>1 DEF InvalidateEffect, Has
  <2> QED BY <2>1, <2>3, <2>4 DEF Abstract!WithdrawSymbols, Abstract!Withdraw
<1>5. CASE Reset
  <2>1. Abstract!Forget
    BY <1>5 DEF Reset, Abstract!Forget, Abstract!Clear, IsValid, Has, Absent, NoEdges, Abstract!NoEdges
  <2> QED BY <2>1 DEF Abstract!SymbolNext
<1>6. CASE UNCHANGED vars
  BY <1>6 DEF vars, Abstract!symbolVars, Abstract!vars, IsValid, Has
<1> QED BY <1>1, <1>2, <1>3, <1>4, <1>5, <1>6 DEF Next, CommitSymbol, Abstract!SymbolNext

\* The session implements the abstract specification of the staleness of
\* symbols: a redefinition stales exactly what is downstream of it, a first
\* definition nothing, for every unit and commit order (SessionManager).
THEOREM SessionRefines == Spec => ImplementsSymbolInvalidation
BY SessionInvariant, AbstractInit, AbstractStep, PTL
DEF Spec, ImplementsSymbolInvalidation, Abstract!SymbolSpec
==============================================================================
