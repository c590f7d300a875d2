---------------------- MODULE IrIncrementalBuilderProofs ----------------------
(***************************************************************************)
(* Proofs about IrIncrementalBuilder for every set of fragments and        *)
(* symbols.                                                                *)
(*                                                                         *)
(* The properties hold each other up: an active fragment depends on active *)
(* ones because dependencies are taken from the producer map, whose        *)
(* entries are active (ProducerActive), and because an invalidation walks  *)
(* reverse edges that mirror the forward edges (GraphMirrored).  That a    *)
(* rebuilt fragment has no active dependents, and so neither closes a      *)
(* cycle nor leaves a stale dependent, follows from the same invariant:    *)
(* the inactive fragments are closed under reverse edges.                  *)
(***************************************************************************)
EXTENDS IrIncrementalBuilder, DependencyGraphProofs

IInv ==
  /\ TypeOK
  /\ GraphMirrored
  /\ ProducerActive
  /\ ActiveDependsOnActive
  /\ ActiveAcyclic

Inactive == {g \in Fragment : ~IsActive(g)}

\* The invariant holds when the session starts.
LEMMA InitIInv == Init => IInv
<1> SUFFICES ASSUME Init PROVE IInv
  OBVIOUS
<1>1. deps \in [Fragment -> SUBSET Fragment] /\ rdeps \in [Fragment -> SUBSET Fragment]
      /\ GraphMirrored
  BY NoEdgesFacts DEF Init, GraphMirrored
<1>2. TypeOK
  BY <1>1 DEF Init, TypeOK, Blank
<1>3. \A f \in Fragment : ~IsActive(f)
  BY DEF Init, IsActive, Blank
<1>4. ProducerActive
  BY DEF Init, ProducerActive
<1> QED BY <1>1, <1>2, <1>3, <1>4 DEF IInv, ActiveDependsOnActive, ActiveAcyclic

\* What depends on an inactive fragment is inactive.
LEMMA InactiveClosed ==
  ASSUME IInv, NEW f \in Fragment, ~IsActive(f)
  PROVE  rdeps[f] \subseteq Inactive
BY DEF IInv, TypeOK, GraphMirrored, Mirrored, ActiveDependsOnActive, Inactive

\* All transitive dependents of an inactive fragment are inactive.
LEMMA InactiveDependents ==
  ASSUME IInv, NEW f \in Fragment, ~IsActive(f)
  PROVE  Dependents(rdeps, f) \subseteq Inactive
<1>1. rdeps[f] \subseteq Inactive /\ \A m \in Inactive : rdeps[m] \subseteq Inactive
  BY InactiveClosed DEF Inactive
<1>2. rdeps \in [Fragment -> SUBSET Fragment] /\ Inactive \in SUBSET Fragment
  BY DEF IInv, TypeOK, Inactive
<1> QED BY <1>1, <1>2, DependentsLeast

\* What an invalidation does to the fragments and the producers.
InvalidateEffect(f) ==
  /\ TypeOK'
  /\ deps' = deps /\ rdeps' = rdeps
  /\ \A g \in Fragment :
       /\ IsActive(g)' = (IsActive(g) /\ g \notin InvalidatedFragments(f))
       /\ fragments'[g].defined = fragments[g].defined
  /\ \A s \in Symbol :
       producer'[s] # NoFragment =>
         producer'[s] = producer[s] /\ producer[s] \notin Deactivating(f)

\* InvalidateFragment has that effect.
LEMMA InvalidateFacts ==
  ASSUME IInv, NEW f \in Fragment, InvalidateFragment(f)
  PROVE  InvalidateEffect(f)
<1> DEFINE gone == Deactivating(f)
<1>1. /\ fragments' = [g \in Fragment |->
                         IF g \in gone THEN [fragments[g] EXCEPT !.active = FALSE]
                         ELSE fragments[g]]
      /\ producer' = [s \in Symbol |-> IF producer[s] \in gone THEN NoFragment
                                       ELSE producer[s]]
      /\ UNCHANGED <<deps, rdeps>>
  BY DEF InvalidateFragment, ProducersAfter
<1>2. \A g \in Fragment :
        g \in gone <=> g \in InvalidatedFragments(f) /\ fragments[g].active
  <2>1. Dependents(rdeps, f) \subseteq Fragment
    BY DependentsAreNodes DEF IInv, TypeOK
  <2> QED BY <2>1 DEF Deactivating, InvalidatedFragments, IsActive
<1>3. \A g \in Fragment :
        fragments[g] \in [built : BOOLEAN, active : BOOLEAN, defined : SUBSET Symbol]
  BY DEF IInv, TypeOK
<1> HIDE DEF gone
<1>4. ASSUME NEW g \in Fragment
      PROVE  /\ fragments'[g] \in [built : BOOLEAN, active : BOOLEAN, defined : SUBSET Symbol]
             /\ fragments'[g].active = (fragments[g].active /\ g \notin gone)
             /\ fragments'[g].defined = fragments[g].defined
  BY <1>1, <1>3
<1>5. fragments' \in [Fragment -> [built : BOOLEAN, active : BOOLEAN, defined : SUBSET Symbol]]
  BY <1>1, <1>4
<1>6. producer' \in [Symbol -> Fragment \cup {NoFragment}]
  BY <1>1 DEF IInv, TypeOK
<1>7. TypeOK'
  BY <1>1, <1>5, <1>6 DEF IInv, TypeOK
<1>8. \A s \in Symbol : producer'[s] # NoFragment =>
        producer'[s] = producer[s] /\ producer[s] \notin gone
  BY <1>1
<1>9. \A g \in Fragment : IsActive(g)' = (IsActive(g) /\ g \notin InvalidatedFragments(f))
  BY <1>2, <1>3, <1>4 DEF IsActive
<1> QED BY <1>1, <1>4, <1>7, <1>8, <1>9 DEF InvalidateEffect, gone

\* An invalidation keeps the invariant.
LEMMA InvalidateIInv ==
  ASSUME IInv, NEW f \in Fragment, InvalidateFragment(f)
  PROVE  IInv'
<1>1. InvalidateEffect(f)
  BY InvalidateFacts
<1>2. TypeOK' /\ deps' = deps /\ rdeps' = rdeps
  BY <1>1 DEF InvalidateEffect
<1>3. GraphMirrored'
  BY <1>2 DEF IInv, GraphMirrored
<1>4. ProducerActive'
  <2> SUFFICES ASSUME NEW s \in Symbol, producer'[s] # NoFragment
               PROVE  IsActive(producer[s])' /\ s \in fragments'[producer[s]].defined
                      /\ producer'[s] = producer[s]
    BY DEF ProducerActive, IsActive
  <2>1. producer'[s] = producer[s] /\ producer[s] \notin Deactivating(f)
    BY <1>1 DEF InvalidateEffect
  <2>2. producer[s] \in Fragment
    BY <2>1 DEF IInv, TypeOK
  <2>3. IsActive(producer[s]) /\ s \in fragments[producer[s]].defined
    BY <2>1 DEF IInv, ProducerActive
  <2>4. producer[s] \notin InvalidatedFragments(f)
    BY <2>1, <2>3 DEF Deactivating
  <2> QED BY <1>1, <2>1, <2>2, <2>3, <2>4 DEF InvalidateEffect, IsActive
<1>5. ActiveDependsOnActive'
  <2> SUFFICES ASSUME NEW a \in Fragment, IsActive(a)', NEW b \in deps[a]
               PROVE  IsActive(b)'
    BY <1>2 DEF ActiveDependsOnActive
  <2>1. b \in Fragment /\ a \in rdeps[b]
    BY DEF IInv, TypeOK, GraphMirrored, Mirrored
  <2>2. IsActive(a) /\ a \notin InvalidatedFragments(f)
    BY <1>1 DEF InvalidateEffect, IsActive
  <2>3. IsActive(b)
    BY <2>2 DEF IInv, ActiveDependsOnActive
  <2>4. b # f
    <3>1. rdeps[f] \subseteq Dependents(rdeps, f)
      BY DirectAreDependents DEF IInv, TypeOK
    <3> QED BY <2>1, <2>2, <3>1 DEF InvalidatedFragments
  <2>5. b \notin Dependents(rdeps, f)
    <3> SUFFICES ASSUME b \in Dependents(rdeps, f) PROVE FALSE
      OBVIOUS
    <3>1. rdeps[b] \subseteq Dependents(rdeps, f)
      BY DependentsClosed DEF IInv, TypeOK
    <3> QED BY <2>1, <2>2, <3>1 DEF InvalidatedFragments
  <2> QED BY <1>1, <2>1, <2>3, <2>4, <2>5 DEF InvalidateEffect, InvalidatedFragments, IsActive
<1>6. ActiveAcyclic'
  BY <1>1, <1>2 DEF InvalidateEffect, IInv, ActiveAcyclic, IsActive
<1> QED BY <1>2, <1>3, <1>4, <1>5, <1>6 DEF IInv

\* What a build of f with dependencies E does.
BuildEffect(f, E) ==
  /\ TypeOK' /\ GraphMirrored'
  /\ ~IsActive(f) /\ IsActive(f)'
  /\ \A g \in Fragment : g # f => fragments'[g] = fragments[g]
  /\ E \in SUBSET Fragment /\ f \notin E
  /\ \A g \in E : IsActive(g)
  /\ deps' = [deps EXCEPT ![f] = E]
  /\ \A m \in Fragment :
       /\ rdeps'[m] \subseteq rdeps[m] \cup {f}
       /\ m \notin E => rdeps'[m] = rdeps[m] \ {f}
  /\ \A s \in Symbol :
       \/ producer'[s] = f /\ s \in fragments'[f].defined
       \/ producer'[s] = producer[s]

\* BuildFragment has that effect: the producers it reads are active, and f is
\* inactive, so f is not among them.
LEMMA BuildFacts ==
  ASSUME IInv, NEW f \in Fragment,
         NEW D \in SUBSET Symbol, NEW U \in SUBSET Symbol,
         BuildFragment(f, D, U)
  PROVE  BuildEffect(f, ProducersOf(f, U))
<1> USE NoFragmentIsNone
<1> DEFINE E == ProducersOf(f, U)
<1>1. E \in SUBSET Fragment /\ f \notin E
  BY DEF IInv, TypeOK, ProducersOf
<1>2. \A g \in E : IsActive(g)
  BY DEF IInv, ProducerActive, ProducersOf
<1>3. /\ ~IsActive(f)
      /\ fragments' = [fragments EXCEPT ![f] =
                         [built |-> TRUE, active |-> TRUE, defined |-> D]]
      /\ deps' = SetDeps(deps, f, E) /\ rdeps' = SetRdeps(deps, rdeps, f, E)
      /\ producer' = [s \in Symbol |-> IF s \in D THEN f ELSE producer[s]]
  BY DEF BuildFragment
<1> HIDE DEF E
<1>4. /\ deps \in [Fragment -> SUBSET Fragment] /\ rdeps \in [Fragment -> SUBSET Fragment]
      /\ Mirrored(deps, rdeps)
  BY DEF IInv, TypeOK, GraphMirrored
<1>5. deps' \in [Fragment -> SUBSET Fragment] /\ rdeps' \in [Fragment -> SUBSET Fragment]
  BY <1>1, <1>3, <1>4, SetEdgesType
<1>6. GraphMirrored'
  BY <1>1, <1>3, <1>4, SetEdgesMirrored DEF GraphMirrored
<1>7. TypeOK'
  BY <1>3, <1>5 DEF IInv, TypeOK
<1>8. fragments'[f] = [built |-> TRUE, active |-> TRUE, defined |-> D]
      /\ \A g \in Fragment : g # f => fragments'[g] = fragments[g]
  BY <1>3 DEF IInv, TypeOK
<1>9. ASSUME NEW m \in Fragment
      PROVE  /\ rdeps'[m] \subseteq rdeps[m] \cup {f}
             /\ m \notin E => rdeps'[m] = rdeps[m] \ {f}
  <2>1. m \in deps[f] <=> f \in rdeps[m]
    BY <1>4 DEF Mirrored
  <2> QED BY <1>3, <1>4, <2>1 DEF SetRdeps
<1>10. IsActive(f)'
  BY <1>8 DEF IsActive
<1>11. \A s \in Symbol : \/ producer'[s] = f /\ s \in fragments'[f].defined
                         \/ producer'[s] = producer[s]
  BY <1>3, <1>8
<1> QED BY <1>1, <1>2, <1>3, <1>6, <1>7, <1>8, <1>9, <1>10, <1>11
        DEF BuildEffect, SetDeps, E

\* A build keeps the invariant.
LEMMA BuildIInv ==
  ASSUME IInv, NEW f \in Fragment,
         NEW D \in SUBSET Symbol, NEW U \in SUBSET Symbol,
         BuildFragment(f, D, U)
  PROVE  IInv'
<1> DEFINE E == ProducersOf(f, U)
<1>1. BuildEffect(f, E)
  BY BuildFacts
<1> HIDE DEF E
<1>2. TypeOK' /\ GraphMirrored'
  BY <1>1 DEF BuildEffect
<1>3. \A g \in Fragment : g # f => IsActive(g)' = IsActive(g)
  BY <1>1 DEF BuildEffect, IsActive
<1>4. ProducerActive'
  <2> SUFFICES ASSUME NEW s \in Symbol, producer'[s] # NoFragment
               PROVE  fragments'[producer'[s]].active
                      /\ s \in fragments'[producer'[s]].defined
    BY DEF ProducerActive, IsActive
  <2>1. CASE producer'[s] = f /\ s \in fragments'[f].defined
    BY <1>1, <2>1 DEF BuildEffect, IsActive
  <2>2. CASE producer'[s] = producer[s]
    <3>1. producer[s] \in Fragment /\ fragments[producer[s]].active
          /\ s \in fragments[producer[s]].defined
      BY <2>2 DEF IInv, TypeOK, ProducerActive, IsActive
    <3>2. producer[s] # f
      BY <1>1, <3>1 DEF BuildEffect, IsActive
    <3> QED BY <1>1, <2>2, <3>1, <3>2 DEF BuildEffect
  <2> QED BY <1>1, <2>1, <2>2 DEF BuildEffect
<1>5. ActiveDependsOnActive'
  <2> SUFFICES ASSUME NEW a \in Fragment, IsActive(a)', NEW b \in deps'[a]
               PROVE  IsActive(b)'
    BY DEF ActiveDependsOnActive
  <2>1. b \in Fragment
    BY <1>2 DEF TypeOK
  <2>2. CASE a = f
    <3>1. b \in E /\ b # f
      BY <1>1, <2>2 DEF BuildEffect, IInv, TypeOK
    <3> QED BY <1>1, <1>3, <2>1, <3>1 DEF BuildEffect
  <2>3. CASE a # f
    <3>1. IsActive(a) /\ b \in deps[a]
      BY <1>1, <1>3, <2>3 DEF BuildEffect, IInv, TypeOK
    <3>2. IsActive(b) /\ b # f
      BY <1>1, <3>1 DEF BuildEffect, IInv, ActiveDependsOnActive
    <3> QED BY <1>3, <2>1, <3>2
  <2> QED BY <2>2, <2>3
<1>6. rdeps \in [Fragment -> SUBSET Fragment] /\ rdeps' \in [Fragment -> SUBSET Fragment]
  BY <1>2 DEF IInv, TypeOK
<1>7. f \notin Dependents(rdeps', f)
  <2> DEFINE C == Inactive \ {f}
  <2>1. \A m \in Inactive : rdeps'[m] \subseteq C
    <3> SUFFICES ASSUME NEW m \in Inactive PROVE rdeps'[m] \subseteq C
      OBVIOUS
    <3>1. m \in Fragment /\ ~IsActive(m)
      BY DEF Inactive
    <3>2. rdeps'[m] = rdeps[m] \ {f}
      BY <1>1, <3>1 DEF BuildEffect
    <3>3. rdeps[m] \subseteq Inactive
      BY <3>1, InactiveClosed
    <3> QED BY <3>2, <3>3
  <2>2. f \in Inactive /\ C \in SUBSET Fragment
    BY <1>1 DEF BuildEffect, Inactive
  <2>3. Dependents(rdeps', f) \subseteq C
    BY <1>6, <2>1, <2>2, DependentsLeast
  <2> QED BY <2>3
<1>8. ASSUME NEW h \in Fragment, h # f, IsActive(h)
      PROVE  h \notin Dependents(rdeps', h)
  <2> DEFINE X == Dependents(rdeps, h) \cup Inactive
  <2>1. f \in X /\ X \in SUBSET Fragment
    BY <1>1, <1>6, DependentsAreNodes DEF BuildEffect, Inactive
  <2>2. rdeps[h] \subseteq X
    BY <1>6, DirectAreDependents
  <2>3. ASSUME NEW m \in X PROVE rdeps[m] \subseteq X
    <3>1. CASE m \in Dependents(rdeps, h)
      BY <1>6, <3>1, DependentsClosed
    <3>2. CASE m \in Inactive
      <4>1. m \in Fragment /\ ~IsActive(m)
        BY <3>2 DEF Inactive
      <4> QED BY <4>1, InactiveClosed
    <3> QED BY <2>3, <3>1, <3>2
  <2>4. h \notin X
    BY <1>8 DEF IInv, ActiveAcyclic, Inactive
  <2> HIDE DEF X
  <2>5. rdeps'[h] \subseteq X /\ \A m \in X : rdeps'[m] \subseteq X
    BY <1>1, <2>1, <2>2, <2>3 DEF BuildEffect
  <2>6. Dependents(rdeps', h) \subseteq X
    BY <1>6, <2>1, <2>5, DependentsLeast
  <2> QED BY <2>4, <2>6
<1>9. ActiveAcyclic'
  BY <1>3, <1>7, <1>8 DEF ActiveAcyclic
<1> QED BY <1>2, <1>4, <1>5, <1>9 DEF IInv

\* Resetting the builder keeps the invariant.
LEMMA ResetIInv ==
  ASSUME Reset
  PROVE  IInv'
<1>1. /\ fragments' = [f \in Fragment |-> Blank]
      /\ producer' = [s \in Symbol |-> NoFragment]
      /\ deps' = NoEdges(Fragment) /\ rdeps' = NoEdges(Fragment)
  BY DEF Reset
<1>2. TypeOK'
  BY <1>1, NoEdgesFacts DEF TypeOK, Blank
<1>3. GraphMirrored'
  BY <1>1, NoEdgesFacts DEF GraphMirrored
<1>4. \A f \in Fragment : ~IsActive(f)'
  BY <1>1 DEF IsActive, Blank
<1>5. ProducerActive'
  BY <1>1 DEF ProducerActive
<1> QED BY <1>2, <1>3, <1>4, <1>5 DEF IInv, ActiveDependsOnActive, ActiveAcyclic

\* Every step keeps the invariant.
LEMMA NextIInv == IInv /\ [Next]_vars => IInv'
<1> SUFFICES ASSUME IInv, [Next]_vars PROVE IInv'
  OBVIOUS
<1>1. ASSUME NEW f \in Fragment, InvalidateFragment(f) PROVE IInv'
  BY <1>1, InvalidateIInv
<1>2. ASSUME NEW f \in Fragment, NEW D \in SUBSET Symbol, NEW U \in SUBSET Symbol,
             BuildFragment(f, D, U)
      PROVE  IInv'
  BY <1>2, BuildIInv
<1>3. CASE Reset
  BY <1>3, ResetIInv
<1>4. CASE UNCHANGED vars
  BY <1>4
  DEF vars, IInv, TypeOK, GraphMirrored, ProducerActive, ActiveDependsOnActive,
      ActiveAcyclic, IsActive
<1> QED BY <1>1, <1>2, <1>3, <1>4 DEF Next

\* The invariant holds in every state of every run of the builder.
THEOREM FragmentInvariant == Spec => []IInv
BY InitIInv, NextIInv, PTL DEF Spec

\* The producer map never names a fragment that was invalidated: the entries
\* are erased in invalidate_fragment.
THEOREM FragmentProducerActive == Spec => []ProducerActive
<1>1. IInv => ProducerActive
  BY DEF IInv
<1> QED BY FragmentInvariant, <1>1, PTL

\* An active fragment depends on active fragments only, for every number of
\* fragments and every history of rebuilds under reused ids.
THEOREM FragmentDependsOnActive == Spec => []ActiveDependsOnActive
<1>1. IInv => ActiveDependsOnActive
  BY DEF IInv
<1> QED BY FragmentInvariant, <1>1, PTL

\* No active fragment is its own transitive dependent, so invalidating a
\* fragment never reaches it a second time through the graph.
THEOREM FragmentAcyclic == Spec => []ActiveAcyclic
<1>1. IInv => ActiveAcyclic
  BY DEF IInv
<1> QED BY FragmentInvariant, <1>1, PTL

\* The initial state of the builder is that of the abstract specification.
LEMMA AbstractInit == Init => Abstract!Init
BY DEF Init, Blank, NoEdges, Abstract!Init, Abstract!NoEdges, IsActive

\* Under the invariant, the abstract downstream set is what the code walks.
LEMMA DownstreamIsWalked ==
  ASSUME IInv, NEW f
  PROVE  Abstract!Downstream({f}) = Dependents(rdeps, f)
<1>1. rdeps = [b \in Fragment |-> {a \in Fragment : b \in deps[a]}]
  <2>1. /\ deps \in [Fragment -> SUBSET Fragment] /\ rdeps \in [Fragment -> SUBSET Fragment]
        /\ Mirrored(deps, rdeps)
    BY DEF IInv, TypeOK, GraphMirrored
  <2> QED BY <2>1, MirroredIsReversed
<1>2. Abstract!Reversed = rdeps
  BY <1>1 DEF Abstract!Reversed
<1>3. Abstract!Dependents(rdeps, f) = Dependents(rdeps, f)
  BY DEF Dependents, ClosedSets, Abstract!Dependents, Abstract!ClosedSets
<1> QED BY <1>2, <1>3 DEF Abstract!Downstream

\* Every step of the builder is an abstract step or changes nothing abstract.
LEMMA AbstractStep ==
  ASSUME IInv, [Next]_vars
  PROVE  [Abstract!Next]_(Abstract!vars)
<1>1. ASSUME NEW f \in Fragment, InvalidateFragment(f)
      PROVE  Abstract!Withdraw({f})
  <2>1. InvalidateEffect(f)
    BY <1>1, InvalidateFacts
  <2>2. Abstract!Downstream({f}) = Dependents(rdeps, f)
    BY DownstreamIsWalked
  <2>3. {g \in Fragment : IsActive(g)'}
          = {g \in Fragment : IsActive(g)} \ ({f} \cup Dependents(rdeps, f))
    BY <2>1 DEF InvalidateEffect, InvalidatedFragments
  <2> QED BY <2>1, <2>2, <2>3 DEF InvalidateEffect, Abstract!Withdraw
<1>2. ASSUME NEW f \in Fragment, NEW D \in SUBSET Symbol, NEW U \in SUBSET Symbol,
             BuildFragment(f, D, U)
      PROVE  Abstract!Define(f, ProducersOf(f, U)) /\ ProducersOf(f, U) \in SUBSET Fragment
  <2>1. BuildEffect(f, ProducersOf(f, U))
    BY <1>2, BuildFacts
  <2>2. Dependents(rdeps, f) \subseteq Inactive
    BY <2>1, InactiveDependents DEF BuildEffect
  <2>3. Abstract!Downstream({f}) \subseteq Inactive
    BY <2>2, DownstreamIsWalked
  <2>4. ASSUME NEW g \in Fragment
        PROVE  IsActive(g)' <=> IsActive(g) \/ g = f
    BY <2>1 DEF BuildEffect, IsActive
  <2>5. {g \in Fragment : IsActive(g)'}
          = ({g \in Fragment : IsActive(g)} \ Abstract!Downstream({f})) \cup {f}
    BY <2>3, <2>4 DEF Inactive
  <2> QED BY <2>1, <2>5 DEF BuildEffect, Abstract!Define
<1>3. CASE Reset
  <2>1. Abstract!Clear
    BY <1>3 DEF Reset, Abstract!Clear, IsActive, Blank, NoEdges, Abstract!NoEdges
  <2> QED BY <2>1 DEF Abstract!Next
<1>4. CASE UNCHANGED vars
  BY <1>4 DEF vars, Abstract!vars, IsActive
<1>5. \A f \in Fragment : {f} \in SUBSET Fragment
  OBVIOUS
<1> QED BY <1>1, <1>2, <1>3, <1>4, <1>5 DEF Next, Abstract!Next

\* The builder implements the abstract specification of staleness: an
\* invalidation takes down exactly the fragment and what is downstream of it,
\* and a rebuild makes no other fragment active or inactive.
THEOREM FragmentsRefine == Spec => ImplementsInvalidation
BY FragmentInvariant, AbstractInit, AbstractStep, PTL
DEF Spec, ImplementsInvalidation, Abstract!Spec
==============================================================================
