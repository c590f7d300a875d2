-------------------------- MODULE EpochManagerProofs --------------------------
(***************************************************************************)
(* Proofs about EpochManager for every set of cells and symbols and every  *)
(* number of epochs.                                                       *)
(*                                                                         *)
(* Epochs are numbered in the order of their creation, so, unlike          *)
(* fragments, they cannot meet edges of an earlier life: an epoch that is  *)
(* not created yet is blank (Unborn), and no epoch depends on a later one  *)
(* (DependsOnEarlier).  It follows that nothing depends on the epoch of    *)
(* the execution under way, which is what CommitEpoch needs.               *)
(***************************************************************************)
EXTENDS EpochManager, DependencyGraphProofs

Unborn == \A e \in EpochId : e > counter => epochs[e] = Blank /\ deps[e] = {}

InProgress ==
  /\ running # NoEpoch =>
       /\ epochs[running].defined = {}
       /\ \A c \in epochs[running].cells : cellEpoch[c] = running
  /\ running = NoEpoch => stale = NoEpoch
  /\ stale # NoEpoch => stale < counter

CellEpochsExist == \A c \in Cell : cellEpoch[c] <= counter

IInv ==
  /\ TypeOK
  /\ GraphMirrored
  /\ Unborn
  /\ InProgress
  /\ CellEpochsExist
  /\ ProducerLive
  /\ ValidDependsOnValid
  /\ DependsOnEarlier
  /\ OneValidEpochPerCell

\* The invariant holds of an empty epoch system.
LEMMA InitIInv ==
  ASSUME counter = 0,
         epochs = [e \in EpochId |-> Blank],
         cellEpoch = [c \in Cell |-> NoEpoch],
         producer = [s \in Symbol |-> NoEpoch],
         deps = NoEdges(EpochId), rdeps = NoEdges(EpochId),
         running = NoEpoch, stale = NoEpoch
  PROVE  IInv
<1> USE EpochBound
<1>1. deps \in [EpochId -> SUBSET EpochId] /\ rdeps \in [EpochId -> SUBSET EpochId]
      /\ GraphMirrored
  BY NoEdgesFacts DEF GraphMirrored
<1>2. TypeOK
  BY <1>1 DEF TypeOK, Blank, EpochRecord, NoEpoch
<1>3. \A e \in EpochId : epochs[e] = Blank /\ deps[e] = {}
  BY DEF NoEdges
<1>4. Unborn /\ InProgress /\ CellEpochsExist
  BY <1>3 DEF Unborn, InProgress, CellEpochsExist, NoEpoch
<1>5. ProducerLive
  BY DEF ProducerLive
<1> QED BY <1>1, <1>2, <1>3, <1>4, <1>5
        DEF IInv, ValidDependsOnValid, DependsOnEarlier, OneValidEpochPerCell, Blank

\* Nothing depends on the newest epoch or on one that does not exist yet.
LEMMA NewestHasNoDependents ==
  ASSUME IInv, NEW e \in EpochId, e >= counter
  PROVE  rdeps[e] = {} /\ Dependents(rdeps, e) = {}
<1>1. rdeps \in [EpochId -> SUBSET EpochId]
  BY DEF IInv, TypeOK
<1>2. ASSUME NEW a \in EpochId, a \in rdeps[e] PROVE FALSE
  <2>1. e \in deps[a]
    BY <1>2 DEF IInv, TypeOK, GraphMirrored, Mirrored
  <2>2. e < a
    BY <2>1 DEF IInv, DependsOnEarlier
  <2>3. a \in Nat /\ e \in Nat /\ counter \in Nat
    BY EpochBound DEF IInv, TypeOK, EpochId
  <2>4. a > counter
    BY <2>2, <2>3
  <2> QED BY <2>1, <2>4 DEF IInv, Unborn
<1>3. rdeps[e] = {}
  BY <1>1, <1>2
<1> QED BY <1>1, <1>3, NoDependents

\* A producer is an epoch that exists.
LEMMA ProducersExist ==
  ASSUME IInv, NEW s \in Symbol, producer[s] # NoEpoch
  PROVE  producer[s] \in EpochId /\ producer[s] <= counter /\ epochs[producer[s]].valid
<1>1. producer[s] \in EpochId /\ epochs[producer[s]].valid
  BY EpochBound DEF IInv, TypeOK, ProducerLive, EpochId, NoEpoch
<1>2. counter \in Nat /\ producer[s] \in Nat
  BY <1>1, EpochBound DEF IInv, TypeOK, EpochId
<1> QED BY <1>1, <1>2 DEF IInv, Unborn, Blank

\* Opening an epoch keeps the invariant.
LEMMA CreateIInv ==
  ASSUME IInv, NEW c \in Cell, CreateEpoch(c)
  PROVE  IInv'
<1> USE EpochBound
<1> DEFINE n == counter + 1
<1>1. /\ counter \in Nat /\ counter < MaxEpoch /\ n \in EpochId
      /\ counter' = n /\ running' = n /\ stale' = cellEpoch[c]
      /\ running = NoEpoch /\ stale = NoEpoch
      /\ epochs' = [epochs EXCEPT ![n] = [valid |-> TRUE, cells |-> {c}, defined |-> {}]]
      /\ cellEpoch' = [cellEpoch EXCEPT ![c] = n]
      /\ deps' = [deps EXCEPT ![n] = {}]
      /\ producer' = producer /\ rdeps' = rdeps
  BY DEF CreateEpoch, AssignEpoch, IInv, TypeOK, InProgress, EpochId
<1>2. epochs[n] = Blank /\ deps[n] = {}
  BY <1>1 DEF IInv, Unborn
<1> HIDE DEF n
<1>3. deps' = deps
  BY <1>1, <1>2 DEF IInv, TypeOK
<1>4. /\ epochs'[n] = [valid |-> TRUE, cells |-> {c}, defined |-> {}]
      /\ \A e \in EpochId : e # n => epochs'[e] = epochs[e]
      /\ \A b \in Cell : cellEpoch'[b] = IF b = c THEN n ELSE cellEpoch[b]
  BY <1>1 DEF IInv, TypeOK
<1>5. cellEpoch[c] \in 0..MaxEpoch /\ cellEpoch[c] <= counter
  BY DEF IInv, TypeOK, CellEpochsExist
<1>6. epochs' \in [EpochId -> EpochRecord]
  <2>1. [valid |-> TRUE, cells |-> {c}, defined |-> {}] \in EpochRecord
    BY DEF EpochRecord
  <2> QED BY <1>1, <2>1 DEF IInv, TypeOK
<1>7. n = counter + 1 /\ n \in 0..MaxEpoch /\ n # 0
  BY <1>1 DEF n, EpochId
<1>8. TypeOK'
  <2>1. cellEpoch' \in [Cell -> 0..MaxEpoch]
    BY <1>1, <1>7 DEF IInv, TypeOK
  <2> QED BY <1>1, <1>3, <1>5, <1>6, <1>7, <2>1 DEF IInv, TypeOK
<1>9. GraphMirrored' /\ DependsOnEarlier'
  BY <1>1, <1>3 DEF IInv, GraphMirrored, DependsOnEarlier
<1>10. Unborn'
  <2> SUFFICES ASSUME NEW e \in EpochId, e > n
               PROVE  epochs'[e] = Blank /\ deps[e] = {}
    BY <1>1, <1>3 DEF Unborn
  <2>1. e > counter /\ e # n
    BY <1>1, <1>7 DEF EpochId
  <2> QED BY <1>4, <2>1 DEF IInv, Unborn
<1>11. InProgress'
  BY <1>1, <1>4, <1>5, <1>7 DEF InProgress, NoEpoch
<1>12. CellEpochsExist'
  <2> SUFFICES ASSUME NEW b \in Cell PROVE cellEpoch'[b] <= n
    BY <1>1 DEF CellEpochsExist
  <2>1. cellEpoch[b] \in 0..MaxEpoch /\ cellEpoch[b] <= counter
    BY DEF IInv, TypeOK, CellEpochsExist
  <2> QED BY <1>1, <1>4, <1>7, <2>1
<1>13. ProducerLive'
  <2> SUFFICES ASSUME NEW s \in Symbol, producer[s] # NoEpoch
               PROVE  epochs'[producer[s]].valid /\ s \in epochs'[producer[s]].defined
    BY <1>1 DEF ProducerLive
  <2>1. producer[s] \in EpochId /\ producer[s] # n
    BY <1>2, ProducersExist DEF Blank
  <2> QED BY <1>4, <2>1 DEF IInv, ProducerLive
<1>14. ValidDependsOnValid'
  <2> SUFFICES ASSUME NEW e \in EpochId, epochs'[e].valid, NEW d \in deps[e]
               PROVE  epochs'[d].valid
    BY <1>3 DEF ValidDependsOnValid
  <2>1. e # n /\ d \in EpochId
    BY <1>2 DEF IInv, TypeOK
  <2>2. epochs[d].valid
    BY <1>4, <2>1 DEF IInv, ValidDependsOnValid
  <2> QED BY <1>2, <1>4, <2>1, <2>2 DEF Blank
<1>15. OneValidEpochPerCell'
  <2> SUFFICES ASSUME NEW e \in EpochId, NEW b \in Cell,
                      epochs'[e].valid, b \in epochs'[e].cells, e # cellEpoch[c]
               PROVE  cellEpoch'[b] = e
    BY <1>1 DEF OneValidEpochPerCell
  <2>1. CASE e = n
    BY <1>4, <2>1
  <2>2. CASE e # n
    <3>1. e # stale
      BY <1>1 DEF EpochId, NoEpoch
    <3>2. cellEpoch[b] = e
      BY <1>4, <2>2, <3>1 DEF IInv, OneValidEpochPerCell
    <3> QED BY <1>4, <3>2
  <2> QED BY <2>1, <2>2
<1> QED BY <1>8, <1>9, <1>10, <1>11, <1>12, <1>13, <1>14, <1>15 DEF IInv

\* What invalidating the old epoch does.
InvalidateEffect ==
  /\ stale \in EpochId /\ stale' = NoEpoch
  /\ UNCHANGED <<counter, cellEpoch, deps, rdeps, running>>
  /\ TypeOK'
  /\ \A e \in EpochId :
       /\ epochs'[e].valid = (epochs[e].valid /\ e \notin Affected(stale))
       /\ epochs'[e].cells = epochs[e].cells
       /\ epochs'[e].defined = epochs[e].defined
       /\ epochs[e] = Blank => epochs'[e] = Blank
  /\ \A s \in Symbol :
       producer'[s] # NoEpoch =>
         producer'[s] = producer[s] /\ producer[s] \notin Falling(stale)

\* InvalidateOld has that effect.
LEMMA InvalidateFacts ==
  ASSUME IInv, InvalidateOld
  PROVE  InvalidateEffect
<1> USE EpochBound
<1> DEFINE gone == Falling(stale)
<1>1. /\ stale \in EpochId /\ stale' = NoEpoch
      /\ UNCHANGED <<counter, cellEpoch, deps, rdeps, running>>
      /\ epochs' = [e \in EpochId |-> IF e \in gone THEN [epochs[e] EXCEPT !.valid = FALSE]
                                      ELSE epochs[e]]
      /\ producer' = [s \in Symbol |-> IF producer[s] \in gone THEN NoEpoch ELSE producer[s]]
  BY DEF InvalidateOld, ProducersAfter, IInv, TypeOK, EpochId, NoEpoch
<1>2. \A e \in EpochId : e \in gone <=> e \in Affected(stale) /\ epochs[e].valid
  BY DEF Falling
<1>3. \A e \in EpochId : epochs[e] \in EpochRecord
  BY DEF IInv, TypeOK
<1> HIDE DEF gone
<1>4. ASSUME NEW e \in EpochId
      PROVE  /\ epochs'[e] \in EpochRecord
             /\ epochs'[e].valid = (epochs[e].valid /\ e \notin gone)
             /\ epochs'[e].cells = epochs[e].cells
             /\ epochs'[e].defined = epochs[e].defined
  BY <1>1, <1>3 DEF EpochRecord
<1>5. TypeOK'
  <2>1. epochs' \in [EpochId -> EpochRecord]
    BY <1>1, <1>4
  <2>2. producer' \in [Symbol -> 0..MaxEpoch]
    BY <1>1 DEF IInv, TypeOK, NoEpoch
  <2> QED BY <1>1, <2>1, <2>2 DEF IInv, TypeOK, NoEpoch
<1>6. \A e \in EpochId : epochs'[e].valid = (epochs[e].valid /\ e \notin Affected(stale))
  BY <1>2, <1>3, <1>4 DEF EpochRecord
<1>7. \A e \in EpochId : epochs[e] = Blank => epochs'[e] = Blank
  BY <1>1, <1>2 DEF Blank
<1>8. \A s \in Symbol : producer'[s] # NoEpoch =>
        producer'[s] = producer[s] /\ producer[s] \notin gone
  BY <1>1
<1> QED BY <1>1, <1>4, <1>5, <1>6, <1>7, <1>8 DEF InvalidateEffect, gone

\* Invalidating the old epoch keeps the invariant: an epoch that stays valid
\* depends on none that falls.
LEMMA InvalidateIInv ==
  ASSUME IInv, InvalidateOld
  PROVE  IInv'
<1>1. InvalidateEffect
  BY InvalidateFacts
<1>2. TypeOK' /\ UNCHANGED <<counter, cellEpoch, deps, rdeps, running>>
      /\ stale \in EpochId /\ stale' = NoEpoch
  BY <1>1 DEF InvalidateEffect
<1>3. GraphMirrored' /\ DependsOnEarlier' /\ CellEpochsExist'
  BY <1>2 DEF IInv, GraphMirrored, DependsOnEarlier, CellEpochsExist
<1>4. Unborn'
  BY <1>1, <1>2 DEF InvalidateEffect, IInv, Unborn
<1>5. InProgress'
  <2>1. running # NoEpoch => running \in EpochId
    BY EpochBound DEF IInv, TypeOK, EpochId, NoEpoch
  <2> QED BY <1>1, <1>2, <2>1 DEF InvalidateEffect, IInv, InProgress
<1>6. ProducerLive'
  <2> SUFFICES ASSUME NEW s \in Symbol, producer'[s] # NoEpoch
               PROVE  epochs'[producer'[s]].valid /\ s \in epochs'[producer'[s]].defined
    BY DEF ProducerLive
  <2>1. producer'[s] = producer[s] /\ producer[s] \notin Falling(stale)
    BY <1>1 DEF InvalidateEffect
  <2>2. producer[s] \in EpochId /\ epochs[producer[s]].valid
        /\ s \in epochs[producer[s]].defined
    BY <2>1, ProducersExist DEF IInv, ProducerLive
  <2>3. producer[s] \notin Affected(stale)
    BY <2>1, <2>2 DEF Falling
  <2> DEFINE p == producer[s]
  <2>4. epochs'[p].valid = (epochs[p].valid /\ p \notin Affected(stale))
        /\ epochs'[p].defined = epochs[p].defined
    BY <1>1, <2>2 DEF InvalidateEffect
  <2> QED BY <2>1, <2>2, <2>3, <2>4
<1>7. ValidDependsOnValid'
  <2> SUFFICES ASSUME NEW e \in EpochId, epochs'[e].valid, NEW d \in deps[e]
               PROVE  epochs'[d].valid
    BY <1>2 DEF ValidDependsOnValid
  <2>1. rdeps \in [EpochId -> SUBSET EpochId]
    BY DEF IInv, TypeOK
  <2>2. d \in EpochId /\ e \in rdeps[d]
    BY DEF IInv, TypeOK, GraphMirrored, Mirrored
  <2>3. epochs[e].valid /\ e \notin Affected(stale)
    BY <1>1 DEF InvalidateEffect
  <2>4. epochs[d].valid
    BY <2>3 DEF IInv, ValidDependsOnValid
  <2>5. d # stale
    <3>1. rdeps[stale] \subseteq Dependents(rdeps, stale)
      BY <1>2, <2>1, DirectAreDependents
    <3> QED BY <2>2, <2>3, <3>1 DEF Affected
  <2>6. d \notin Dependents(rdeps, stale)
    <3> SUFFICES ASSUME d \in Dependents(rdeps, stale) PROVE FALSE
      OBVIOUS
    <3>1. rdeps[d] \subseteq Dependents(rdeps, stale)
      BY <1>2, <2>1, DependentsClosed
    <3> QED BY <2>2, <2>3, <3>1 DEF Affected
  <2> QED BY <1>1, <2>2, <2>4, <2>5, <2>6 DEF InvalidateEffect, Affected
<1>8. OneValidEpochPerCell'
  <2> SUFFICES ASSUME NEW e \in EpochId, NEW c \in Cell,
                      epochs'[e].valid, c \in epochs'[e].cells
               PROVE  cellEpoch[c] = e
    BY <1>2 DEF OneValidEpochPerCell
  <2>1. epochs[e].valid /\ e \notin Affected(stale) /\ c \in epochs[e].cells
    BY <1>1 DEF InvalidateEffect
  <2> QED BY <2>1 DEF IInv, OneValidEpochPerCell, Affected
<1> QED BY <1>2, <1>3, <1>4, <1>5, <1>6, <1>7, <1>8 DEF IInv

\* What committing the running epoch does.
CommitEffect(c, D, U) ==
  /\ running \in EpochId /\ running = counter /\ stale = NoEpoch
  /\ cellEpoch[c] = running
  /\ running' = NoEpoch
  /\ UNCHANGED <<counter, cellEpoch, stale>>
  /\ TypeOK' /\ GraphMirrored'
  /\ ProducersOf(U) \in SUBSET EpochId
  /\ \A d \in ProducersOf(U) : epochs[d].valid /\ d < running
  /\ deps' = [deps EXCEPT ![running] = ProducersOf(U)]
  /\ epochs'[running] =
       [valid |-> TRUE, cells |-> epochs[running].cells \cup {c}, defined |-> D]
  /\ \A e \in EpochId : e # running => epochs'[e] = epochs[e]
  /\ \A s \in Symbol : producer'[s] = IF s \in D THEN running ELSE producer[s]

\* CommitEpoch has that effect: the producers it depends on are valid epochs
\* older than the running one.
LEMMA CommitFacts ==
  ASSUME IInv, NEW c \in Cell, NEW D \in SUBSET Symbol, NEW U \in SUBSET Symbol,
         CommitEpoch(c, D, U)
  PROVE  CommitEffect(c, D, U)
<1> USE EpochBound
<1> DEFINE E == ProducersOf(U)
<1>1. /\ running = counter /\ stale = NoEpoch /\ cellEpoch[c] = running
      /\ running' = NoEpoch /\ UNCHANGED <<counter, cellEpoch, stale>>
      /\ epochs' = [epochs EXCEPT ![running] =
           [valid |-> TRUE, cells |-> epochs[running].cells \cup {c}, defined |-> D]]
      /\ deps' = SetDeps(deps, running, E) /\ rdeps' = SetRdeps(deps, rdeps, running, E)
      /\ producer' = [s \in Symbol |-> IF s \in D THEN running ELSE producer[s]]
  BY DEF CommitEpoch, IInv, TypeOK
<1>2. running \in EpochId
  BY DEF CommitEpoch, IInv, TypeOK, EpochId, NoEpoch
<1>3. ASSUME NEW d \in E
      PROVE  d \in EpochId /\ epochs[d].valid /\ d < running
  <2>1. PICK u \in U : d = producer[u] /\ d # NoEpoch /\ d # running
    BY <1>3 DEF ProducersOf
  <2>2. d \in EpochId /\ d <= counter /\ epochs[d].valid
    BY <2>1, ProducersExist
  <2> QED BY <1>1, <1>2, <2>1, <2>2 DEF EpochId
<1>4. E \in SUBSET EpochId
  BY <1>3
<1> HIDE DEF E
<1>5. /\ deps \in [EpochId -> SUBSET EpochId] /\ rdeps \in [EpochId -> SUBSET EpochId]
      /\ Mirrored(deps, rdeps)
  BY DEF IInv, TypeOK, GraphMirrored
<1>6. deps' \in [EpochId -> SUBSET EpochId] /\ rdeps' \in [EpochId -> SUBSET EpochId]
  BY <1>1, <1>2, <1>4, <1>5, SetEdgesType
<1>7. GraphMirrored'
  BY <1>1, <1>2, <1>4, <1>5, SetEdgesMirrored DEF GraphMirrored
<1>8. epochs' \in [EpochId -> EpochRecord]
  <2>1. epochs[running].cells \in SUBSET Cell
    BY <1>2 DEF IInv, TypeOK, EpochRecord
  <2>2. [valid |-> TRUE, cells |-> epochs[running].cells \cup {c}, defined |-> D]
          \in EpochRecord
    BY <2>1 DEF EpochRecord
  <2> QED BY <1>1, <2>2 DEF IInv, TypeOK
<1>9. producer' \in [Symbol -> 0..MaxEpoch]
  BY <1>1, <1>2 DEF IInv, TypeOK, EpochId
<1>10. TypeOK'
  BY <1>1, <1>6, <1>8, <1>9 DEF IInv, TypeOK
<1>11. /\ epochs'[running] =
            [valid |-> TRUE, cells |-> epochs[running].cells \cup {c}, defined |-> D]
       /\ \A e \in EpochId : e # running => epochs'[e] = epochs[e]
  BY <1>1, <1>2 DEF IInv, TypeOK
<1>12. \A s \in Symbol : producer'[s] = IF s \in D THEN running ELSE producer[s]
  BY <1>1
<1> QED BY <1>1, <1>2, <1>3, <1>4, <1>7, <1>10, <1>11, <1>12
        DEF CommitEffect, SetDeps, E

\* Committing the running epoch keeps the invariant.
LEMMA CommitIInv ==
  ASSUME IInv, NEW c \in Cell, NEW D \in SUBSET Symbol, NEW U \in SUBSET Symbol,
         CommitEpoch(c, D, U)
  PROVE  IInv'
<1> USE EpochBound
<1> DEFINE E == ProducersOf(U)
<1>1. CommitEffect(c, D, U)
  BY CommitFacts
<1>2. /\ running \in EpochId /\ running = counter /\ stale = NoEpoch
      /\ cellEpoch[c] = running /\ running' = NoEpoch
      /\ UNCHANGED <<counter, cellEpoch, stale>>
      /\ TypeOK' /\ GraphMirrored'
      /\ \A d \in E : d \in EpochId /\ epochs[d].valid /\ d < running
      /\ epochs'[running] =
           [valid |-> TRUE, cells |-> epochs[running].cells \cup {c}, defined |-> D]
      /\ \A e \in EpochId : e # running => epochs'[e] = epochs[e]
      /\ \A s \in Symbol : producer'[s] = IF s \in D THEN running ELSE producer[s]
  BY <1>1 DEF CommitEffect
<1> HIDE DEF E
<1>3. deps'[running] = E /\ \A e \in EpochId : e # running => deps'[e] = deps[e]
  BY <1>1, <1>2 DEF CommitEffect, IInv, TypeOK, E
<1>4. \A e \in EpochId : epochs[e].valid => epochs'[e].valid
  BY <1>2
<1>5. Unborn'
  <2> SUFFICES ASSUME NEW e \in EpochId, e > counter
               PROVE  epochs'[e] = Blank /\ deps'[e] = {}
    BY <1>2 DEF Unborn
  <2>1. e # running
    BY <1>2 DEF EpochId
  <2> QED BY <1>2, <1>3, <2>1 DEF IInv, Unborn
<1>6. InProgress' /\ CellEpochsExist'
  BY <1>2 DEF IInv, InProgress, CellEpochsExist
<1>7. ProducerLive'
  <2> SUFFICES ASSUME NEW s \in Symbol, producer'[s] # NoEpoch
               PROVE  epochs'[producer'[s]].valid /\ s \in epochs'[producer'[s]].defined
    BY DEF ProducerLive
  <2>1. CASE s \in D
    BY <1>2, <2>1
  <2>2. CASE s \notin D
    <3> DEFINE p == producer[s]
    <3>1. producer'[s] = p
      BY <1>2, <2>2
    <3>2. p \in EpochId /\ epochs[p].valid /\ s \in epochs[p].defined
      BY <3>1, ProducersExist DEF IInv, ProducerLive
    <3>3. p # running
      BY <1>2, <3>1, <3>2 DEF IInv, InProgress
    <3> QED BY <1>2, <3>1, <3>2, <3>3
  <2> QED BY <2>1, <2>2
<1>8. ValidDependsOnValid'
  <2> SUFFICES ASSUME NEW e \in EpochId, epochs'[e].valid, NEW d \in deps'[e]
               PROVE  epochs'[d].valid
    BY DEF ValidDependsOnValid
  <2>1. CASE e = running
    BY <1>2, <1>3, <1>4, <2>1
  <2>2. CASE e # running
    <3>1. epochs[e].valid /\ d \in deps[e]
      BY <1>2, <1>3, <2>2
    <3>2. d \in EpochId
      BY <3>1 DEF IInv, TypeOK
    <3> QED BY <1>4, <3>1, <3>2 DEF IInv, ValidDependsOnValid
  <2> QED BY <2>1, <2>2
<1>9. DependsOnEarlier'
  <2> SUFFICES ASSUME NEW e \in EpochId, NEW d \in deps'[e]
               PROVE  d < e
    BY DEF DependsOnEarlier
  <2> QED BY <1>2, <1>3 DEF IInv, DependsOnEarlier
<1>10. OneValidEpochPerCell'
  <2> SUFFICES ASSUME NEW e \in EpochId, NEW b \in Cell,
                      epochs'[e].valid, b \in epochs'[e].cells
               PROVE  cellEpoch[b] = e
    BY <1>2 DEF OneValidEpochPerCell
  <2>1. CASE e = running
    <3>1. b = c \/ b \in epochs[running].cells
      BY <1>2, <2>1
    <3>2. running # NoEpoch
      BY <1>2 DEF EpochId, NoEpoch
    <3> QED BY <1>2, <2>1, <3>1, <3>2 DEF IInv, InProgress
  <2>2. CASE e # running
    <3>1. e # stale
      BY <1>2 DEF EpochId, NoEpoch
    <3> QED BY <1>2, <2>2, <3>1 DEF IInv, OneValidEpochPerCell
  <2> QED BY <2>1, <2>2
<1> QED BY <1>2, <1>5, <1>6, <1>7, <1>8, <1>9, <1>10 DEF IInv

\* Giving up on the running epoch keeps the invariant.
LEMMA AbandonIInv ==
  ASSUME IInv, AbandonEpoch
  PROVE  IInv'
<1>1. /\ running' = NoEpoch /\ stale = NoEpoch
      /\ UNCHANGED <<counter, epochs, cellEpoch, producer, deps, rdeps, stale>>
  BY DEF AbandonEpoch
<1>2. TypeOK' /\ GraphMirrored' /\ Unborn' /\ CellEpochsExist'
  BY <1>1 DEF IInv, TypeOK, GraphMirrored, Unborn, CellEpochsExist
<1>3. InProgress'
  BY <1>1 DEF InProgress
<1>4. ProducerLive' /\ ValidDependsOnValid' /\ DependsOnEarlier' /\ OneValidEpochPerCell'
  BY <1>1 DEF IInv, ProducerLive, ValidDependsOnValid, DependsOnEarlier,
              OneValidEpochPerCell
<1> QED BY <1>2, <1>3, <1>4 DEF IInv

\* Resetting the epoch system keeps the invariant.
LEMMA ResetIInv ==
  ASSUME IInv, Reset
  PROVE  IInv'
<1> USE EpochBound
<1>1. /\ running' = NoEpoch /\ stale' = NoEpoch /\ counter' = 0
      /\ epochs' = [e \in EpochId |-> Blank]
      /\ cellEpoch' = [c \in Cell |-> NoEpoch]
      /\ producer' = [s \in Symbol |-> NoEpoch]
      /\ deps' = NoEdges(EpochId) /\ rdeps' = NoEdges(EpochId)
  BY DEF Reset, IInv, InProgress
<1>2. deps' \in [EpochId -> SUBSET EpochId] /\ rdeps' \in [EpochId -> SUBSET EpochId]
      /\ GraphMirrored'
  BY <1>1, NoEdgesFacts DEF GraphMirrored
<1>3. TypeOK'
  BY <1>1, <1>2 DEF TypeOK, Blank, EpochRecord, NoEpoch
<1>4. \A e \in EpochId : epochs'[e] = Blank /\ deps'[e] = {}
  BY <1>1 DEF NoEdges
<1>5. Unborn' /\ InProgress' /\ CellEpochsExist'
  BY <1>1, <1>4 DEF Unborn, InProgress, CellEpochsExist, NoEpoch
<1>6. ProducerLive'
  BY <1>1 DEF ProducerLive
<1>7. ValidDependsOnValid' /\ DependsOnEarlier' /\ OneValidEpochPerCell'
  BY <1>4 DEF ValidDependsOnValid, DependsOnEarlier, OneValidEpochPerCell, Blank
<1> QED BY <1>2, <1>3, <1>5, <1>6, <1>7 DEF IInv

\* Every step keeps the invariant.
LEMMA NextIInv == IInv /\ [Next]_vars => IInv'
<1> SUFFICES ASSUME IInv, [Next]_vars PROVE IInv'
  OBVIOUS
<1>1. ASSUME NEW c \in Cell, CreateEpoch(c) PROVE IInv'
  BY <1>1, CreateIInv
<1>2. CASE InvalidateOld
  BY <1>2, InvalidateIInv
<1>3. ASSUME NEW c \in Cell, NEW D \in SUBSET Symbol, NEW U \in SUBSET Symbol,
             CommitEpoch(c, D, U)
      PROVE  IInv'
  BY <1>3, CommitIInv
<1>4. CASE AbandonEpoch
  BY <1>4, AbandonIInv
<1>5. CASE Reset
  BY <1>5, ResetIInv
<1>6. CASE UNCHANGED vars
  BY <1>6
  DEF vars, IInv, TypeOK, GraphMirrored, Unborn, InProgress, CellEpochsExist,
      ProducerLive, ValidDependsOnValid, DependsOnEarlier, OneValidEpochPerCell
<1> QED BY <1>1, <1>2, <1>3, <1>4, <1>5, <1>6 DEF Next

\* The invariant holds in every state of every run of the epoch system.
THEOREM EpochInvariant == Spec => []IInv
<1>1. Init => IInv
  BY InitIInv DEF Init
<1> QED BY <1>1, NextIInv, PTL DEF Spec

\* The producer of a symbol is always a valid epoch that defines it:
\* commit_epoch never derives a dependency on an invalidated epoch.
THEOREM EpochProducerLive == Spec => []ProducerLive
<1>1. IInv => ProducerLive
  BY DEF IInv
<1> QED BY EpochInvariant, <1>1, PTL

\* A valid epoch depends on valid epochs only, whatever cells are re-executed
\* and however often their executions fail.
THEOREM EpochDependsOnValid == Spec => []ValidDependsOnValid
<1>1. IInv => ValidDependsOnValid
  BY DEF IInv
<1> QED BY EpochInvariant, <1>1, PTL

\* Epochs depend on earlier epochs only: the epoch graph never has a cycle.
THEOREM EpochDependsOnEarlier == Spec => []DependsOnEarlier
<1>1. IInv => DependsOnEarlier
  BY DEF IInv
<1> QED BY EpochInvariant, <1>1, PTL

\* Of the epochs that list a cell only the cell's current one is valid, except
\* the one that execute_cell is about to invalidate.
THEOREM EpochOneValidPerCell == Spec => []OneValidEpochPerCell
<1>1. IInv => OneValidEpochPerCell
  BY DEF IInv
<1> QED BY EpochInvariant, <1>1, PTL

\* The initial state of the epoch system is that of the abstract specification.
LEMMA AbstractInit == Init => Abstract!Init
BY DEF Init, Blank, NoEdges, Abstract!Init, Abstract!NoEdges

\* Under the invariant, the abstract downstream set is what the code walks.
LEMMA DownstreamIsWalked ==
  ASSUME IInv, NEW e
  PROVE  Abstract!Downstream({e}) = Dependents(rdeps, e)
<1>1. rdeps = [b \in EpochId |-> {a \in EpochId : b \in deps[a]}]
  <2>1. /\ deps \in [EpochId -> SUBSET EpochId] /\ rdeps \in [EpochId -> SUBSET EpochId]
        /\ Mirrored(deps, rdeps)
    BY DEF IInv, TypeOK, GraphMirrored
  <2> QED BY <2>1, MirroredIsReversed
<1>2. Abstract!Reversed = rdeps
  BY <1>1 DEF Abstract!Reversed
<1>3. Abstract!Dependents(rdeps, e) = Dependents(rdeps, e)
  BY DEF Dependents, ClosedSets, Abstract!Dependents, Abstract!ClosedSets
<1> QED BY <1>2, <1>3 DEF Abstract!Downstream

\* Making the newest epoch valid defines it and makes nothing else stale.
LEMMA NewestIsDefined ==
  ASSUME IInv, NEW n \in EpochId, n >= counter, NEW E \in SUBSET EpochId,
         deps' = [deps EXCEPT ![n] = E], epochs'[n].valid,
         \A e \in EpochId : e # n => epochs'[e] = epochs[e]
  PROVE  Abstract!Next
<1>1. Abstract!Downstream({n}) = {}
  BY NewestHasNoDependents, DownstreamIsWalked
<1>2. {e \in EpochId : epochs'[e].valid} = {e \in EpochId : epochs[e].valid} \cup {n}
  OBVIOUS
<1>3. Abstract!Define(n, E)
  BY <1>1, <1>2 DEF Abstract!Define
<1> QED BY <1>3 DEF Abstract!Next

\* Every step of the epoch system is an abstract step or changes nothing
\* abstract.
LEMMA AbstractStep ==
  ASSUME IInv, [Next]_vars
  PROVE  [Abstract!Next]_(Abstract!vars)
<1> USE EpochBound
<1>1. ASSUME NEW c \in Cell, CreateEpoch(c)
      PROVE  Abstract!Next
  <2>0. counter + 1 \in EpochId /\ counter \in Nat
    BY <1>1 DEF CreateEpoch, IInv, TypeOK, EpochId
  <2> PICK n \in EpochId : n = counter + 1
    BY <2>0
  <2>1. /\ n >= counter
        /\ epochs' = [epochs EXCEPT ![n] = [valid |-> TRUE, cells |-> {c}, defined |-> {}]]
        /\ deps' = [deps EXCEPT ![n] = {}]
    BY <1>1, <2>0 DEF CreateEpoch
  <2>2. epochs'[n].valid /\ \A e \in EpochId : e # n => epochs'[e] = epochs[e]
    BY <2>1 DEF IInv, TypeOK
  <2>3. {} \in SUBSET EpochId
    OBVIOUS
  <2> QED BY <2>1, <2>2, <2>3, NewestIsDefined
<1>2. CASE InvalidateOld
  <2>1. InvalidateEffect
    BY <1>2, InvalidateFacts
  <2>2. Abstract!Downstream({stale}) = Dependents(rdeps, stale)
    BY DownstreamIsWalked
  <2>3. {e \in EpochId : epochs'[e].valid}
          = {e \in EpochId : epochs[e].valid} \ ({stale} \cup Dependents(rdeps, stale))
    BY <2>1 DEF InvalidateEffect, Affected
  <2>4. PICK S \in SUBSET EpochId : S = {stale}
    BY <2>1 DEF InvalidateEffect
  <2>5. Abstract!Withdraw(S)
    BY <2>1, <2>2, <2>3, <2>4 DEF InvalidateEffect, Abstract!Withdraw
  <2> QED BY <2>5 DEF Abstract!Next
<1>3. ASSUME NEW c \in Cell, NEW D \in SUBSET Symbol, NEW U \in SUBSET Symbol,
             CommitEpoch(c, D, U)
      PROVE  Abstract!Next
  <2>1. CommitEffect(c, D, U)
    BY <1>3, CommitFacts
  <2>2. /\ running \in EpochId /\ running >= counter
        /\ ProducersOf(U) \in SUBSET EpochId
        /\ deps' = [deps EXCEPT ![running] = ProducersOf(U)]
        /\ epochs'[running].valid
        /\ \A e \in EpochId : e # running => epochs'[e] = epochs[e]
    BY <2>1 DEF CommitEffect, EpochId
  <2> QED BY <2>2, NewestIsDefined
<1>4. CASE AbandonEpoch
  BY <1>4 DEF AbandonEpoch, Abstract!vars
<1>5. CASE Reset
  <2>1. Abstract!Clear
    BY <1>5 DEF Reset, Abstract!Clear, Blank, NoEdges, Abstract!NoEdges
  <2> QED BY <2>1 DEF Abstract!Next
<1>6. CASE UNCHANGED vars
  BY <1>6 DEF vars, Abstract!vars
<1> QED BY <1>1, <1>2, <1>3, <1>4, <1>5, <1>6 DEF Next

\* The epoch system implements the abstract specification of staleness:
\* executing a cell makes its new epoch valid and takes down exactly the old
\* epoch and what is downstream of it.
THEOREM EpochsRefine == Spec => ImplementsInvalidation
BY EpochInvariant, AbstractInit, AbstractStep, PTL
DEF Spec, ImplementsInvalidation, Abstract!Spec
==============================================================================
