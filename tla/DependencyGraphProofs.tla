------------------------ MODULE DependencyGraphProofs ------------------------
(***************************************************************************)
(* Facts about the dependency graph, for every set of nodes: what          *)
(* Dependents contains, and that updating the two edge maps keeps them     *)
(* mirrored.  Every proof about the managers rests on these.               *)
(***************************************************************************)
EXTENDS DependencyGraph, TLAPS

\* An empty graph has its type and is mirrored.
LEMMA NoEdgesFacts ==
  ASSUME NEW Node
  PROVE  /\ NoEdges(Node) \in [Node -> SUBSET Node]
         /\ Mirrored(NoEdges(Node), NoEdges(Node))
BY DEF NoEdges, Mirrored

\* The dependents of a node are nodes.
LEMMA DependentsAreNodes ==
  ASSUME NEW Node, NEW rdeps \in [Node -> SUBSET Node], NEW n \in Node
  PROVE  Dependents(rdeps, n) \subseteq Node
BY DEF Dependents

\* The direct dependents of a node are among its dependents.
LEMMA DirectAreDependents ==
  ASSUME NEW Node, NEW rdeps \in [Node -> SUBSET Node], NEW n \in Node
  PROVE  rdeps[n] \subseteq Dependents(rdeps, n)
BY DEF Dependents, ClosedSets

\* Dependents of dependents are dependents.
LEMMA DependentsClosed ==
  ASSUME NEW Node, NEW rdeps \in [Node -> SUBSET Node], NEW n \in Node,
         NEW m \in Dependents(rdeps, n)
  PROVE  rdeps[m] \subseteq Dependents(rdeps, n)
BY DEF Dependents, ClosedSets

\* Any set of nodes that is closed under reverse edges and holds the direct
\* dependents of n holds all its dependents.
LEMMA DependentsLeast ==
  ASSUME NEW Node, NEW rdeps \in [Node -> SUBSET Node], NEW n \in Node,
         NEW C \in SUBSET Node,
         rdeps[n] \subseteq C, \A m \in C : rdeps[m] \subseteq C
  PROVE  Dependents(rdeps, n) \subseteq C
BY DEF Dependents, ClosedSets

\* A node on which nothing depends has no dependents.
LEMMA NoDependents ==
  ASSUME NEW Node, NEW rdeps \in [Node -> SUBSET Node], NEW n \in Node,
         rdeps[n] = {}
  PROVE  Dependents(rdeps, n) = {}
<1>1. Dependents(rdeps, n) \subseteq {}
  BY DependentsLeast
<1> QED BY <1>1

\* set_dependencies keeps the types of the two maps.
LEMMA SetEdgesType ==
  ASSUME NEW Node, NEW deps \in [Node -> SUBSET Node],
         NEW rdeps \in [Node -> SUBSET Node],
         NEW n \in Node, NEW D \in SUBSET Node
  PROVE  /\ SetDeps(deps, n, D) \in [Node -> SUBSET Node]
         /\ SetRdeps(deps, rdeps, n, D) \in [Node -> SUBSET Node]
<1>1. ASSUME NEW m \in Node
      PROVE  SetRdeps(deps, rdeps, n, D)[m] \in SUBSET Node
  BY <1>1 DEF SetRdeps
<1> QED BY <1>1 DEF SetDeps, SetRdeps

\* set_dependencies keeps the reverse edges the mirror of the forward edges.
LEMMA SetEdgesMirrored ==
  ASSUME NEW Node, NEW deps \in [Node -> SUBSET Node],
         NEW rdeps \in [Node -> SUBSET Node],
         NEW n \in Node, NEW D \in SUBSET Node,
         Mirrored(deps, rdeps)
  PROVE  Mirrored(SetDeps(deps, n, D), SetRdeps(deps, rdeps, n, D))
<1> SUFFICES ASSUME NEW a \in Node, NEW b \in Node
             PROVE  b \in SetDeps(deps, n, D)[a] <=> a \in SetRdeps(deps, rdeps, n, D)[b]
  BY DEF Mirrored, SetDeps, SetRdeps
<1>1. b \in deps[a] <=> a \in rdeps[b]
  BY DEF Mirrored
<1>2. b \in deps[n] <=> n \in rdeps[b]
  BY DEF Mirrored
<1>3. CASE a = n
  BY <1>2, <1>3 DEF SetDeps, SetRdeps
<1>4. CASE a # n
  BY <1>1, <1>4 DEF SetDeps, SetRdeps
<1> QED BY <1>3, <1>4

\* Mirrored reverse edges are the forward edges turned around.
LEMMA MirroredIsReversed ==
  ASSUME NEW Node, NEW deps \in [Node -> SUBSET Node],
         NEW rdeps \in [Node -> SUBSET Node],
         Mirrored(deps, rdeps)
  PROVE  rdeps = [b \in Node |-> {a \in Node : b \in deps[a]}]
<1>1. ASSUME NEW b \in Node
      PROVE  rdeps[b] = {a \in Node : b \in deps[a]}
  BY DEF Mirrored
<1> QED BY <1>1
==============================================================================
