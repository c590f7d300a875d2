--------------------------- MODULE DependencyGraph ---------------------------
(***************************************************************************)
(* The dependency graph that the interactive front end keeps three times:  *)
(* over symbols (class DependencyGraph of session_manager.cpp), over       *)
(* notebook epochs (EpochManager) and over IR fragments                    *)
(* (IrIncrementalBuilder).  Each copy is a pair of hash maps,              *)
(*                                                                         *)
(*   deps[a]  = the nodes that a depends on,                               *)
(*   rdeps[b] = the nodes that depend on b,                                *)
(*                                                                         *)
(* where a missing key and an empty set mean the same thing to every       *)
(* reader.  Here both are total functions on the set of nodes.             *)
(***************************************************************************)

NoEdges(Node) == [n \in Node |-> {}]

\* deps_[n] = D.
SetDeps(deps, n, D) == [deps EXCEPT ![n] = D]

\* Mutant: the reverse edges of the old dependencies stay.
SetRdepsKeepingOld(deps, rdeps, n, D) ==
  [m \in DOMAIN rdeps |-> IF m \in D THEN rdeps[m] \cup {n} ELSE rdeps[m]]

\* The reverse edges of n's old dependencies go, those of D come.  Only the
\* entries named by the old or the new dependencies are touched.
SetRdeps(deps, rdeps, n, D) ==
  [m \in DOMAIN rdeps |->
     IF m \in D THEN rdeps[m] \cup {n}
     ELSE IF m \in deps[n] THEN rdeps[m] \ {n}
     ELSE rdeps[m]]

\* The sets that hold the dependents of n, and those of their own members.
ClosedSets(rdeps, n) ==
  {C \in SUBSET DOMAIN rdeps :
     rdeps[n] \subseteq C /\ \A m \in C : rdeps[m] \subseteq C}

\* Every node reached from n by one or more reverse edges: the least closed
\* set.  DependentsBfs shows that the queue loops of the code compute it.
Dependents(rdeps, n) ==
  LET closed == ClosedSets(rdeps, n)
  IN  {t \in DOMAIN rdeps : \A C \in closed : t \in C}

\* rdeps holds exactly the edges of deps, turned around.
Mirrored(deps, rdeps) ==
  \A a \in DOMAIN deps, b \in DOMAIN rdeps : b \in deps[a] <=> a \in rdeps[b]

==============================================================================
