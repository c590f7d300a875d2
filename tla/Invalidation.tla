---------------------------- MODULE Invalidation ----------------------------
(***************************************************************************)
(* What the interactive front end promises about staleness, without saying *)
(* how: a set of live nodes (valid symbols, valid epochs, active           *)
(* fragments) and the direct dependencies recorded for each node.          *)
(* Defining a node makes it live and makes everything downstream of its    *)
(* previous definition stale; withdrawing nodes makes them and everything  *)
(* downstream of them stale; nothing else ever becomes live or stale.      *)
(*                                                                         *)
(* SessionManager, EpochManager and IrIncrementalBuilder each implement    *)
(* this with reverse edges, version numbers and producer maps.             *)
(***************************************************************************)
EXTENDS DependencyGraph

CONSTANT Node

VARIABLES live, edges

vars == <<live, edges>>

Reversed == [b \in Node |-> {a \in Node : b \in edges[a]}]

Downstream(S) == UNION {Dependents(Reversed, n) : n \in S}

Init == live = {} /\ edges = NoEdges(Node)

Define(n, D) ==
  /\ edges' = [edges EXCEPT ![n] = D]
  /\ live' = (live \ Downstream({n})) \cup {n}

Withdraw(S) ==
  /\ UNCHANGED edges
  /\ live' = live \ (S \cup Downstream(S))

Clear == live' = {} /\ edges' = NoEdges(Node)

Next ==
  \/ \E n \in Node, D \in SUBSET Node : Define(n, D)
  \/ \E S \in SUBSET Node : Withdraw(S)
  \/ Clear

Spec == Init /\ [][Next]_vars
==============================================================================
