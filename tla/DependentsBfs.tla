---------------------------- MODULE DependentsBfs ----------------------------
(***************************************************************************)
(* The breadth-first search over reverse edges that decides what becomes   *)
(* stale: SessionManager::invalidate_dependents_of,                        *)
(* EpochManager::bfs_collect_dependents and                                *)
(* IrIncrementalBuilder::bfs_collect_dependents are the same loop.         *)
(*                                                                         *)
(* The reverse edges are iterated in the order of an unordered_set, so the *)
(* inner loop takes the remaining elements of the current set in any       *)
(* order.  The graph may have cycles and self loops: symbols can depend on *)
(* each other through redefinition (a = 1; c = a; a = c).                  *)
(***************************************************************************)
EXTENDS Naturals, Sequences, DependencyGraph

CONSTANTS Node,    \* the nodes of the graph
          Source   \* the node whose dependents are collected

ASSUME SourceIsNode == Source \in Node

VARIABLES
  rdeps,    \* the reverse edges, which the search only reads
  todo,     \* what is left of the reverse-edge set being iterated
  visited,  \* the nodes ever put on the queue
  queue,    \* nodes waiting to be expanded
  out       \* nodes taken off the queue, in order

vars == <<rdeps, todo, visited, queue, out>>

Elems(s) == {s[i] : i \in 1..Len(s)}

Init ==
  /\ rdeps \in [Node -> SUBSET Node]
  /\ todo = rdeps[Source]
  /\ visited = {}
  /\ queue = <<>>
  /\ out = <<>>

\* Mutants: the test on visited is forgotten; a visited node is not skipped.
VisitAlways(next) ==
  /\ next \in todo
  /\ todo' = todo \ {next}
  /\ visited' = visited \cup {next}
  /\ queue' = Append(queue, next)
  /\ UNCHANGED <<rdeps, out>>

VisitStuck(next) ==
  /\ next \in todo \ visited
  /\ todo' = todo \ {next}
  /\ visited' = visited \cup {next}
  /\ queue' = Append(queue, next)
  /\ UNCHANGED <<rdeps, out>>

\* visited.insert(next).second decides whether next joins the queue.
Visit(next) ==
  /\ next \in todo
  /\ todo' = todo \ {next}
  /\ visited' = visited \cup {next}
  /\ queue' = IF next \in visited THEN queue ELSE Append(queue, next)
  /\ UNCHANGED <<rdeps, out>>

\* Mutant: only the direct dependents are collected.
ExpandNothing ==
  /\ todo = {}
  /\ queue # <<>>
  /\ out' = Append(out, Head(queue))
  /\ queue' = Tail(queue)
  /\ UNCHANGED <<rdeps, todo, visited>>

\* The front of the queue is emitted and its dependents come next.
Expand ==
  /\ todo = {}
  /\ queue # <<>>
  /\ out' = Append(out, Head(queue))
  /\ queue' = Tail(queue)
  /\ todo' = rdeps[Head(queue)]
  /\ UNCHANGED <<rdeps, visited>>

Done == todo = {} /\ queue = <<>>

Next == Expand \/ \E next \in Node : Visit(next)

Spec == Init /\ [][Next]_vars

\* The loop of a single-threaded program keeps running.
FairSpec == Spec /\ WF_vars(Next)

------------------------------------------------------------------------------

\* The search only ever holds nodes of the graph.
TypeOK ==
  /\ rdeps \in [Node -> SUBSET Node]
  /\ todo \in SUBSET Node
  /\ visited \in SUBSET Node
  /\ queue \in Seq(Node)
  /\ out \in Seq(Node)

\* When the loop ends, the emitted nodes are exactly the transitive dependents
\* of the source: nothing stale is missed, nothing fresh is invalidated.
ResultIsDependents == Done => Elems(out) = Dependents(rdeps, Source)

\* No node is emitted twice, whatever cycles the graph has.  invalidate_epoch
\* and invalidate_fragment hand every emitted id on to their callers.
EmittedOnce ==
  \A i, j \in 1..Len(out \o queue) :
     (out \o queue)[i] = (out \o queue)[j] => i = j

\* The search ends on every graph, also on a cyclic one.
Terminates == <>Done

==============================================================================
