------------------------- MODULE DependentsBfsProofs -------------------------
(***************************************************************************)
(* Partial correctness of the breadth-first search, for every graph.  The  *)
(* invariant says that whatever is not yet collected is still reachable    *)
(* from the work that is left: the dependents of the source and of every   *)
(* emitted node are visited or about to be.  When no work is left, the     *)
(* visited nodes are closed under reverse edges, and Dependents is the     *)
(* least such set.  Every step shrinks a natural number, so on a finite    *)
(* graph only finitely many are taken; that the loop takes them, which     *)
(* needs its fairness, is left to TLC.                                     *)
(***************************************************************************)
EXTENDS DependentsBfs, DependencyGraphProofs, FiniteSetTheorems

\* Appending an element adds it to the elements of a sequence.
LEMMA ElemsAppend ==
  ASSUME NEW S, NEW s \in Seq(S), NEW x \in S
  PROVE  Elems(Append(s, x)) = Elems(s) \cup {x}
<1>1. Len(Append(s, x)) = Len(s) + 1 /\ Len(s) \in Nat
  OBVIOUS
<1>2. Append(s, x)[Len(s) + 1] = x /\ \A i \in 1..Len(s) : Append(s, x)[i] = s[i]
  OBVIOUS
<1>3. 1..(Len(s) + 1) = 1..Len(s) \cup {Len(s) + 1}
  BY <1>1
<1> QED BY <1>1, <1>2, <1>3 DEF Elems

\* The elements of a sequence are its head and the elements of its tail.
LEMMA ElemsHeadTail ==
  ASSUME NEW S, NEW s \in Seq(S), s # <<>>
  PROVE  /\ Head(s) \in S /\ Tail(s) \in Seq(S)
         /\ Elems(s) = {Head(s)} \cup Elems(Tail(s))
<1>1. Len(s) \in Nat /\ Len(s) > 0 /\ Len(Tail(s)) = Len(s) - 1
  OBVIOUS
<1>2. Head(s) = s[1] /\ \A i \in 1..Len(Tail(s)) : Tail(s)[i] = s[i + 1]
  OBVIOUS
<1>3. \A i \in 1..Len(s) : i = 1 \/ (i - 1 \in 1..Len(Tail(s)) /\ s[i] = Tail(s)[i - 1])
  BY <1>1, <1>2
<1>4. Elems(s) \subseteq {Head(s)} \cup Elems(Tail(s))
  BY <1>2, <1>3 DEF Elems
<1>5. \A i \in 1..Len(Tail(s)) : i + 1 \in 1..Len(s)
  BY <1>1
<1>6. {Head(s)} \cup Elems(Tail(s)) \subseteq Elems(s)
  BY <1>1, <1>2, <1>5 DEF Elems
<1>7. Head(s) \in S /\ Tail(s) \in Seq(S)
  OBVIOUS
<1> QED BY <1>4, <1>6, <1>7

\* What a search has done and what it has left.
Progress ==
  /\ visited = Elems(out) \cup Elems(queue)
  /\ rdeps[Source] \subseteq visited \cup todo
  /\ \A m \in Elems(out) : rdeps[m] \subseteq visited \cup todo
  /\ visited \cup todo \subseteq Dependents(rdeps, Source)

IInv == TypeOK /\ Progress

\* The search starts with the dependents of the source as its work.
LEMMA InitIInv == Init => IInv
<1> SUFFICES ASSUME Init PROVE IInv
  OBVIOUS
<1> USE SourceIsNode
<1>1. TypeOK
  BY DEF Init, TypeOK
<1>2. Elems(<<>>) = {}
  BY DEF Elems
<1>3. rdeps[Source] \subseteq Dependents(rdeps, Source)
  BY DirectAreDependents DEF Init
<1> QED BY <1>1, <1>2, <1>3 DEF Init, IInv, Progress

\* Visiting a node moves it from the work left to the nodes visited.
LEMMA VisitIInv ==
  ASSUME IInv, NEW next \in Node, Visit(next)
  PROVE  IInv'
<1>1. TypeOK'
  BY DEF IInv, TypeOK, Visit
<1>2. visited' = Elems(out') \cup Elems(queue')
  <2>1. Elems(Append(queue, next)) = Elems(queue) \cup {next}
    BY ElemsAppend DEF IInv, TypeOK
  <2> QED BY <2>1 DEF IInv, Progress, Visit
<1>3. visited' \cup todo' = visited \cup todo /\ rdeps' = rdeps /\ out' = out
  BY DEF Visit
<1> QED BY <1>1, <1>2, <1>3 DEF IInv, Progress

\* Expanding a node makes its dependents the work left.
LEMMA ExpandIInv ==
  ASSUME IInv, Expand
  PROVE  IInv'
<1> USE SourceIsNode
<1> DEFINE h == Head(queue)
<1>1. /\ h \in Node /\ Tail(queue) \in Seq(Node)
      /\ Elems(queue) = {h} \cup Elems(Tail(queue))
  BY ElemsHeadTail DEF IInv, TypeOK, Expand
<1>2. Elems(Append(out, h)) = Elems(out) \cup {h}
  BY <1>1, ElemsAppend DEF IInv, TypeOK
<1>3. /\ todo = {} /\ out' = Append(out, h) /\ queue' = Tail(queue)
      /\ todo' = rdeps[h] /\ rdeps' = rdeps /\ visited' = visited
  BY DEF Expand
<1> HIDE DEF h
<1>4. TypeOK'
  BY <1>1, <1>3 DEF IInv, TypeOK
<1>5. visited' = Elems(out') \cup Elems(queue')
  BY <1>1, <1>2, <1>3 DEF IInv, Progress
<1>6. \A m \in Elems(out') : rdeps[m] \subseteq visited \cup todo'
  BY <1>2, <1>3 DEF IInv, Progress
<1>7. h \in Dependents(rdeps, Source)
  BY <1>1 DEF IInv, Progress
<1>8. rdeps[h] \subseteq Dependents(rdeps, Source)
  BY <1>7, DependentsClosed DEF IInv, TypeOK
<1>9. rdeps[Source] \subseteq visited \cup todo'
  BY <1>3 DEF IInv, Progress
<1>10. visited \cup todo' \subseteq Dependents(rdeps, Source)
  BY <1>3, <1>8 DEF IInv, Progress
<1> QED BY <1>3, <1>4, <1>5, <1>6, <1>9, <1>10 DEF IInv, Progress

\* Every step of the search keeps the invariant.
LEMMA NextIInv == IInv /\ [Next]_vars => IInv'
<1> SUFFICES ASSUME IInv, [Next]_vars PROVE IInv'
  OBVIOUS
<1>1. CASE Expand
  BY <1>1, ExpandIInv
<1>2. ASSUME NEW next \in Node, Visit(next) PROVE IInv'
  BY <1>2, VisitIInv
<1>3. CASE UNCHANGED vars
  BY <1>3 DEF vars, IInv, TypeOK, Progress
<1> QED BY <1>1, <1>2, <1>3 DEF Next

\* When no work is left, the emitted nodes are the dependents of the source.
LEMMA DoneIsComplete == IInv => ResultIsDependents
<1> SUFFICES ASSUME IInv, Done PROVE Elems(out) = Dependents(rdeps, Source)
  BY DEF ResultIsDependents
<1> USE SourceIsNode
<1>1. Elems(<<>>) = {}
  BY DEF Elems
<1>2. visited = Elems(out)
  BY <1>1 DEF IInv, Progress, Done
<1>3. rdeps[Source] \subseteq Elems(out) /\ \A m \in Elems(out) : rdeps[m] \subseteq Elems(out)
  BY <1>2 DEF IInv, Progress, Done
<1>4. rdeps \in [Node -> SUBSET Node] /\ Elems(out) \in SUBSET Node
  BY <1>2 DEF IInv, TypeOK
<1>5. Dependents(rdeps, Source) \subseteq Elems(out)
  BY <1>3, <1>4, DependentsLeast
<1> QED BY <1>2, <1>5 DEF IInv, Progress

\* The loops of invalidate_dependents_of and of the two
\* bfs_collect_dependents, when they end, have emitted exactly the transitive
\* dependents of their source, for every graph and every iteration order.
THEOREM BfsCollectsDependents == Spec => []ResultIsDependents
BY InitIInv, NextIInv, DoneIsComplete, PTL DEF Spec

(***************************************************************************)
(* No node is emitted twice.  What is emitted and what waits is one        *)
(* sequence, which expanding a node leaves as it is and visiting one       *)
(* extends by a node that was not visited.                                 *)
(***************************************************************************)

\* Appending to the second of two sequences appends to both together.
LEMMA ConcatAppend ==
  ASSUME NEW S, NEW s \in Seq(S), NEW t \in Seq(S), NEW x \in S
  PROVE  s \o Append(t, x) = Append(s \o t, x)
OBVIOUS

\* Moving the head of the second sequence to the end of the first one leaves
\* the two together as they are.
LEMMA ConcatShift ==
  ASSUME NEW S, NEW s \in Seq(S), NEW t \in Seq(S), t # <<>>
  PROVE  Append(s, Head(t)) \o Tail(t) = s \o t
OBVIOUS

\* The elements of two sequences together.
LEMMA ElemsConcat ==
  ASSUME NEW S, NEW s \in Seq(S), NEW t \in Seq(S)
  PROVE  Elems(s \o t) = Elems(s) \cup Elems(t)
<1>1. Len(s \o t) = Len(s) + Len(t) /\ Len(s) \in Nat /\ Len(t) \in Nat
  OBVIOUS
<1>2. /\ \A i \in 1..Len(s) : (s \o t)[i] = s[i]
      /\ \A i \in 1..Len(t) : (s \o t)[Len(s) + i] = t[i]
  OBVIOUS
<1>3. \A i \in 1..Len(s \o t) : i \in 1..Len(s) \/ i - Len(s) \in 1..Len(t)
  BY <1>1
<1>4. Elems(s \o t) \subseteq Elems(s) \cup Elems(t)
  <2> SUFFICES ASSUME NEW i \in 1..Len(s \o t)
               PROVE  (s \o t)[i] \in Elems(s) \cup Elems(t)
    BY DEF Elems
  <2>1. CASE i \in 1..Len(s)
    BY <1>2, <2>1 DEF Elems
  <2>2. CASE i - Len(s) \in 1..Len(t)
    <3>1. (s \o t)[Len(s) + (i - Len(s))] = t[i - Len(s)]
      BY <1>2, <2>2
    <3>2. Len(s) + (i - Len(s)) = i
      BY <1>1
    <3> QED BY <2>2, <3>1, <3>2 DEF Elems
  <2> QED BY <1>3, <2>1, <2>2
<1>5. \A i \in 1..Len(s) : i \in 1..Len(s \o t)
  BY <1>1
<1>6. \A i \in 1..Len(t) : Len(s) + i \in 1..Len(s \o t)
  BY <1>1
<1>7. Elems(s) \cup Elems(t) \subseteq Elems(s \o t)
  BY <1>2, <1>5, <1>6 DEF Elems
<1> QED BY <1>4, <1>7

\* A sequence without repetition has none after an element it lacks is added.
LEMMA OnceAppend ==
  ASSUME NEW S, NEW s \in Seq(S), NEW x \in S, x \notin Elems(s),
         \A i, j \in 1..Len(s) : s[i] = s[j] => i = j
  PROVE  \A i, j \in 1..Len(Append(s, x)) :
            Append(s, x)[i] = Append(s, x)[j] => i = j
<1>1. Len(Append(s, x)) = Len(s) + 1 /\ Len(s) \in Nat
  OBVIOUS
<1>2. Append(s, x)[Len(s) + 1] = x /\ \A i \in 1..Len(s) : Append(s, x)[i] = s[i]
  OBVIOUS
<1>3. 1..Len(Append(s, x)) = 1..Len(s) \cup {Len(s) + 1}
  BY <1>1
<1>4. \A i \in 1..Len(s) : Append(s, x)[i] # x
  BY <1>2 DEF Elems
<1> QED BY <1>2, <1>3, <1>4

\* Every step of the search keeps what is emitted or waits without repetition.
LEMMA NextEmittedOnce == IInv /\ EmittedOnce /\ [Next]_vars => EmittedOnce'
<1> SUFFICES ASSUME IInv, EmittedOnce, [Next]_vars PROVE EmittedOnce'
  OBVIOUS
<1>1. out \in Seq(Node) /\ queue \in Seq(Node)
  BY DEF IInv, TypeOK
<1>2. CASE Expand
  <2>1. out' \o queue' = out \o queue
    BY <1>1, <1>2, ConcatShift DEF Expand
  <2> QED BY <2>1 DEF EmittedOnce
<1>3. ASSUME NEW next \in Node, Visit(next) PROVE EmittedOnce'
  <2>1. CASE next \in visited
    BY <1>3, <2>1 DEF Visit, EmittedOnce
  <2>2. CASE next \notin visited
    <3>1. out' \o queue' = Append(out \o queue, next)
      BY <1>1, <1>3, <2>2, ConcatAppend DEF Visit
    <3>2. next \notin Elems(out \o queue)
      BY <1>1, <2>2, ElemsConcat DEF IInv, Progress
    <3>3. out \o queue \in Seq(Node)
      BY <1>1
    <3> QED BY <3>1, <3>2, <3>3, OnceAppend DEF EmittedOnce
  <2> QED BY <2>1, <2>2
<1>4. CASE UNCHANGED vars
  BY <1>4 DEF vars, EmittedOnce
<1> QED BY <1>2, <1>3, <1>4 DEF Next

\* The three searches emit no node twice, whatever cycles the graph has and in
\* whatever order the reverse edges are iterated.
THEOREM BfsEmitsOnce == Spec => []EmittedOnce
<1>1. Init => EmittedOnce
  BY DEF Init, EmittedOnce
<1> QED BY <1>1, InitIInv, NextIInv, NextEmittedOnce, PTL DEF Spec

(***************************************************************************)
(* On a finite graph every step leaves less to do.  Each node is emitted   *)
(* at most once, and before the next one is, the at most Cardinality(Node) *)
(* reverse edges of the last one are looked at.                            *)
(***************************************************************************)
Unemitted == Node \ Elems(out)

Left == Cardinality(Unemitted) * (Cardinality(Node) + 1) + Cardinality(todo)

\* Emitting a node is worth more than the reverse edges it adds to the work.
LEMMA LeftArithmetic ==
  ASSUME NEW n \in Nat, NEW u \in Nat, NEW t \in Nat, u > 0, t <= n
  PROVE  (u - 1) * (n + 1) + t < u * (n + 1)
<1>1. (u - 1) * (n + 1) = u * (n + 1) - (n + 1) /\ u * (n + 1) \in Nat
  OBVIOUS
<1> QED BY <1>1

\* The work that is left is a number.
LEMMA LeftIsNat ==
  ASSUME IsFiniteSet(Node), TypeOK
  PROVE  /\ IsFiniteSet(Unemitted) /\ Cardinality(Unemitted) \in Nat
         /\ IsFiniteSet(todo) /\ Cardinality(todo) \in Nat
         /\ Cardinality(todo) <= Cardinality(Node)
         /\ Cardinality(Node) \in Nat
         /\ Left \in Nat
<1>1. Unemitted \in SUBSET Node /\ todo \in SUBSET Node
  BY DEF Unemitted, TypeOK
<1>2. IsFiniteSet(Unemitted) /\ IsFiniteSet(todo) /\ Cardinality(todo) <= Cardinality(Node)
  BY <1>1, FS_Subset
<1>3. Cardinality(Unemitted) \in Nat /\ Cardinality(todo) \in Nat /\ Cardinality(Node) \in Nat
  BY <1>2, FS_CardinalityType
<1>4. Left \in Nat
  BY <1>3 DEF Left
<1> QED BY <1>2, <1>3, <1>4

\* The node at the front of the queue has not been emitted yet.
LEMMA HeadIsUnemitted ==
  ASSUME TypeOK, EmittedOnce, queue # <<>>
  PROVE  Head(queue) \in Unemitted
<1>1. out \in Seq(Node) /\ queue \in Seq(Node) /\ Head(queue) \in Node
  BY ElemsHeadTail DEF TypeOK
<1>2. /\ Len(out) \in Nat /\ Len(queue) \in Nat /\ Len(queue) > 0
      /\ Len(out \o queue) = Len(out) + Len(queue)
  BY <1>1
<1>3. /\ \A i \in 1..Len(out) : (out \o queue)[i] = out[i]
      /\ (out \o queue)[Len(out) + 1] = Head(queue)
  BY <1>1, <1>2
<1>4. ASSUME NEW i \in 1..Len(out), out[i] = Head(queue) PROVE FALSE
  <2>1. i \in 1..Len(out \o queue) /\ Len(out) + 1 \in 1..Len(out \o queue)
    BY <1>2
  <2>2. i = Len(out) + 1
    BY <1>3, <1>4, <2>1 DEF EmittedOnce
  <2> QED BY <1>2, <2>2
<1> QED BY <1>1, <1>4 DEF Unemitted, Elems

\* Visiting a node takes it from the edges still to be looked at.
LEMMA VisitShrinks ==
  ASSUME IsFiniteSet(Node), TypeOK, NEW next \in Node, Visit(next)
  PROVE  Left' \in Nat /\ Left' < Left
<1>1. Unemitted' = Unemitted /\ todo' = todo \ {next} /\ next \in todo
  BY DEF Visit, Unemitted, Elems
<1>2. Cardinality(todo') = Cardinality(todo) - 1 /\ Cardinality(todo') \in Nat
  BY <1>1, LeftIsNat, FS_RemoveElement, FS_CardinalityType
<1>3. Left' = Cardinality(Unemitted) * (Cardinality(Node) + 1) + Cardinality(todo')
  BY <1>1 DEF Left
<1>4. Cardinality(Unemitted) * (Cardinality(Node) + 1) \in Nat
  BY LeftIsNat
<1> QED BY <1>2, <1>3, <1>4, LeftIsNat DEF Left

\* Expanding a node takes it from the nodes that are not emitted.
LEMMA ExpandShrinks ==
  ASSUME IsFiniteSet(Node), TypeOK, EmittedOnce, Expand
  PROVE  Left' \in Nat /\ Left' < Left
<1> DEFINE h == Head(queue)
           u == Cardinality(Unemitted)
           n == Cardinality(Node)
           t == Cardinality(todo')
<1>1. h \in Unemitted
  BY HeadIsUnemitted DEF Expand
<1>2. Elems(out') = Elems(out) \cup {h}
  BY <1>1, ElemsAppend DEF Unemitted, TypeOK, Expand
<1>3. Unemitted' = Unemitted \ {h}
  BY <1>2 DEF Unemitted
<1>4. u \in Nat /\ n \in Nat /\ IsFiniteSet(Unemitted)
  BY LeftIsNat
<1>5. Cardinality(Unemitted') = u - 1 /\ u - 1 \in Nat
  <2> HIDE DEF h
  <2>1. /\ IsFiniteSet(Unemitted \ {h})
        /\ Cardinality(Unemitted \ {h}) = Cardinality(Unemitted) - 1
    BY <1>1, <1>4, FS_RemoveElement, Zenon
  <2>2. Cardinality(Unemitted \ {h}) \in Nat
    BY <2>1, FS_CardinalityType, Zenon
  <2> QED BY <1>3, <2>1, <2>2
<1>6. todo' \in SUBSET Node
  BY <1>1 DEF Expand, TypeOK, Unemitted
<1>7. t \in Nat /\ t <= n
  BY <1>6, FS_Subset, FS_CardinalityType
<1>8. Left = u * (n + 1)
  <2>1. Cardinality(todo) = 0
    BY FS_EmptySet DEF Expand
  <2> QED BY <1>4, <2>1 DEF Left
<1>9. Left' = (u - 1) * (n + 1) + t
  BY <1>5 DEF Left
<1> HIDE DEF u, n, t
<1>10. u > 0
  BY <1>4, <1>5
<1>11. (u - 1) * (n + 1) + t \in Nat
  BY <1>4, <1>5, <1>7
<1> QED BY <1>4, <1>7, <1>8, <1>9, <1>10, <1>11, LeftArithmetic

\* The three searches cannot run forever: on a finite graph, whatever its
\* cycles and whatever the order of iteration, every step of the loop takes
\* something from a natural number.
THEOREM BfsShrinks ==
  ASSUME IsFiniteSet(Node)
  PROVE  Spec => [][Left' \in Nat /\ Left' < Left]_vars
<1>1. IInv /\ EmittedOnce /\ [Next]_vars => [Left' \in Nat /\ Left' < Left]_vars
  BY VisitShrinks, ExpandShrinks DEF IInv, Next
<1>2. Init => EmittedOnce
  BY DEF Init, EmittedOnce
<1> QED BY <1>1, <1>2, InitIInv, NextIInv, NextEmittedOnce, PTL DEF Spec
==============================================================================
