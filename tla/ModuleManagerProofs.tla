------------------------- MODULE ModuleManagerProofs -------------------------
(***************************************************************************)
(* Loading and combining modules, for every set of files and every import  *)
(* graph.                                                                  *)
(*                                                                         *)
(* The set visited of resolve_dependencies: a call finds its key either    *)
(* visited, and throws, or new; it puts the key there and takes it away    *)
(* when it returns.  So the calls whose key is visited have distinct keys, *)
(* and only the call that has just been entered may not be among them.     *)
(*                                                                         *)
(* The three recursions: along each of their stacks every file is imported *)
(* by the one below, so a file that comes twice is on a cycle (PathInv,    *)
(* CheckInv, ModulePath); what has been gone through of the imports of a   *)
(* call is settled, or is the call above (HandledInv, PlainInv,            *)
(* StackOfModules).                                                        *)
(***************************************************************************)
EXTENDS ModuleManager, DependencyGraphProofs, FiniteSetTheorems, SequenceTheorems, TLAPS

Call == [key : Key, file : File, todo : Seq(File)]

\* What the recursion of resolve_dependencies keeps in its variables.
TypeOK ==
  /\ place \in [File -> Place]
  /\ imports \in [File -> Seq(File)]
  /\ modules \in [Key -> File \cup {Absent, Empty}]
  /\ resolving \in Seq(Call)

\* The first n calls are those whose key is visited.
OnStack(n) ==
  /\ visited = {resolving[i].key : i \in 1..n}
  /\ \A i, j \in 1..n : resolving[i].key = resolving[j].key => i = j
  /\ IsFiniteSet(visited) /\ Cardinality(visited) = n

StackInv ==
  /\ phase \in {"enter", "load", "imports"} => resolving # <<>>
  /\ phase = "enter" => OnStack(Len(resolving) - 1)
  /\ phase \in {"load", "imports"} => OnStack(Len(resolving))

\* Only a module that is loaded has imports left to resolve.
TodoOfLoaded ==
  \A i \in 1..Len(resolving) :
    resolving[i].todo # <<>> => modules[resolving[i].key] \in File

IInv == TypeOK /\ TodoOfLoaded /\ StackInv

------------------------------------------------------------------------------

\* The key under which a file is stored, and the one by which it is imported,
\* are names of modules.
LEMMA NamesAreKeys ==
  ASSUME TypeOK
  PROVE  /\ MainKey \in Key
         /\ \A f \in File : ModuleName(f) \in Key
         /\ \A f, g \in File : PathTo(f, g) \in Key
<1>1. \A f \in File : place[f] \in Place
  BY DEF TypeOK
<1> QED BY <1>1, Inputs DEF MainKey, Named, Key, ModuleName, PathTo, Place

\* The imports of a module are those of a file, or there are none.
LEMMA ImportsAreFiles ==
  ASSUME TypeOK
  PROVE  \A k \in Key : ImportsOf(k) \in Seq(File)
BY DEF TypeOK, ImportsOf

\* The top frame of a stack that is not empty.
LEMMA TopFacts ==
  ASSUME TypeOK, resolving # <<>>
  PROVE  /\ Len(resolving) \in Nat /\ Len(resolving) > 0
         /\ Len(resolving) \in 1..Len(resolving)
         /\ Top(resolving) = resolving[Len(resolving)]
         /\ Top(resolving) \in Call
BY DEF TypeOK, Top

\* Every frame of the stack is a call.
LEMMA CallFacts ==
  ASSUME TypeOK, NEW i \in 1..Len(resolving)
  PROVE  /\ resolving[i] \in Call
         /\ resolving[i].key \in Key /\ resolving[i].file \in File
         /\ resolving[i].todo \in Seq(File)
<1>1. resolving[i] \in Call
  BY DEF TypeOK
<1> QED BY <1>1 DEF Call

------------------------------------------------------------------------------
(* The steps of resolve_dependencies *)

\* The same calls, but for the imports that the last one has left.
SameCalls(n) ==
  /\ resolving' \in Seq(Call) /\ resolving' # <<>> /\ Len(resolving') = n
  /\ \A i \in 1..n : /\ resolving'[i].key = resolving[i].key
                     /\ resolving'[i].file = resolving[i].file
  /\ \A i \in 1..n : i # n => resolving'[i] = resolving[i]

\* Another list of imports in the top frame.
LEMMA NewTodo ==
  ASSUME TypeOK, NEW n, n = Len(resolving), resolving # <<>>, NEW t \in Seq(File),
         resolving' = [resolving EXCEPT ![n].todo = t]
  PROVE  SameCalls(n) /\ resolving'[n].todo = t
<1> DEFINE r == [resolving[n] EXCEPT !.todo = t]
<1>1. n \in Nat /\ n > 0 /\ n \in 1..n /\ resolving[n] \in Call
  BY TopFacts
<1>2. resolving' = [resolving EXCEPT ![n] = r]
  BY <1>1
<1>3. /\ r \in Call /\ r.todo = t
      /\ r.key = resolving[n].key /\ r.file = resolving[n].file
  BY <1>1 DEF Call
<1> HIDE DEF r
<1>4. resolving \in Seq(Call) /\ n \in 1..Len(resolving)
  BY <1>1 DEF TypeOK
<1>5. /\ [resolving EXCEPT ![n] = r] \in Seq(Call) /\ Len([resolving EXCEPT ![n] = r]) = n
      /\ \A i \in 1..n : [resolving EXCEPT ![n] = r][i] = IF i = n THEN r ELSE resolving[i]
  BY <1>3, <1>4, ExceptSeq
<1>6. /\ resolving' \in Seq(Call) /\ Len(resolving') = n
      /\ \A i \in 1..n : resolving'[i] = IF i = n THEN r ELSE resolving[i]
  BY <1>2, <1>5
<1> QED BY <1>1, <1>3, <1>6 DEF SameCalls

\* A module that is loaded already.
LEMMA AlreadyLoadedStep ==
  ASSUME IInv, AlreadyLoaded, NEW n, n = Len(resolving)
  PROVE  /\ n \in Nat /\ n > 0 /\ resolving[n] \in Call
         /\ phase = "enter" /\ phase' = "imports"
         /\ modules[resolving[n].key] # Absent
         /\ resolving[n].key \notin visited
         /\ visited' = visited \cup {resolving[n].key}
         /\ SameCalls(n) /\ resolving'[n].todo = ImportsOf(resolving[n].key)
         /\ UNCHANGED <<place, imports, config, modules, checking, combining, processed, program>>
<1>1. TypeOK /\ resolving # <<>>
  BY DEF IInv, StackInv, AlreadyLoaded
<1>2. n \in Nat /\ n > 0 /\ resolving[n] \in Call /\ Top(resolving) = resolving[n]
  BY <1>1, TopFacts
<1>3. resolving' = [resolving EXCEPT ![n].todo = ImportsOf(resolving[n].key)]
  BY <1>2 DEF AlreadyLoaded
<1>4. ImportsOf(resolving[n].key) \in Seq(File)
  BY <1>1, <1>2, ImportsAreFiles DEF Call
<1>5. SameCalls(n) /\ resolving'[n].todo = ImportsOf(resolving[n].key)
  BY <1>1, <1>3, <1>4, NewTodo
<1> QED BY <1>2, <1>5 DEF AlreadyLoaded, input, combineVars

\* A module that is not.
LEMMA LoadStep ==
  ASSUME IInv, Load, NEW n, n = Len(resolving)
  PROVE  /\ n \in Nat /\ n > 0 /\ resolving[n] \in Call
         /\ phase = "enter" /\ phase' = "load"
         /\ resolving[n].key \notin visited
         /\ visited' = visited \cup {resolving[n].key}
         /\ checking' = IF config
                          THEN <<[file |-> resolving[n].file, todo |-> imports[resolving[n].file]]>>
                          ELSE <<>>
         /\ UNCHANGED <<place, imports, config, modules, resolving, combining, processed, program>>
<1>1. TypeOK /\ resolving # <<>>
  BY DEF IInv, StackInv, Load
<1>2. n \in Nat /\ n > 0 /\ resolving[n] \in Call /\ Top(resolving) = resolving[n]
  BY <1>1, TopFacts
<1> QED BY <1>2 DEF Load, input, combineVars

\* What storing a module changes.
LEMMA StoredFacts ==
  ASSUME TypeOK, NEW k \in Key, NEW f \in File, modules' = Stored(k, f)
  PROVE  /\ modules' \in [Key -> File \cup {Absent, Empty}]
         /\ ModuleName(f) \in Key
         /\ modules'[ModuleName(f)] = f
         /\ modules'[k] # Absent
         /\ \A q \in Key : \/ q = ModuleName(f) \/ modules'[q] = modules[q]
                           \/ q = k /\ modules[q] = Absent /\ modules'[q] = Empty
<1>1. ModuleName(f) \in Key
  BY NamesAreKeys
<1>2. \A q \in Key : modules[q] \in File \cup {Absent, Empty}
  BY DEF TypeOK
<1>3. DOMAIN modules = Key
  BY DEF TypeOK
<1>4. /\ DOMAIN modules' = Key
      /\ \A q \in Key : modules'[q] =
           IF q = k /\ (k # ModuleName(f) /\ modules[k] = Absent) THEN Empty
           ELSE IF q = ModuleName(f) THEN f ELSE modules[q]
  BY <1>1, <1>3, Inputs DEF Stored, TypeOK
<1>5. modules' = [q \in Key |-> modules'[q]]
  BY <1>1, <1>3 DEF Stored, TypeOK
<1>6. modules' \in [Key -> File \cup {Absent, Empty}]
  BY <1>1, <1>2, <1>4, <1>5
<1> QED BY <1>1, <1>4, <1>6, Inputs

\* A module that was loaded.
LEMMA StoreStep ==
  ASSUME IInv, Store, NEW n, n = Len(resolving)
  PROVE  /\ n \in Nat /\ n > 0 /\ resolving[n] \in Call
         /\ phase = "load"
         /\ phase' = IF InUse(ModuleName(resolving[n].file)) THEN "undefined" ELSE "imports"
         /\ modules' = Stored(resolving[n].key, resolving[n].file)
         /\ SameCalls(n)
         /\ resolving'[n].todo = IF modules'[resolving[n].key] \in File
                                   THEN imports[modules'[resolving[n].key]] ELSE <<>>
         /\ UNCHANGED <<place, imports, config, visited, checking, combining, processed, program>>
<1> DEFINE t == IF modules'[resolving[n].key] \in File
                  THEN imports[modules'[resolving[n].key]] ELSE <<>>
<1>1. TypeOK /\ resolving # <<>>
  BY DEF IInv, StackInv, Store
<1>2. n \in Nat /\ n > 0 /\ resolving[n] \in Call /\ Top(resolving) = resolving[n]
  BY <1>1, TopFacts
<1>3. resolving' = [resolving EXCEPT ![n].todo = t]
  BY <1>2 DEF Store
<1>4. t \in Seq(File)
  BY <1>1 DEF TypeOK
<1>5. SameCalls(n) /\ resolving'[n].todo = t
  <2> HIDE DEF t
  <2> QED BY <1>1, <1>3, <1>4, NewTodo
<1> QED BY <1>2, <1>5 DEF Store, input, combineVars

\* An import of the module on top.
LEMMA ResolveImportStep ==
  ASSUME IInv, ResolveImport, NEW n, n = Len(resolving)
  PROVE  /\ n \in Nat /\ n > 0 /\ resolving[n] \in Call
         /\ phase = "imports" /\ phase' = "enter"
         /\ modules[resolving[n].key] \in File
         /\ resolving[n].todo # <<>> /\ Head(resolving[n].todo) \in File \ Missing
         /\ resolving' \in Seq(Call) /\ resolving' # <<>> /\ Len(resolving') = n + 1
         /\ \A i \in 1..n : /\ resolving'[i].key = resolving[i].key
                            /\ resolving'[i].file = resolving[i].file
         /\ \A i \in 1..n : i # n => resolving'[i] = resolving[i]
         /\ resolving'[n].todo = Tail(resolving[n].todo)
         /\ resolving'[n + 1].key = PathTo(modules[resolving[n].key], Head(resolving[n].todo))
         /\ resolving'[n + 1].file = Head(resolving[n].todo)
         /\ resolving'[n + 1].todo = <<>>
         /\ UNCHANGED <<place, imports, config, modules, visited, checking, combining, processed, program>>
<1> DEFINE todo == resolving[n].todo
           g == Head(todo)
           f == modules[resolving[n].key]
           new == [key |-> PathTo(f, g), file |-> g, todo |-> <<>>]
           r == [resolving[n] EXCEPT !.todo = Tail(todo)]
           advanced == [resolving EXCEPT ![n] = r]
<1>1. TypeOK /\ resolving # <<>>
  BY DEF IInv, StackInv, ResolveImport
<1>2. n \in Nat /\ n > 0 /\ n \in 1..n /\ resolving[n] \in Call /\ Top(resolving) = resolving[n]
  BY <1>1, TopFacts
<1>3. /\ todo # <<>> /\ resolving' = Append(advanced, new) /\ g \notin Missing
  BY <1>2 DEF ResolveImport, Advance
<1>4. todo \in Seq(File) /\ g \in File /\ Tail(todo) \in Seq(File)
  BY <1>2, <1>3 DEF Call
<1>5. f \in File
  BY <1>2, <1>3 DEF IInv, TodoOfLoaded
<1>6. new \in Call /\ new.key = PathTo(f, g) /\ new.file = g /\ new.todo = <<>>
  BY <1>1, <1>4, <1>5, NamesAreKeys DEF Call
<1>7. /\ r \in Call /\ r.key = resolving[n].key /\ r.file = resolving[n].file
      /\ r.todo = Tail(todo)
  BY <1>2, <1>4 DEF Call
<1>8. resolving \in Seq(Call) /\ n \in 1..Len(resolving)
  BY <1>1, <1>2 DEF TypeOK
<1>9. /\ advanced \in Seq(Call) /\ Len(advanced) = n
      /\ \A i \in 1..n : advanced[i] = IF i = n THEN r ELSE resolving[i]
  <2> HIDE DEF r
  <2> QED BY <1>7, <1>8, ExceptSeq
<1>10. /\ resolving' \in Seq(Call) /\ Len(resolving') = n + 1 /\ resolving' # <<>>
       /\ resolving'[n + 1] = new
       /\ \A i \in 1..n : resolving'[i] = advanced[i]
  <2> HIDE DEF new, advanced
  <2> QED BY <1>2, <1>3, <1>6, <1>9
<1>11. /\ \A i \in 1..n : /\ resolving'[i].key = resolving[i].key
                          /\ resolving'[i].file = resolving[i].file
       /\ \A i \in 1..n : i # n => resolving'[i] = resolving[i]
       /\ resolving'[n].todo = Tail(todo)
  <2> HIDE DEF new, advanced, r
  <2> QED BY <1>2, <1>7, <1>9, <1>10
<1>12. /\ phase = "imports" /\ phase' = "enter"
       /\ UNCHANGED <<place, imports, config, modules, visited, checking, combining, processed, program>>
  BY DEF ResolveImport, input, combineVars
<1>13. /\ resolving'[n + 1].key = PathTo(f, g) /\ resolving'[n + 1].file = g
       /\ resolving'[n + 1].todo = <<>>
  BY <1>6, <1>10
<1> QED BY <1>2, <1>3, <1>4, <1>5, <1>10, <1>11, <1>12, <1>13

\* A call that returns.
LEMMA ResolvedStep ==
  ASSUME IInv, Resolved, NEW n, n = Len(resolving)
  PROVE  /\ n \in Nat /\ n > 0 /\ resolving[n] \in Call
         /\ phase = "imports" /\ resolving[n].todo = <<>>
         /\ visited' = visited \ {resolving[n].key}
         /\ resolving' \in Seq(Call) /\ Len(resolving') = n - 1
         /\ \A i \in 1..(n - 1) : resolving'[i] = resolving[i]
         /\ n > 1 => phase' = "imports" /\ UNCHANGED combining /\ resolving' # <<>>
         /\ n = 1 => \/ /\ config /\ phase' = "combine"
                        /\ combining' = <<[key |-> MainKey, todo |-> ImportsOf(MainKey)]>>
                     \/ ~config /\ phase' = "done" /\ UNCHANGED combining
         /\ UNCHANGED <<place, imports, config, modules, checking, processed, program>>
<1>1. TypeOK /\ resolving # <<>>
  BY DEF IInv, StackInv, Resolved
<1>2. n \in Nat /\ n > 0 /\ resolving[n] \in Call /\ Top(resolving) = resolving[n]
  BY <1>1, TopFacts
<1>3. resolving' = SubSeq(resolving, 1, n - 1)
  BY DEF Resolved, Pop
<1>4. /\ resolving' \in Seq(Call) /\ Len(resolving') = n - 1
      /\ \A i \in 1..(n - 1) : resolving'[i] = resolving[i]
  BY <1>1, <1>2, <1>3 DEF TypeOK
<1>5. n > 1 => resolving' # <<>>
  BY <1>2, <1>4
<1> QED BY <1>2, <1>4, <1>5 DEF Resolved, VisitedWithout, input

------------------------------------------------------------------------------
(* The calls under way *)

\* The calls keep their keys: what is visited is still the keys of the first n.
LEMMA SameKeys ==
  ASSUME NEW n \in Nat, OnStack(n), visited' = visited,
         \A i \in 1..n : resolving'[i].key = resolving[i].key
  PROVE  OnStack(n)'
BY DEF OnStack

\* A call with a new key becomes one of the calls whose key is visited.
LEMMA OneMore ==
  ASSUME NEW n \in Nat, n > 0, OnStack(n - 1), resolving[n].key \notin visited,
         visited' = visited \cup {resolving[n].key},
         \A i \in 1..n : resolving'[i].key = resolving[i].key
  PROVE  OnStack(n)'
<1>1. 1..n = 1..(n - 1) \cup {n}
  OBVIOUS
<1>2. IsFiniteSet(visited') /\ Cardinality(visited') = n
  <2>1. IsFiniteSet(visited) /\ Cardinality(visited) = n - 1
    BY DEF OnStack
  <2>2. Cardinality(visited \cup {resolving[n].key}) = (n - 1) + 1
    BY <2>1, FS_AddElement
  <2>3. IsFiniteSet(visited \cup {resolving[n].key})
    BY <2>1, FS_AddElement
  <2> QED BY <2>2, <2>3
<1>3. visited' = {resolving'[i].key : i \in 1..n}
  BY <1>1 DEF OnStack
<1>4. \A i \in 1..(n - 1) : resolving[i].key # resolving[n].key
  BY DEF OnStack
<1>5. \A i, j \in 1..n : resolving'[i].key = resolving'[j].key => i = j
  BY <1>1, <1>4 DEF OnStack
<1> QED BY <1>2, <1>3, <1>5 DEF OnStack

\* The last of the calls whose key is visited returns.
LEMMA OneLess ==
  ASSUME NEW n \in Nat, n > 0, OnStack(n),
         visited' = visited \ {resolving[n].key},
         \A i \in 1..(n - 1) : resolving'[i].key = resolving[i].key
  PROVE  OnStack(n - 1)'
<1>1. 1..n = 1..(n - 1) \cup {n}
  OBVIOUS
<1>2. resolving[n].key \in visited
  BY <1>1 DEF OnStack
<1>3. IsFiniteSet(visited') /\ Cardinality(visited') = n - 1
  <2>1. IsFiniteSet(visited) /\ Cardinality(visited) = n
    BY DEF OnStack
  <2>2. Cardinality(visited \ {resolving[n].key}) = n - 1
    BY <1>2, <2>1, FS_RemoveElement
  <2>3. IsFiniteSet(visited \ {resolving[n].key})
    BY <2>1, FS_RemoveElement
  <2> QED BY <2>2, <2>3
<1>4. \A i \in 1..(n - 1) : resolving[i].key # resolving[n].key
  <2> SUFFICES ASSUME NEW i \in 1..(n - 1), resolving[i].key = resolving[n].key
               PROVE  FALSE
    OBVIOUS
  <2>1. i \in 1..n /\ n \in 1..n /\ i # n
    OBVIOUS
  <2> QED BY <2>1 DEF OnStack
<1>5. visited' = {resolving'[i].key : i \in 1..(n - 1)}
  BY <1>1, <1>4 DEF OnStack
<1>6. \A i, j \in 1..(n - 1) : resolving'[i].key = resolving'[j].key => i = j
  BY <1>1 DEF OnStack
<1> QED BY <1>3, <1>5, <1>6 DEF OnStack

\* The first call has been entered and nothing is visited.
LEMMA InitIInv == Init => IInv
<1> SUFFICES ASSUME Init PROVE IInv
  OBVIOUS
<1> USE Inputs
<1>1. place \in [File -> Place] /\ imports \in [File -> Seq(File)]
  BY DEF Init
<1>2. modules \in [Key -> File \cup {Absent, Empty}]
  BY DEF Init
<1>3. MainKey \in Key
  BY DEF MainKey, Named, Key
<1>4. [key |-> MainKey, file |-> Main, todo |-> <<>>] \in Call
  BY <1>3 DEF Call
<1>5. resolving \in Seq(Call) /\ Len(resolving) = 1 /\ resolving # <<>>
  BY <1>4 DEF Init
<1>6. OnStack(0)
  BY FS_EmptySet DEF Init, OnStack
<1>7. phase = "enter"
  BY DEF Init
<1>8. TodoOfLoaded
  BY <1>5 DEF Init, TodoOfLoaded
<1> QED BY <1>1, <1>2, <1>5, <1>6, <1>7, <1>8 DEF IInv, TypeOK, StackInv

\* A module that is loaded already: its key joins the visited ones.
LEMMA AlreadyLoadedIInv ==
  ASSUME IInv, AlreadyLoaded
  PROVE  IInv'
<1>0. PICK n : n = Len(resolving)
  OBVIOUS
<1> DEFINE k == resolving[n].key
<1>1. TypeOK /\ resolving # <<>> /\ OnStack(n - 1)
  BY <1>0 DEF IInv, StackInv, AlreadyLoaded
<1>2. /\ n \in Nat /\ n > 0 /\ k \in Key /\ phase' = "imports"
      /\ k \notin visited /\ visited' = visited \cup {k}
      /\ SameCalls(n) /\ resolving'[n].todo = ImportsOf(k)
      /\ UNCHANGED <<place, imports, modules>>
  BY <1>0, AlreadyLoadedStep DEF Call
<1>3. ImportsOf(k) # <<>> => modules[k] \in File
  BY DEF ImportsOf
<1> HIDE DEF k
<1>4. OnStack(n)'
  BY <1>1, <1>2, OneMore DEF SameCalls, k
<1>5. TodoOfLoaded'
  BY <1>0, <1>2, <1>3 DEF IInv, TodoOfLoaded, SameCalls, k
<1> QED BY <1>1, <1>2, <1>4, <1>5 DEF IInv, TypeOK, StackInv, SameCalls

\* A module is being loaded: its key joins the visited ones.
LEMMA LoadIInv ==
  ASSUME IInv, Load
  PROVE  IInv'
<1>0. PICK n : n = Len(resolving)
  OBVIOUS
<1>1. TypeOK /\ resolving # <<>> /\ OnStack(n - 1)
  BY <1>0 DEF IInv, StackInv, Load
<1>2. /\ n \in Nat /\ n > 0 /\ phase' = "load"
      /\ resolving[n].key \notin visited /\ visited' = visited \cup {resolving[n].key}
      /\ UNCHANGED <<place, imports, modules, resolving>>
  BY <1>0, LoadStep
<1>3. OnStack(n)'
  BY <1>1, <1>2, OneMore
<1> QED BY <1>0, <1>1, <1>2, <1>3 DEF IInv, TypeOK, TodoOfLoaded, StackInv

\* A module that was loaded is stored, and the call goes on to its imports.
LEMMA StoreIInv ==
  ASSUME IInv, Store
  PROVE  IInv'
<1>0. PICK n : n = Len(resolving)
  OBVIOUS
<1> DEFINE call == resolving[n]
<1>1. TypeOK /\ resolving # <<>> /\ OnStack(n)
  BY <1>0 DEF IInv, StackInv, Store
<1>2. /\ n \in Nat /\ n > 0 /\ call \in Call
      /\ phase' \in {"undefined", "imports"}
      /\ modules' = Stored(call.key, call.file) /\ SameCalls(n)
      /\ resolving'[n].todo = IF modules'[call.key] \in File
                                THEN imports[modules'[call.key]] ELSE <<>>
      /\ UNCHANGED <<place, imports, visited>>
  BY <1>0, StoreStep
<1>3. /\ modules' \in [Key -> File \cup {Absent, Empty}]
      /\ \A k \in Key : modules[k] \in File => modules'[k] \in File
  <2>1. call.key \in Key /\ call.file \in File
    BY <1>2 DEF Call
  <2> HIDE DEF call
  <2> QED BY <1>1, <1>2, <2>1, StoredFacts, Inputs
<1>4. \A i \in 1..n : resolving[i].key \in Key
  BY <1>0, <1>1, CallFacts
<1>5. OnStack(n)'
  BY <1>1, <1>2, SameKeys DEF SameCalls
<1>6. TodoOfLoaded'
  BY <1>0, <1>2, <1>3, <1>4 DEF IInv, TodoOfLoaded, SameCalls
<1> QED BY <1>1, <1>2, <1>3, <1>5, <1>6 DEF IInv, TypeOK, StackInv, SameCalls

\* A call is entered for an import of the module whose imports are resolved.
LEMMA ResolveImportIInv ==
  ASSUME IInv, ResolveImport
  PROVE  IInv'
<1>0. PICK n : n = Len(resolving)
  OBVIOUS
<1>1. TypeOK /\ resolving # <<>> /\ OnStack(n)
  BY <1>0 DEF IInv, StackInv, ResolveImport
<1>2. /\ n \in Nat /\ n > 0 /\ phase' = "enter"
      /\ modules[resolving[n].key] \in File
      /\ resolving' \in Seq(Call) /\ resolving' # <<>> /\ Len(resolving') = n + 1
      /\ \A i \in 1..n : resolving'[i].key = resolving[i].key
      /\ \A i \in 1..n : i # n => resolving'[i] = resolving[i]
      /\ resolving'[n + 1].todo = <<>>
      /\ UNCHANGED <<place, imports, modules, visited>>
  BY <1>0, ResolveImportStep
<1>3. OnStack(n)'
  BY <1>1, <1>2, SameKeys
<1>4. StackInv'
  <2>1. Len(resolving') - 1 = n
    BY <1>2
  <2> QED BY <1>2, <1>3, <2>1 DEF StackInv
<1>5. TodoOfLoaded'
  <2> SUFFICES ASSUME NEW i \in 1..(n + 1), resolving'[i].todo # <<>>
               PROVE  modules[resolving'[i].key] \in File
    BY <1>2 DEF TodoOfLoaded
  <2>1. i \in 1..n
    BY <1>2
  <2> QED BY <1>0, <1>2, <2>1 DEF IInv, TodoOfLoaded
<1> QED BY <1>1, <1>2, <1>4, <1>5 DEF IInv, TypeOK

\* A call returns and takes its key away.
LEMMA ResolvedIInv ==
  ASSUME IInv, Resolved
  PROVE  IInv'
<1>0. PICK n : n = Len(resolving)
  OBVIOUS
<1>1. TypeOK /\ resolving # <<>> /\ OnStack(n)
  BY <1>0 DEF IInv, StackInv, Resolved
<1>2. /\ n \in Nat /\ n > 0 /\ visited' = visited \ {resolving[n].key}
      /\ resolving' \in Seq(Call) /\ Len(resolving') = n - 1
      /\ \A i \in 1..(n - 1) : resolving'[i] = resolving[i]
      /\ n > 1 => phase' = "imports" /\ resolving' # <<>>
      /\ n = 1 => phase' \in {"combine", "done"}
      /\ UNCHANGED <<place, imports, modules>>
  BY <1>0, ResolvedStep
<1>3. OnStack(n - 1)'
  BY <1>1, <1>2, OneLess
<1>4. TodoOfLoaded'
  BY <1>0, <1>2 DEF IInv, TodoOfLoaded
<1>5. StackInv'
  BY <1>2, <1>3 DEF StackInv
<1> QED BY <1>1, <1>2, <1>4, <1>5 DEF IInv, TypeOK

\* The steps that leave the calls of resolve_dependencies and the modules as
\* they are, and enter no phase of them.
OtherStep ==
  \/ CycleDetected \/ ImportMissing \/ CheckMissing \/ CheckImport \/ Checked
  \/ CombineImport \/ CombineModule \/ CombineOther \/ Combined \/ UNCHANGED vars

LEMMA OtherStepFacts ==
  ASSUME OtherStep
  PROVE  /\ UNCHANGED <<place, imports, config, modules, visited, resolving>>
         /\ phase' = phase \/ phase' \in {"cycle", "not found", "overflow", "done"}
         /\ phase' = "done" => phase \in {"combine", "done"}
         /\ phase = "undefined" => phase' = "undefined"
BY DEF OtherStep, CycleDetected, ImportMissing, CheckMissing, CheckImport, Checked,
       CombineImport, CombineModule, CombineOther, Combined, vars, input, combineVars

LEMMA OtherIInv ==
  ASSUME IInv, OtherStep
  PROVE  IInv'
<1>1. /\ UNCHANGED <<place, imports, modules, visited, resolving>>
      /\ phase' = phase \/ phase' \notin {"enter", "load", "imports"}
  BY OtherStepFacts
<1>2. TypeOK'
  BY <1>1 DEF IInv, TypeOK
<1>3. TodoOfLoaded'
  BY <1>1 DEF IInv, TodoOfLoaded
<1>4. \A n : OnStack(n)' = OnStack(n)
  BY <1>1 DEF OnStack
<1>5. StackInv'
  BY <1>1, <1>4 DEF IInv, StackInv
<1> QED BY <1>2, <1>3, <1>5 DEF IInv

\* A step is one of resolve_dependencies, or of the others.
LEMMA NextSteps ==
  ASSUME [Next]_vars
  PROVE  AlreadyLoaded \/ Load \/ Store \/ ResolveImport \/ Resolved \/ OtherStep
BY DEF Next, OtherStep

\* Every step keeps the invariant.
LEMMA NextIInv == IInv /\ [Next]_vars => IInv'
BY NextSteps, AlreadyLoadedIInv, LoadIInv, StoreIInv, ResolveImportIInv, ResolvedIInv, OtherIInv

\* While imports are resolved, visited holds the keys of the calls of
\* resolve_dependencies under way, each once: so a key that is found there is
\* that of a call that has not returned, and a module that is imported along
\* two paths is not taken for a cycle, whatever the files import.
THEOREM ResolutionVisitedIsStack == Spec => []VisitedIsStack
<1>1. IInv => VisitedIsStack
  BY DEF IInv, StackInv, OnStack, VisitedIsStack
<1> QED BY InitIInv, NextIInv, <1>1, PTL DEF Spec


------------------------------------------------------------------------------
(* The files of the program *)

\* The files that f imports, itself or through others.
Below(f) == Dependents(Edges, f)

\* The files that loading can come to.
Loadable == Reached \ Missing

\* What a sequence holds is its head and what its tail holds.
LEMMA RangeFacts ==
  ASSUME NEW S, NEW s \in Seq(S)
  PROVE  /\ Range(s) = {s[i] : i \in 1..Len(s)} /\ Range(s) \subseteq S
         /\ s # <<>> => /\ Head(s) \in Range(s)
                        /\ Range(Tail(s)) \subseteq Range(s)
                        /\ Range(s) \subseteq {Head(s)} \cup Range(Tail(s))
<1>1. Range(s) = {s[i] : i \in 1..Len(s)} /\ Range(s) \subseteq S
  BY RangeEquality, ElementOfSeq
<1>2. ASSUME s # <<>>
      PROVE  /\ Head(s) \in Range(s)
             /\ Range(Tail(s)) \subseteq Range(s)
             /\ Range(s) \subseteq {Head(s)} \cup Range(Tail(s))
  <2>1. /\ Tail(s) \in Seq(S) /\ Len(Tail(s)) = Len(s) - 1 /\ Len(s) \in Nat /\ Len(s) > 0
        /\ \A i \in 1..Len(Tail(s)) : Tail(s)[i] = s[i + 1]
        /\ Head(s) = s[1]
    BY <1>2
  <2>2. Range(Tail(s)) = {Tail(s)[i] : i \in 1..Len(Tail(s))}
    BY <2>1, RangeEquality
  <2>3. Head(s) \in Range(s)
    BY <1>1, <2>1
  <2>4. Range(Tail(s)) \subseteq Range(s)
    <3> SUFFICES ASSUME NEW i \in 1..Len(Tail(s)) PROVE Tail(s)[i] \in Range(s)
      BY <2>2
    <3>1. i + 1 \in 1..Len(s) /\ Tail(s)[i] = s[i + 1]
      BY <2>1
    <3> QED BY <1>1, <3>1
  <2>5. Range(s) \subseteq {Head(s)} \cup Range(Tail(s))
    <3> SUFFICES ASSUME NEW i \in 1..Len(s), i # 1 PROVE s[i] \in Range(Tail(s))
      BY <1>1, <2>1
    <3>1. i - 1 \in 1..Len(Tail(s)) /\ Tail(s)[i - 1] = s[i]
      BY <2>1
    <3> QED BY <2>2, <3>1
  <2> QED BY <2>3, <2>4, <2>5
<1> QED BY <1>1, <1>2

\* The empty sequence holds nothing.
LEMMA RangeOfEmpty == Range(<<>>) = {}
<1>1. <<>> \in Seq({})
  BY EmptySeq
<1>2. Range(<<>>) \in SUBSET {}
  BY <1>1, RangeOfSeq
<1> QED BY <1>2

\* The graph of the imports.
LEMMA GraphFacts ==
  ASSUME TypeOK
  PROVE  /\ Edges \in [File -> SUBSET File]
         /\ \A f \in File : Edges[f] = Range(imports[f])
<1>1. \A f \in File : imports[f] \in Seq(File)
  BY DEF TypeOK
<1>2. \A f \in File : Range(imports[f]) = {imports[f][n] : n \in 1..Len(imports[f])}
                      /\ Range(imports[f]) \subseteq File
  BY <1>1, RangeFacts
<1> QED BY <1>2 DEF Edges

\* The files below a file hold what they import and what is below them.
LEMMA BelowFacts ==
  ASSUME TypeOK, NEW f \in File
  PROVE  /\ Below(f) \subseteq File
         /\ Edges[f] \subseteq Below(f)
         /\ \A g \in Below(f) : Edges[g] \subseteq Below(f) /\ Below(g) \subseteq Below(f)
<1>1. Edges \in [File -> SUBSET File]
  BY GraphFacts
<1>2. Below(f) \subseteq File /\ Edges[f] \subseteq Below(f)
  BY <1>1, DependentsAreNodes, DirectAreDependents DEF Below
<1>3. \A g \in Below(f) : Edges[g] \subseteq Below(f)
  BY <1>1, DependentsClosed DEF Below
<1>4. \A g \in Below(f) : Below(g) \subseteq Below(f)
  BY <1>1, <1>2, <1>3, DependentsLeast DEF Below
<1> QED BY <1>2, <1>3, <1>4

\* The files of the program hold what they import.
LEMMA ReachedFacts ==
  ASSUME TypeOK
  PROVE  /\ Main \in Reached /\ Main \in Loadable /\ Reached \subseteq File
         /\ \A f \in Reached : Edges[f] \subseteq Reached /\ Below(f) \subseteq Reached
<1>1. Main \in File /\ Main \notin Missing
  BY Inputs
<1>2. Reached = {Main} \cup Below(Main)
  BY DEF Reached, Below
<1> QED BY <1>1, <1>2, BelowFacts DEF Loadable

\* The files are the input: no step changes them.
LEMMA SameFiles ==
  ASSUME UNCHANGED <<place, imports>>
  PROVE  /\ Edges' = Edges /\ Reached' = Reached /\ Loadable' = Loadable
         /\ \A f : Below(f)' = Below(f) /\ ModuleName(f)' = ModuleName(f)
         /\ DistinctNames' = DistinctNames /\ NoNamesake' = NoNamesake
         /\ MainIsMain' = MainIsMain /\ PlainPaths' = PlainPaths /\ Cyclic' = Cyclic
<1>1. Edges' = Edges
  BY DEF Edges
<1>2. Reached' = Reached
  BY <1>1 DEF Reached
<1>3. \A f : ModuleName(f)' = ModuleName(f)
  BY DEF ModuleName
<1>4. \A f, g : PathTo(f, g)' = PathTo(f, g)
  BY DEF PathTo
<1> QED BY <1>1, <1>2, <1>3, <1>4
        DEF Loadable, Below, DistinctNames, NoNamesake, MainIsMain, PlainPaths, Cyclic

\* Calls are made for files of the program that exist, and such files are
\* stored, each under its own name.
FilesInv ==
  /\ \A i \in 1..Len(resolving) :
       /\ resolving[i].file \in Loadable
       /\ i > 1 => resolving[i].key.stem = place[resolving[i].file].stem
  /\ \A k \in Key :
       modules[k] \in File => modules[k] \in Loadable /\ ModuleName(modules[k]) = k

\* A call iterates over the imports of the module stored under its key, and,
\* where names tell the files apart, the files of the calls above it are below
\* that module.
PathInv ==
  phase # "undefined" =>
    \A i \in 1..Len(resolving) :
      /\ Range(resolving[i].todo) \subseteq Range(ImportsOf(resolving[i].key))
      /\ i < Len(resolving) => modules[resolving[i].key] \in File
      /\ DistinctNames =>
           \A j \in 1..Len(resolving) :
             i < j => resolving[j].file \in Below(modules[resolving[i].key])

LoadInv == IInv /\ FilesInv /\ PathInv

\* The stems of keys.
LEMMA StemFacts ==
  ASSUME TypeOK, NEW f \in File, NEW g \in File
  PROVE  /\ ModuleName(f).stem = place[f].stem
         /\ ModuleName(f).route = "here" /\ ModuleName(f).ext = FALSE
         /\ PathTo(f, g).stem = place[g].stem
BY DEF ModuleName, Named, PathTo

\* A file that is stored is not taken for another one.
LEMMA StoredIsNamed ==
  ASSUME IInv, FilesInv, DistinctNames, NEW k \in Key, modules[k] \in File,
         NEW g \in Loadable, place[g].stem = k.stem
  PROVE  modules[k] = g
<1>1. /\ modules[k] \in Reached \ Missing /\ ModuleName(modules[k]) = k
      /\ g \in Reached \ Missing
  BY DEF FilesInv, Loadable
<1>2. place[modules[k]].stem = k.stem
  BY <1>1, StemFacts DEF IInv
<1> QED BY <1>1, <1>2 DEF DistinctNames

\* The first call is for the main file.
LEMMA InitLoadInv == Init => LoadInv
<1> SUFFICES ASSUME Init PROVE LoadInv
  OBVIOUS
<1>1. IInv
  BY InitIInv
<1>2. /\ Len(resolving) = 1 /\ resolving[1].file = Main /\ resolving[1].todo = <<>>
      /\ \A k \in Key : modules[k] \notin File
  BY Inputs DEF Init
<1>3. Main \in Loadable
  BY <1>1, ReachedFacts DEF IInv
<1>4. Range(resolving[1].todo) = {}
  BY <1>2, RangeOfEmpty
<1> QED BY <1>1, <1>2, <1>3, <1>4 DEF LoadInv, FilesInv, PathInv

\* Going on to the imports of a module that is loaded.
LEMMA AlreadyLoadedLoadInv ==
  ASSUME LoadInv, AlreadyLoaded
  PROVE  LoadInv'
<1>0. PICK n : n = Len(resolving)
  OBVIOUS
<1>1. IInv /\ FilesInv /\ PathInv /\ IInv'
  BY AlreadyLoadedIInv DEF LoadInv
<1>2. /\ n \in Nat /\ n > 0 /\ phase = "enter"
      /\ SameCalls(n) /\ resolving'[n].todo = ImportsOf(resolving[n].key)
      /\ UNCHANGED <<place, imports, modules>>
  BY <1>0, <1>1, AlreadyLoadedStep
<1>3. FilesInv'
  BY <1>0, <1>1, <1>2, SameFiles DEF FilesInv, SameCalls
<1>4. \A k : ImportsOf(k)' = ImportsOf(k)
  BY <1>2 DEF ImportsOf
<1>5. PathInv'
  BY <1>0, <1>1, <1>2, <1>4, SameFiles DEF PathInv, SameCalls
<1> QED BY <1>1, <1>3, <1>5 DEF LoadInv

\* Loading a module.
LEMMA LoadLoadInv ==
  ASSUME LoadInv, Load
  PROVE  LoadInv'
<1>0. PICK n : n = Len(resolving)
  OBVIOUS
<1>1. IInv /\ FilesInv /\ PathInv /\ IInv'
  BY LoadIInv DEF LoadInv
<1>2. phase = "enter" /\ UNCHANGED <<place, imports, modules, resolving>>
  BY <1>0, <1>1, LoadStep
<1>3. \A k : ImportsOf(k)' = ImportsOf(k)
  BY <1>2 DEF ImportsOf
<1>4. FilesInv'
  BY <1>1, <1>2, SameFiles DEF FilesInv
<1>5. PathInv'
  BY <1>1, <1>2, <1>3, SameFiles DEF PathInv
<1> QED BY <1>1, <1>4, <1>5 DEF LoadInv

\* Storing a module: the modules whose imports the calls below iterate over
\* are not touched, or the behaviour is undefined.
LEMMA StoreLoadInv ==
  ASSUME LoadInv, Store
  PROVE  LoadInv'
<1>0. PICK n : n = Len(resolving)
  OBVIOUS
<1>1. IInv /\ TypeOK /\ FilesInv /\ PathInv /\ IInv'
  BY StoreIInv DEF LoadInv, IInv
<1>2. PICK k, f : k = resolving[n].key /\ f = resolving[n].file
  OBVIOUS
<1>3. /\ n \in Nat /\ n > 0 /\ n \in 1..n /\ phase = "load"
      /\ phase' = IF InUse(ModuleName(f)) THEN "undefined" ELSE "imports"
      /\ modules' = Stored(k, f)
      /\ SameCalls(n)
      /\ resolving'[n].todo = IF modules'[k] \in File THEN imports[modules'[k]] ELSE <<>>
      /\ UNCHANGED <<place, imports>>
  BY <1>0, <1>1, <1>2, StoreStep
<1>4. k \in Key /\ f \in File /\ f \in Loadable
  BY <1>0, <1>1, <1>2, <1>3, CallFacts DEF FilesInv
<1>5. /\ ModuleName(f) \in Key /\ modules'[ModuleName(f)] = f
      /\ \A q \in Key : \/ q = ModuleName(f) \/ modules'[q] = modules[q]
                        \/ q = k /\ modules[q] = Absent /\ modules'[q] = Empty
  BY <1>1, <1>3, <1>4, StoredFacts
<1>6. FilesInv'
  <2>1. \A i \in 1..Len(resolving') :
          /\ resolving'[i].file \in Loadable'
          /\ i > 1 => resolving'[i].key.stem = place'[resolving'[i].file].stem
    BY <1>0, <1>1, <1>3, SameFiles DEF FilesInv, SameCalls
  <2>2. ASSUME NEW q \in Key, modules'[q] \in File
        PROVE  modules'[q] \in Loadable /\ ModuleName(modules'[q]) = q
    BY <1>1, <1>4, <1>5, <2>2, Inputs DEF FilesInv
  <2>3. \A q \in Key : modules'[q] \in File =>
           modules'[q] \in Loadable' /\ (ModuleName(modules[q]) = q)'
    BY <1>3, <2>2, SameFiles
  <2> QED BY <2>1, <2>3 DEF FilesInv
<1>7. PathInv'
  <2> SUFFICES ASSUME phase' = "imports", NEW i \in 1..n
               PROVE  /\ Range(resolving'[i].todo) \subseteq Range(ImportsOf(resolving[i].key)')
                      /\ i < n => modules'[resolving'[i].key] \in File
                      /\ DistinctNames => \A j \in 1..n :
                           i < j => resolving'[j].file \in Below(modules'[resolving'[i].key])
    BY <1>3, SameFiles DEF PathInv, SameCalls
  <2>1. CASE i = n
    <3>1. resolving'[i].key = k
      BY <1>2, <1>3, <2>1 DEF SameCalls
    <3>2. resolving'[i].todo = ImportsOf(k)'
      BY <1>3, <2>1 DEF ImportsOf
    <3> QED BY <1>3, <2>1, <3>1, <3>2
  <2>2. CASE i < n
    <3>1. resolving[i].key \in Key /\ modules[resolving[i].key] \in File
      BY <1>0, <1>1, <1>3, <2>2, CallFacts DEF PathInv
    <3>2. resolving[i].key # ModuleName(f)
      BY <1>0, <1>3, <2>2 DEF InUse
    <3>3. modules'[resolving[i].key] = modules[resolving[i].key]
      BY <1>5, <3>1, <3>2, Inputs
    <3>4. resolving'[i] = resolving[i]
      BY <1>3, <2>2 DEF SameCalls
    <3>5. ImportsOf(resolving[i].key)' = ImportsOf(resolving[i].key)
      BY <1>3, <3>3, <3>4 DEF ImportsOf
    <3>6. \A j \in 1..n : resolving'[j].file = resolving[j].file
      BY <1>3 DEF SameCalls
    <3> QED BY <1>0, <1>1, <1>3, <2>2, <3>1, <3>3, <3>4, <3>5, <3>6 DEF PathInv
  <2> QED BY <1>3, <2>1, <2>2
<1> QED BY <1>1, <1>6, <1>7 DEF LoadInv

\* The import that a call goes on to is one of the module under its key.
LEMMA NextImport ==
  ASSUME LoadInv, phase # "undefined", NEW n \in 1..Len(resolving),
         modules[resolving[n].key] \in File, resolving[n].todo # <<>>
  PROVE  /\ Head(resolving[n].todo) \in Edges[modules[resolving[n].key]]
         /\ Head(resolving[n].todo) \in Reached
         /\ Range(Tail(resolving[n].todo)) \subseteq Range(ImportsOf(resolving[n].key))
<1>1. TypeOK /\ FilesInv /\ PathInv
  BY DEF LoadInv, IInv
<1>2. PICK k, todo : k = resolving[n].key /\ todo = resolving[n].todo
  OBVIOUS
<1>3. k \in Key /\ todo \in Seq(File)
  BY <1>1, <1>2, CallFacts
<1>4. Range(todo) \subseteq Range(ImportsOf(k))
  BY <1>1, <1>2 DEF PathInv
<1>5. Head(todo) \in Range(todo) /\ Range(Tail(todo)) \subseteq Range(todo)
  BY <1>2, <1>3, RangeFacts
<1>6. Range(ImportsOf(k)) = Edges[modules[k]]
  BY <1>1, <1>2, GraphFacts DEF ImportsOf
<1>7. modules[k] \in Reached
  BY <1>1, <1>2, <1>3 DEF FilesInv, Loadable
<1>8. Edges[modules[k]] \subseteq Reached
  BY <1>1, <1>7, ReachedFacts
<1> QED BY <1>2, <1>4, <1>5, <1>6, <1>8

\* Entering the call for an import.
LEMMA ResolveImportLoadInv ==
  ASSUME LoadInv, ResolveImport
  PROVE  LoadInv'
<1>0. PICK n : n = Len(resolving)
  OBVIOUS
<1>1. IInv /\ TypeOK /\ FilesInv /\ PathInv /\ IInv'
  BY ResolveImportIInv DEF LoadInv, IInv
<1>2. PICK f, g : f = modules[resolving[n].key] /\ g = Head(resolving[n].todo)
  OBVIOUS
<1>3. /\ n \in Nat /\ n > 0 /\ n \in 1..n /\ phase = "imports"
      /\ f \in File /\ g \in File \ Missing /\ resolving[n].todo # <<>>
      /\ Len(resolving') = n + 1
      /\ \A i \in 1..n : /\ resolving'[i].key = resolving[i].key
                         /\ resolving'[i].file = resolving[i].file
      /\ \A i \in 1..n : i # n => resolving'[i] = resolving[i]
      /\ resolving'[n].todo = Tail(resolving[n].todo)
      /\ resolving'[n + 1].key = PathTo(f, g) /\ resolving'[n + 1].file = g
      /\ resolving'[n + 1].todo = <<>>
      /\ UNCHANGED <<place, imports, modules>>
  BY <1>0, <1>1, <1>2, ResolveImportStep
<1>4. /\ g \in Edges[f] /\ g \in Reached
      /\ Range(Tail(resolving[n].todo)) \subseteq Range(ImportsOf(resolving[n].key))
  BY <1>0, <1>2, <1>3, NextImport
<1>5. FilesInv'
  <2>1. g \in Loadable /\ PathTo(f, g).stem = place[g].stem
    BY <1>1, <1>3, <1>4, StemFacts DEF Loadable
  <2>2. \A i \in 1..(n + 1) :
          /\ resolving'[i].file \in Loadable
          /\ i > 1 => resolving'[i].key.stem = place[resolving'[i].file].stem
    BY <1>0, <1>1, <1>3, <2>1 DEF FilesInv
  <2> QED BY <1>1, <1>3, <2>2, SameFiles DEF FilesInv
<1>6. \A k : ImportsOf(k)' = ImportsOf(k)
  BY <1>3 DEF ImportsOf
<1>7. PathInv'
  <2> SUFFICES ASSUME NEW i \in 1..(n + 1)
               PROVE  /\ Range(resolving'[i].todo) \subseteq Range(ImportsOf(resolving'[i].key))
                      /\ i < n + 1 => modules[resolving'[i].key] \in File
                      /\ DistinctNames => \A j \in 1..(n + 1) :
                           i < j => resolving'[j].file \in Below(modules[resolving'[i].key])
    BY <1>3, <1>6, SameFiles DEF PathInv
  <2>1. CASE i = n + 1
    BY <1>3, <2>1, RangeOfEmpty
  <2>2. CASE i = n
    <3>1. g \in Below(f)
      BY <1>1, <1>3, <1>4, BelowFacts
    <3> QED BY <1>2, <1>3, <1>4, <2>2, <3>1
  <2>3. CASE i < n
    <3>1. i \in 1..n /\ i # n /\ resolving'[i] = resolving[i]
      BY <1>3, <2>3
    <3>2. /\ Range(resolving[i].todo) \subseteq Range(ImportsOf(resolving[i].key))
          /\ modules[resolving[i].key] \in File
          /\ DistinctNames => \A j \in 1..n :
               i < j => resolving[j].file \in Below(modules[resolving[i].key])
      BY <1>0, <1>1, <1>3, <2>3 DEF PathInv
    <3>3. ASSUME DistinctNames
          PROVE  g \in Below(modules[resolving[i].key])
      <4>1. resolving[n].file \in Below(modules[resolving[i].key])
        BY <1>3, <2>3, <3>2, <3>3
      <4>2. f = resolving[n].file
        BY <1>0, <1>1, <1>2, <1>3, <2>3, <3>3, CallFacts, StoredIsNamed DEF FilesInv
      <4> QED BY <1>1, <1>4, <3>2, <4>1, <4>2, BelowFacts
    <3> QED BY <1>3, <2>3, <3>1, <3>2, <3>3
  <2> QED BY <1>3, <2>1, <2>2, <2>3
<1> QED BY <1>1, <1>5, <1>7 DEF LoadInv

\* Returning from a call.
LEMMA ResolvedLoadInv ==
  ASSUME LoadInv, Resolved
  PROVE  LoadInv'
<1>0. PICK n : n = Len(resolving)
  OBVIOUS
<1>1. IInv /\ TypeOK /\ FilesInv /\ PathInv /\ IInv'
  BY ResolvedIInv DEF LoadInv, IInv
<1>2. /\ n \in Nat /\ n > 0 /\ phase = "imports"
      /\ Len(resolving') = n - 1
      /\ \A i \in 1..(n - 1) : resolving'[i] = resolving[i]
      /\ UNCHANGED <<place, imports, modules>>
  BY <1>0, <1>1, ResolvedStep
<1>3. FilesInv'
  BY <1>0, <1>1, <1>2, SameFiles DEF FilesInv
<1>4. \A k : ImportsOf(k)' = ImportsOf(k)
  BY <1>2 DEF ImportsOf
<1>5. PathInv'
  <2>1. ASSUME NEW i \in 1..(n - 1)
        PROVE  /\ Range(resolving[i].todo) \subseteq Range(ImportsOf(resolving[i].key))
               /\ i < n - 1 => modules[resolving[i].key] \in File
               /\ DistinctNames => \A j \in 1..(n - 1) :
                    i < j => resolving[j].file \in Below(modules[resolving[i].key])
    <3>1. i \in 1..n /\ i < n /\ \A j \in 1..(n - 1) : j \in 1..n
      BY <1>2
    <3>2. /\ Range(resolving[i].todo) \subseteq Range(ImportsOf(resolving[i].key))
          /\ i < n => modules[resolving[i].key] \in File
          /\ DistinctNames => \A j \in 1..n :
               i < j => resolving[j].file \in Below(modules[resolving[i].key])
      BY <1>0, <1>1, <1>2, <3>1 DEF PathInv
    <3> QED BY <3>1, <3>2
  <2> QED BY <1>2, <1>4, <2>1, SameFiles DEF PathInv
<1> QED BY <1>1, <1>3, <1>5 DEF LoadInv

\* The other steps.
LEMMA OtherLoadInv ==
  ASSUME LoadInv, OtherStep
  PROVE  LoadInv'
<1>1. IInv /\ FilesInv /\ PathInv /\ IInv'
  BY OtherIInv DEF LoadInv
<1>2. /\ UNCHANGED <<place, imports, modules, resolving>>
      /\ phase = "undefined" => phase' = "undefined"
  BY OtherStepFacts
<1>3. \A k : ImportsOf(k)' = ImportsOf(k)
  BY <1>2 DEF ImportsOf
<1>4. FilesInv'
  BY <1>1, <1>2, SameFiles DEF FilesInv
<1>5. PathInv'
  BY <1>1, <1>2, <1>3, SameFiles DEF PathInv
<1> QED BY <1>1, <1>4, <1>5 DEF LoadInv

\* Every step keeps it.
LEMMA NextLoadInv == LoadInv /\ [Next]_vars => LoadInv'
BY NextSteps, AlreadyLoadedLoadInv, LoadLoadInv, StoreLoadInv, ResolveImportLoadInv,
   ResolvedLoadInv, OtherLoadInv


------------------------------------------------------------------------------
(* Combining the modules *)

Frame == [key : Key, todo : Seq(File)]

Part == [file : File, part : {"all", "declaration"}]

CombineTypeOK ==
  /\ combining \in Seq(Frame)
  /\ processed \subseteq Key
  /\ program \in Seq(Part)

\* process_module has nothing to do, or no more, for an import of g.
Over(g) == modules[ModuleName(g)] = Absent \/ ModuleName(g) \in processed

\* The calls of process_module: none is for a module that is processed, each
\* is for an import of the one below, and every other import that a call has
\* gone through is over.
StackOfModules ==
  /\ \A i \in 1..Len(combining) :
       /\ combining[i].key \notin processed
       /\ Range(combining[i].todo) \subseteq Range(ImportsOf(combining[i].key))
       /\ \A g \in Range(ImportsOf(combining[i].key)) :
            \/ g \in Range(combining[i].todo)
            \/ Over(g)
            \/ i < Len(combining) /\ ModuleName(g) = combining[i + 1].key
  /\ \A i \in 1..Len(combining) :
       i < Len(combining) =>
         /\ modules[combining[i + 1].key] # Absent
         /\ \E g \in Range(ImportsOf(combining[i].key)) :
              combining[i + 1].key = ModuleName(g)

\* The combined program: what is taken of the modules that are processed,
\* whose imports are over, each once and after what it imports.
ProgramInv ==
  /\ \A k \in processed : \A g \in Range(ImportsOf(k)) : Over(g)
  /\ \A i \in 1..Len(program) :
       /\ ModuleName(program[i].file) \in processed
       /\ modules[ModuleName(program[i].file)] = program[i].file
  /\ \A i, j \in 1..Len(program) : program[i].file = program[j].file => i = j
  /\ \A k \in processed : Range(StatementsOf(k)) \subseteq Range(program)
  /\ ImportsFirst

NotCombining == combining = <<>> /\ processed = {} /\ program = <<>>

CombineInv ==
  /\ CombineTypeOK
  /\ phase \in {"enter", "load", "imports"} => NotCombining
  /\ StackOfModules
  /\ ProgramInv
  /\ phase = "done" /\ config => \A k \in Key : modules[k] # Absent => k \in processed

\* Where nothing is combined yet there is nothing to keep.
LEMMA NothingCombined == NotCombining /\ (phase = "done" => ~config) => CombineInv
<1> SUFFICES ASSUME NotCombining, phase = "done" => ~config
             PROVE  CombineInv
  OBVIOUS
<1>1. combining = <<>> /\ processed = {} /\ program = <<>>
  BY DEF NotCombining
<1>2. Len(combining) = 0 /\ Len(program) = 0
  BY <1>1
<1>3. CombineTypeOK
  BY <1>1 DEF CombineTypeOK
<1>4. StackOfModules
  BY <1>2 DEF StackOfModules
<1>5. ProgramInv
  BY <1>1, <1>2 DEF ProgramInv, ImportsFirst
<1> QED BY <1>3, <1>4, <1>5 DEF CombineInv

\* So after a step.
LEMMA NothingCombinedNext ==
  NotCombining' /\ (phase = "done" => ~config)' => CombineInv'
BY NothingCombined, PTL

\* The top frame of the calls of process_module.
LEMMA FrameFacts ==
  ASSUME CombineTypeOK, NEW i \in 1..Len(combining)
  PROVE  /\ combining[i] \in Frame
         /\ combining[i].key \in Key /\ combining[i].todo \in Seq(File)
<1>1. combining[i] \in Frame
  BY DEF CombineTypeOK
<1> QED BY <1>1 DEF Frame

\* What is taken of a module is of the file stored under its name.
LEMMA StatementsFacts ==
  ASSUME TypeOK, NEW k \in Key
  PROVE  /\ StatementsOf(k) \in Seq(Part) /\ Len(StatementsOf(k)) \in {0, 1}
         /\ \A i \in 1..Len(StatementsOf(k)) :
              modules[k] \in File /\ StatementsOf(k)[i].file = modules[k]
<1>1. CASE StatementsOf(k) = <<>>
  BY <1>1
<1>2. CASE StatementsOf(k) # <<>>
  <2>1. PICK p \in Part : StatementsOf(k) = <<p>> /\ p.file = modules[k] /\ modules[k] \in File
    BY <1>2 DEF StatementsOf, Part
  <2>2. /\ <<p>> \in Seq(Part) /\ Len(<<p>>) = 1 /\ <<p>>[1] = p
    OBVIOUS
  <2> QED BY <2>1, <2>2
<1> QED BY <1>1, <1>2

\* An import of a module under way: its call is advanced, and unless the import
\* is over or the stack exhausted, a new call is on top.
LEMMA CombineImportStep ==
  ASSUME CombineTypeOK, TypeOK, CombineImport, NEW n, n = Len(combining),
         NEW k, k = ModuleName(Head(combining[n].todo))
  PROVE  /\ n \in Nat /\ n > 0 /\ n \in 1..n /\ k \in Key
         /\ phase = "combine" /\ phase' \in {"combine", "overflow"}
         /\ combining[n].todo # <<>>
         /\ UNCHANGED <<place, imports, config, modules, processed, program>>
         /\ \/ phase' = "overflow" /\ n = MaxDepth /\ UNCHANGED combining
            \/ /\ phase' = "combine"
               /\ combining' \in Seq(Frame)
               /\ \A i \in 1..n : combining'[i].key = combining[i].key
               /\ \A i \in 1..n : i # n => combining'[i] = combining[i]
               /\ combining'[n].todo = Tail(combining[n].todo)
               /\ \/ Len(combining') = n /\ (modules[k] = Absent \/ k \in processed)
                  \/ /\ Len(combining') = n + 1 /\ modules[k] # Absent /\ k \notin processed
                     /\ n # MaxDepth
                     /\ combining'[n + 1].key = k /\ combining'[n + 1].todo = ImportsOf(k)
<1> DEFINE r == [combining[n] EXCEPT !.todo = Tail(combining[n].todo)]
           advanced == [combining EXCEPT ![n] = r]
<1>1. /\ combining # <<>> /\ combining \in Seq(Frame) /\ n \in Nat /\ n > 0 /\ n \in 1..n
      /\ Top(combining) = combining[n] /\ combining[n].todo # <<>>
      /\ phase = "combine"
  BY DEF CombineImport, CombineTypeOK, Top
<1>2. /\ combining[n] \in Frame
      /\ combining[n].todo \in Seq(File) /\ Tail(combining[n].todo) \in Seq(File)
      /\ Head(combining[n].todo) \in File
  <2>1. combining[n] \in Frame /\ combining[n].todo \in Seq(File)
    BY <1>1, FrameFacts
  <2> QED BY <1>1, <2>1, HeadTailProperties
<1>3. k \in Key
  BY <1>2, NamesAreKeys
<1>4. /\ r \in Frame /\ r.key = combining[n].key /\ r.todo = Tail(combining[n].todo)
  BY <1>2 DEF Frame
<1>5. Advance(combining) = advanced
  BY <1>1 DEF Advance
<1>6. /\ advanced \in Seq(Frame) /\ Len(advanced) = n
      /\ \A i \in 1..n : advanced[i] = IF i = n THEN r ELSE combining[i]
  <2> HIDE DEF r
  <2> QED BY <1>1, <1>4, ExceptSeq
<1>7. /\ \A i \in 1..n : advanced[i].key = combining[i].key
      /\ \A i \in 1..n : i # n => advanced[i] = combining[i]
      /\ advanced[n].todo = Tail(combining[n].todo)
  <2> HIDE DEF r, advanced
  <2> QED BY <1>1, <1>4, <1>6
<1> HIDE DEF r, advanced
<1>8. UNCHANGED <<place, imports, config, modules, processed, program>>
  BY DEF CombineImport, input
<1>9. CASE modules[k] = Absent \/ k \in processed
  <2>1. combining' = advanced /\ phase' = "combine"
    BY <1>1, <1>5, <1>9 DEF CombineImport
  <2> QED BY <1>1, <1>3, <1>6, <1>7, <1>8, <1>9, <2>1
<1>10. CASE modules[k] # Absent /\ k \notin processed /\ n = MaxDepth
  BY <1>1, <1>3, <1>8, <1>10 DEF CombineImport
<1>11. CASE modules[k] # Absent /\ k \notin processed /\ n # MaxDepth
  <2> DEFINE new == Process(k)
  <2>1. combining' = Append(advanced, new) /\ phase' = "combine"
    BY <1>1, <1>5, <1>11 DEF CombineImport
  <2>2. new \in Frame /\ new.key = k /\ new.todo = ImportsOf(k)
    BY <1>3, ImportsAreFiles DEF Process, Frame
  <2> HIDE DEF new
  <2>3. /\ combining' \in Seq(Frame) /\ Len(combining') = n + 1
        /\ \A i \in 1..n : combining'[i] = advanced[i]
        /\ combining'[n + 1] = new
    BY <1>1, <1>6, <2>1, <2>2
  <2>4. /\ \A i \in 1..n : combining'[i].key = combining[i].key
        /\ \A i \in 1..n : i # n => combining'[i] = combining[i]
        /\ combining'[n].todo = Tail(combining[n].todo)
    BY <1>1, <1>7, <2>3
  <2> QED BY <1>1, <1>3, <1>8, <1>11, <2>1, <2>2, <2>3, <2>4
<1> QED BY <1>9, <1>10, <1>11

\* A module whose imports are over.
LEMMA CombineModuleStep ==
  ASSUME CombineTypeOK, TypeOK, CombineModule, NEW n, n = Len(combining),
         NEW k, k = combining[n].key
  PROVE  /\ n \in Nat /\ n > 0 /\ n \in 1..n /\ k \in Key
         /\ phase = "combine" /\ phase' = "combine"
         /\ combining[n].todo = <<>>
         /\ combining' \in Seq(Frame) /\ Len(combining') = n - 1
         /\ \A i \in 1..(n - 1) : combining'[i] = combining[i]
         /\ processed' = processed \cup {k}
         /\ program' = program \o StatementsOf(k)
         /\ UNCHANGED <<place, imports, config, modules>>
<1>1. /\ combining # <<>> /\ combining \in Seq(Frame) /\ n \in Nat /\ n > 0 /\ n \in 1..n
      /\ Top(combining) = combining[n] /\ combining[n].todo = <<>>
      /\ phase = "combine"
  BY DEF CombineModule, CombineTypeOK, Top
<1>2. k \in Key
  BY <1>1, FrameFacts
<1>3. combining' = SubSeq(combining, 1, n - 1)
  BY DEF CombineModule, Pop
<1>4. /\ combining' \in Seq(Frame) /\ Len(combining') = n - 1
      /\ \A i \in 1..(n - 1) : combining'[i] = combining[i]
  BY <1>1, <1>3
<1> QED BY <1>1, <1>2, <1>4 DEF CombineModule, input

\* A step that puts nothing into the program.
LEMMA SameProgram ==
  ASSUME ProgramInv, UNCHANGED <<place, imports, modules, processed, program>>
  PROVE  ProgramInv'
<1>1. /\ Edges' = Edges
      /\ \A k : ImportsOf(k)' = ImportsOf(k) /\ StatementsOf(k)' = StatementsOf(k)
      /\ \A g : ModuleName(g)' = ModuleName(g) /\ Over(g)' = Over(g)
  BY DEF Edges, ImportsOf, StatementsOf, Wanted, ModuleName, Over
<1>2. ImportsFirst'
  BY <1>1 DEF ProgramInv, ImportsFirst
<1>3. \A k \in processed' : \A g \in Range(ImportsOf(k)') : Over(g)'
  BY <1>1 DEF ProgramInv
<1>4. \A i \in 1..Len(program') :
        /\ (ModuleName(program[i].file) \in processed)'
        /\ (modules[ModuleName(program[i].file)] = program[i].file)'
  BY <1>1 DEF ProgramInv
<1>5. \A k \in processed' : Range(StatementsOf(k)') \subseteq Range(program')
  BY <1>1 DEF ProgramInv
<1> QED BY <1>2, <1>3, <1>4, <1>5 DEF ProgramInv

\* Going on to an import of a module.
LEMMA CombineImportInv ==
  ASSUME CombineInv, TypeOK, CombineImport
  PROVE  CombineInv'
<1>0. PICK n, todo, k : /\ n = Len(combining) /\ todo = combining[n].todo
                        /\ k = ModuleName(Head(todo))
  OBVIOUS
<1>1. CombineTypeOK /\ StackOfModules /\ ProgramInv
  BY DEF CombineInv
<1>2. /\ n \in Nat /\ n > 0 /\ n \in 1..n /\ k \in Key
      /\ phase' \in {"combine", "overflow"}
      /\ todo # <<>>
      /\ UNCHANGED <<place, imports, config, modules, processed, program>>
      /\ \/ UNCHANGED combining
         \/ /\ combining' \in Seq(Frame)
            /\ \A i \in 1..n : combining'[i].key = combining[i].key
            /\ \A i \in 1..n : i # n => combining'[i] = combining[i]
            /\ combining'[n].todo = Tail(todo)
            /\ \/ Len(combining') = n /\ (modules[k] = Absent \/ k \in processed)
               \/ /\ Len(combining') = n + 1 /\ modules[k] # Absent /\ k \notin processed
                  /\ combining'[n + 1].key = k /\ combining'[n + 1].todo = ImportsOf(k)
  BY <1>0, <1>1, CombineImportStep
<1>3. /\ \A q : ImportsOf(q)' = ImportsOf(q) /\ \A g : Over(g)' = Over(g)
      /\ \A g : ModuleName(g)' = ModuleName(g)
  BY <1>2 DEF ImportsOf, Over, ModuleName
<1>4. ProgramInv'
  BY <1>1, <1>2, SameProgram
<1>5. CASE UNCHANGED combining
  BY <1>1, <1>2, <1>3, <1>4, <1>5 DEF CombineInv, CombineTypeOK, StackOfModules
<1>6. CASE ~UNCHANGED combining
  <2>1. CombineTypeOK'
    BY <1>1, <1>2, <1>6 DEF CombineTypeOK
  <2>2. /\ todo \in Seq(File) /\ Head(todo) \in Range(todo)
        /\ Range(Tail(todo)) \subseteq Range(todo)
        /\ Range(todo) \subseteq {Head(todo)} \cup Range(Tail(todo))
    <3>1. todo \in Seq(File)
      BY <1>0, <1>1, <1>2, FrameFacts
    <3> QED BY <1>2, <3>1, RangeFacts
  <2>3. /\ combining[n].key \notin processed
        /\ Range(todo) \subseteq Range(ImportsOf(combining[n].key))
        /\ \A g \in Range(ImportsOf(combining[n].key)) : g \in Range(todo) \/ Over(g)
    BY <1>0, <1>1, <1>2 DEF StackOfModules
  <2>4. ASSUME NEW i \in 1..(n - 1)
        PROVE  /\ combining'[i] = combining[i] /\ combining'[i + 1].key = combining[i + 1].key
               /\ combining[i].key \notin processed
               /\ Range(combining[i].todo) \subseteq Range(ImportsOf(combining[i].key))
               /\ \A g \in Range(ImportsOf(combining[i].key)) :
                    \/ g \in Range(combining[i].todo)
                    \/ Over(g)
                    \/ ModuleName(g) = combining[i + 1].key
               /\ modules[combining[i + 1].key] # Absent
               /\ \E g \in Range(ImportsOf(combining[i].key)) :
                    combining[i + 1].key = ModuleName(g)
    <3>1. i \in 1..n /\ i + 1 \in 1..n /\ i < n /\ i # n
      BY <1>2
    <3>2. combining'[i] = combining[i] /\ combining'[i + 1].key = combining[i + 1].key
      BY <1>2, <1>6, <3>1
    <3> QED BY <1>0, <1>1, <3>1, <3>2 DEF StackOfModules
  <2>5. combining'[n].key = combining[n].key /\ combining'[n].todo = Tail(todo)
    BY <1>2, <1>6
  <2>6. CASE Len(combining') = n /\ (modules[k] = Absent \/ k \in processed)
    <3>1. Over(Head(todo))
      BY <1>0, <2>6 DEF Over
    <3>2. ASSUME NEW i \in 1..n
          PROVE  /\ combining'[i].key \notin processed
                 /\ Range(combining'[i].todo) \subseteq Range(ImportsOf(combining'[i].key))
                 /\ \A g \in Range(ImportsOf(combining'[i].key)) :
                      \/ g \in Range(combining'[i].todo)
                      \/ Over(g)
                      \/ i < n /\ ModuleName(g) = combining'[i + 1].key
                 /\ i < n => /\ modules[combining'[i + 1].key] # Absent
                             /\ \E g \in Range(ImportsOf(combining'[i].key)) :
                                  combining'[i + 1].key = ModuleName(g)
      <4>1. CASE i = n
        <5>1. \A g \in Range(ImportsOf(combining[n].key)) : g \in Range(Tail(todo)) \/ Over(g)
          BY <2>2, <2>3, <3>1
        <5>2. Range(Tail(todo)) \subseteq Range(ImportsOf(combining[n].key))
          BY <2>2, <2>3
        <5>3. ~(i < n)
          BY <1>2, <4>1
        <5> QED BY <2>3, <2>5, <4>1, <5>1, <5>2, <5>3
      <4>2. CASE i # n
        <5>1. i \in 1..(n - 1) /\ i < n
          BY <1>2, <4>2
        <5> QED BY <2>4, <5>1
      <4> QED BY <4>1, <4>2
    <3>3. StackOfModules'
      BY <1>2, <1>3, <2>6, <3>2 DEF StackOfModules
    <3> QED BY <1>2, <1>4, <2>1, <3>3 DEF CombineInv
  <2>7. CASE Len(combining') = n + 1 /\ modules[k] # Absent /\ k \notin processed
    <3>1. combining'[n + 1].key = k /\ combining'[n + 1].todo = ImportsOf(k)
      BY <1>2, <1>6, <2>7
    <3>2. ASSUME NEW i \in 1..(n + 1)
          PROVE  /\ combining'[i].key \notin processed
                 /\ Range(combining'[i].todo) \subseteq Range(ImportsOf(combining'[i].key))
                 /\ \A g \in Range(ImportsOf(combining'[i].key)) :
                      \/ g \in Range(combining'[i].todo)
                      \/ Over(g)
                      \/ i < n + 1 /\ ModuleName(g) = combining'[i + 1].key
                 /\ i < n + 1 => /\ modules[combining'[i + 1].key] # Absent
                                 /\ \E g \in Range(ImportsOf(combining'[i].key)) :
                                      combining'[i + 1].key = ModuleName(g)
      <4>1. CASE i = n + 1
        BY <1>2, <2>7, <3>1, <4>1
      <4>2. CASE i = n
        <5>1. k = ModuleName(Head(todo)) /\ Head(todo) \in Range(ImportsOf(combining[n].key))
          BY <1>0, <2>2, <2>3
        <5>2. \A g \in Range(ImportsOf(combining[n].key)) :
                 g \in Range(Tail(todo)) \/ Over(g) \/ ModuleName(g) = k
          BY <2>2, <2>3, <5>1
        <5>3. Range(Tail(todo)) \subseteq Range(ImportsOf(combining[n].key))
          BY <2>2, <2>3
        <5>4. i < n + 1
          BY <1>2, <4>2
        <5> QED BY <2>3, <2>5, <2>7, <3>1, <4>2, <5>1, <5>2, <5>3, <5>4
      <4>3. CASE i # n /\ i # n + 1
        <5>1. i \in 1..(n - 1) /\ i < n /\ i < n + 1
          BY <1>2, <4>3
        <5> QED BY <2>4, <5>1
      <4> QED BY <4>1, <4>2, <4>3
    <3>3. StackOfModules'
      BY <1>2, <1>3, <2>7, <3>2 DEF StackOfModules
    <3> QED BY <1>2, <1>4, <2>1, <3>3 DEF CombineInv
  <2> QED BY <1>2, <1>6, <2>6, <2>7
<1> QED BY <1>5, <1>6

\* Putting a module into the program: no call below is for the same module,
\* for it would have gone on to an import that was not over; and no module in
\* the program imports it, for then it would have been processed before.
LEMMA CombineModuleInv ==
  ASSUME CombineInv, LoadInv, CombineModule
  PROVE  CombineInv'
<1>0. PICK n, k : n = Len(combining) /\ k = combining[n].key
  OBVIOUS
<1>1. CombineTypeOK /\ StackOfModules /\ ProgramInv /\ TypeOK /\ FilesInv
  BY DEF CombineInv, LoadInv, IInv
<1>2. /\ n \in Nat /\ n > 0 /\ n \in 1..n /\ k \in Key
      /\ phase' = "combine" /\ combining[n].todo = <<>>
      /\ combining' \in Seq(Frame) /\ Len(combining') = n - 1
      /\ \A i \in 1..(n - 1) : combining'[i] = combining[i]
      /\ processed' = processed \cup {k}
      /\ program' = program \o StatementsOf(k)
      /\ UNCHANGED <<place, imports, config, modules>>
  BY <1>0, <1>1, CombineModuleStep
<1>3. /\ \A q : ImportsOf(q)' = ImportsOf(q) /\ StatementsOf(q)' = StatementsOf(q)
      /\ \A g : ModuleName(g)' = ModuleName(g)
  BY <1>2 DEF ImportsOf, StatementsOf, Wanted, ModuleName
<1>4. \A g : Over(g) => Over(g)'
  BY <1>2, <1>3 DEF Over
<1>5. k \notin processed /\ \A g \in Range(ImportsOf(k)) : Over(g)
  <2>1. ~(n < n)
    BY <1>2
  <2> QED BY <1>0, <1>1, <1>2, <2>1, RangeOfEmpty DEF StackOfModules
<1>6. ASSUME NEW i \in 1..(n - 1)
      PROVE  /\ i \in 1..n /\ i < n /\ combining[i].key # k
             /\ combining[i].key \notin processed
             /\ Range(combining[i].todo) \subseteq Range(ImportsOf(combining[i].key))
             /\ \A g \in Range(ImportsOf(combining[i].key)) :
                  \/ g \in Range(combining[i].todo)
                  \/ Over(g)
                  \/ ModuleName(g) = combining[i + 1].key
             /\ modules[combining[i + 1].key] # Absent
             /\ \E g \in Range(ImportsOf(combining[i].key)) :
                  combining[i + 1].key = ModuleName(g)
             /\ i + 1 \in 1..n /\ combining[i + 1].key \notin processed
  <2>1. i \in 1..n /\ i + 1 \in 1..n /\ i < n
    BY <1>2
  <2>2. PICK g \in Range(ImportsOf(combining[i].key)) : combining[i + 1].key = ModuleName(g)
    BY <1>0, <1>1, <2>1 DEF StackOfModules
  <2>3. modules[combining[i + 1].key] # Absent /\ combining[i + 1].key \notin processed
    BY <1>0, <1>1, <2>1 DEF StackOfModules
  <2>4. ~Over(g)
    BY <2>2, <2>3 DEF Over
  <2>5. combining[i].key # k
    BY <1>5, <2>2, <2>4
  <2> QED BY <1>0, <1>1, <2>1, <2>3, <2>5 DEF StackOfModules
<1>7. StackOfModules'
  <2>1. ASSUME NEW i \in 1..(n - 1)
        PROVE  /\ combining'[i].key \notin processed'
               /\ Range(combining'[i].todo) \subseteq Range(ImportsOf(combining'[i].key))
               /\ \A g \in Range(ImportsOf(combining'[i].key)) :
                    \/ g \in Range(combining'[i].todo)
                    \/ Over(g)'
                    \/ i < n - 1 /\ ModuleName(g) = combining'[i + 1].key
               /\ i < n - 1 => /\ modules[combining'[i + 1].key] # Absent
                               /\ \E g \in Range(ImportsOf(combining'[i].key)) :
                                    combining'[i + 1].key = ModuleName(g)
    <3>1. combining'[i] = combining[i] /\ combining'[i].key \notin processed'
      BY <1>2, <1>6
    <3>2. CASE i < n - 1
      <4>1. i + 1 \in 1..(n - 1)
        BY <1>2, <3>2
      <4>2. combining'[i + 1] = combining[i + 1]
        BY <1>2, <4>1
      <4> QED BY <1>4, <1>6, <3>1, <3>2, <4>2
    <3>3. CASE ~(i < n - 1)
      <4>1. i + 1 = n
        BY <1>2, <3>3
      <4>2. \A g : ModuleName(g) = k => Over(g)'
        BY <1>2, <1>3 DEF Over
      <4> QED BY <1>0, <1>4, <1>6, <3>1, <3>3, <4>1, <4>2
    <3> QED BY <3>2, <3>3
  <2> QED BY <1>2, <1>3, <2>1 DEF StackOfModules
<1>8. /\ program \in Seq(Part) /\ StatementsOf(k) \in Seq(Part)
      /\ Len(StatementsOf(k)) \in {0, 1}
      /\ \A i \in 1..Len(StatementsOf(k)) :
           modules[k] \in File /\ StatementsOf(k)[i].file = modules[k]
  BY <1>1, <1>2, StatementsFacts DEF CombineTypeOK
<1>9. PICK m : m = Len(program) /\ m \in Nat
  BY <1>8
<1>10. /\ program' \in Seq(Part)
       /\ Len(program') \in {m, m + 1}
       /\ \A i \in 1..m : program'[i] = program[i]
       /\ Len(program') = m + 1 => modules[k] \in File /\ program'[m + 1].file = modules[k]
  BY <1>2, <1>8, <1>9, ConcatProperties
<1>11. CombineTypeOK'
  BY <1>1, <1>2, <1>10 DEF CombineTypeOK
<1>12. ASSUME NEW i \in 1..m
       PROVE  /\ program[i].file \in File
              /\ modules[ModuleName(program[i].file)] = program[i].file
              /\ ModuleName(program[i].file) \in processed
              /\ program[i].file # modules[k]
              /\ modules[k] \in File => modules[k] \notin Edges[program[i].file]
  <2>1. program[i] \in Part
    BY <1>8, <1>9
  <2>2. program[i].file \in File
    BY <2>1 DEF Part
  <2>3. /\ ModuleName(program[i].file) \in processed
        /\ modules[ModuleName(program[i].file)] = program[i].file
    BY <1>1, <1>9 DEF ProgramInv
  <2>4. modules[k] \in File => ModuleName(modules[k]) = k
    BY <1>1, <1>2 DEF FilesInv
  <2>5. program[i].file # modules[k]
    BY <1>5, <2>2, <2>3, <2>4
  <2>6. ASSUME modules[k] \in File, modules[k] \in Edges[program[i].file]
        PROVE  FALSE
    <3>1. modules[k] \in Range(ImportsOf(ModuleName(program[i].file)))
      BY <1>1, <2>2, <2>3, <2>6, GraphFacts DEF ImportsOf
    <3>2. Over(modules[k])
      BY <1>1, <2>3, <3>1 DEF ProgramInv
    <3> QED BY <1>5, <2>4, <2>6, <3>2, Inputs DEF Over
  <2> QED BY <2>2, <2>3, <2>5, <2>6
<1>13. modules[k] \in File => modules[k] \notin Edges[modules[k]]
  <2> SUFFICES ASSUME modules[k] \in File, modules[k] \in Edges[modules[k]]
               PROVE  FALSE
    OBVIOUS
  <2>1. ModuleName(modules[k]) = k
    BY <1>1, <1>2 DEF FilesInv
  <2>2. modules[k] \in Range(ImportsOf(k))
    BY <1>1, GraphFacts DEF ImportsOf
  <2>3. Over(modules[k])
    BY <1>5, <2>2
  <2> QED BY <1>5, <2>1, <2>3, Inputs DEF Over
<1>14. ProgramInv'
  <2>1. \A q \in processed' : \A g \in Range(ImportsOf(q)') : Over(g)'
    BY <1>1, <1>2, <1>3, <1>4, <1>5 DEF ProgramInv
  <2>2. ASSUME NEW i \in 1..Len(program')
        PROVE  /\ ModuleName(program'[i].file) \in processed'
               /\ modules[ModuleName(program'[i].file)] = program'[i].file
    <3>1. CASE i \in 1..m
      BY <1>2, <1>10, <1>12, <3>1
    <3>2. CASE i \notin 1..m
      <4>1. i = m + 1 /\ program'[i].file = modules[k] /\ modules[k] \in File
        BY <1>9, <1>10, <3>2
      <4>2. ModuleName(modules[k]) = k
        BY <1>1, <1>2, <4>1 DEF FilesInv
      <4> QED BY <1>2, <4>1, <4>2
    <3> QED BY <3>1, <3>2
  <2>3. ASSUME NEW i \in 1..Len(program'), NEW j \in 1..Len(program')
        PROVE  /\ program'[i].file = program'[j].file => i = j
               /\ i <= j => program'[j].file \notin Edges[program'[i].file]
    <3>1. CASE i \in 1..m /\ j \in 1..m
      BY <1>1, <1>9, <1>10, <3>1 DEF ProgramInv, ImportsFirst
    <3>2. CASE i \in 1..m /\ j \notin 1..m
      <4>1. j = m + 1 /\ program'[j].file = modules[k] /\ modules[k] \in File
        BY <1>9, <1>10, <3>2
      <4> QED BY <1>10, <1>12, <3>2, <4>1
    <3>3. CASE i \notin 1..m /\ j \in 1..m
      <4>1. i = m + 1 /\ program'[i].file = modules[k] /\ ~(i <= j)
        BY <1>9, <1>10, <3>3
      <4> QED BY <1>10, <1>12, <3>3, <4>1
    <3>4. CASE i \notin 1..m /\ j \notin 1..m
      <4>1. i = m + 1 /\ j = m + 1 /\ program'[i].file = modules[k] /\ modules[k] \in File
        BY <1>9, <1>10, <3>4
      <4> QED BY <1>13, <4>1
    <3> QED BY <3>1, <3>2, <3>3, <3>4
  <2>4. \A q \in processed' : Range(StatementsOf(q)') \subseteq Range(program')
    <3>1. Range(program') = Range(program) \cup Range(StatementsOf(k))
      BY <1>2, <1>8, RangeConcatenation
    <3> QED BY <1>1, <1>2, <1>3, <3>1 DEF ProgramInv
  <2>5. Edges' = Edges
    BY <1>2, SameFiles
  <2> QED BY <1>2, <1>3, <2>1, <2>2, <2>3, <2>4, <2>5 DEF ProgramInv, ImportsFirst
<1> QED BY <1>2, <1>7, <1>11, <1>14 DEF CombineInv

\* A first call of process_module, for a module that is not processed.
LEMMA FirstFrame ==
  ASSUME CombineTypeOK, ProgramInv, TypeOK,
         NEW k \in Key, k \notin processed,
         combining' = <<Process(k)>>, phase' = "combine",
         UNCHANGED <<place, imports, config, modules, processed, program>>
  PROVE  CombineInv'
<1> DEFINE new == Process(k)
<1>1. new \in Frame /\ new.key = k /\ new.todo = ImportsOf(k)
  BY ImportsAreFiles DEF Process, Frame
<1> HIDE DEF new
<1>2. /\ <<new>> \in Seq(Frame) /\ Len(<<new>>) = 1 /\ <<new>>[1] = new
      /\ combining' = <<new>>
  BY <1>1 DEF new
<1>3. ImportsOf(k)' = ImportsOf(k)
  BY DEF ImportsOf
<1>4. /\ combining' \in Seq(Frame) /\ Len(combining') = 1
      /\ combining'[1].key = k /\ combining'[1].todo = ImportsOf(k)
  BY <1>1, <1>2
<1>5. \A i \in 1..Len(combining') : i = 1 /\ ~(i < Len(combining'))
  BY <1>4
<1>6. StackOfModules'
  BY <1>3, <1>4, <1>5 DEF StackOfModules
<1>7. ProgramInv'
  BY SameProgram
<1>8. CombineTypeOK'
  BY <1>4 DEF CombineTypeOK
<1> QED BY <1>6, <1>7, <1>8 DEF CombineInv

\* Every step keeps what combining relies on.
LEMMA NextCombineInv ==
  ASSUME LoadInv, CombineInv, [Next]_vars
  PROVE  CombineInv'
<1>1. TypeOK /\ CombineTypeOK /\ ProgramInv /\ StackOfModules
  BY DEF LoadInv, IInv, CombineInv
<1>2. ASSUME phase \in {"enter", "load", "imports"}, phase' # "done",
             UNCHANGED <<combining, processed, program>>
      PROVE  CombineInv'
  <2>1. NotCombining'
    BY <1>2 DEF CombineInv, NotCombining
  <2> QED BY <1>2, <2>1, NothingCombinedNext
<1>3. CASE UNCHANGED vars
  <2>1. /\ UNCHANGED <<place, imports, config, modules, processed, program>>
        /\ UNCHANGED <<combining, phase>>
    BY <1>3 DEF vars, input, combineVars
  <2>2. ProgramInv'
    BY <1>1, <2>1, SameProgram
  <2>3. StackOfModules'
    BY <1>1, <2>1 DEF StackOfModules, ImportsOf, Over, ModuleName
  <2> QED BY <1>1, <2>1, <2>2, <2>3 DEF CombineInv, CombineTypeOK, NotCombining
<1>4. CASE CycleDetected \/ AlreadyLoaded \/ Load \/ CheckMissing \/ CheckImport \/ Checked
           \/ Store \/ ImportMissing \/ ResolveImport
  BY <1>2, <1>4 DEF CycleDetected, AlreadyLoaded, Load, CheckMissing, CheckImport, Checked,
                    Store, ImportMissing, ResolveImport, combineVars
<1>5. CASE Resolved
  <2>1. PICK n : n = Len(resolving)
    OBVIOUS
  <2>2. /\ n \in Nat /\ n > 0 /\ phase = "imports"
        /\ n > 1 => phase' = "imports" /\ UNCHANGED combining
        /\ n = 1 => \/ config /\ phase' = "combine"
                       /\ combining' = <<[key |-> MainKey, todo |-> ImportsOf(MainKey)]>>
                    \/ ~config /\ phase' = "done" /\ UNCHANGED combining
        /\ UNCHANGED <<place, imports, config, modules, processed, program>>
    BY <1>5, <2>1, ResolvedStep DEF LoadInv
  <2>3. NotCombining
    BY <2>2 DEF CombineInv
  <2>4. CASE n > 1
    BY <1>2, <2>2, <2>4
  <2>5. CASE n = 1 /\ config /\ phase' = "combine"
    <3>1. combining' = <<Process(MainKey)>>
      BY <2>2, <2>5 DEF Process
    <3>2. MainKey \in Key /\ MainKey \notin processed
      BY <1>1, <2>3, NamesAreKeys DEF NotCombining
    <3> QED BY <1>1, <2>2, <2>5, <3>1, <3>2, FirstFrame
  <2>6. CASE n = 1 /\ ~config /\ phase' = "done"
    <3>1. NotCombining' /\ ~config'
      BY <2>2, <2>3, <2>6 DEF NotCombining
    <3> QED BY <3>1, NothingCombinedNext
  <2> QED BY <2>2, <2>4, <2>5, <2>6
<1>6. CASE CombineImport
  BY <1>1, <1>6, CombineImportInv
<1>7. CASE CombineModule
  BY <1>7, CombineModuleInv
<1>8. CASE CombineOther
  <2>1. /\ phase' = "combine"
        /\ UNCHANGED <<place, imports, config, modules, processed, program>>
    BY <1>8 DEF CombineOther, input
  <2>2. PICK k \in Key : k \notin processed /\ combining' = <<Process(k)>>
    BY <1>8 DEF CombineOther
  <2> QED BY <1>1, <2>1, <2>2, FirstFrame
<1>9. CASE Combined
  <2>1. /\ phase' = "done" /\ combining = <<>> /\ combining' = <<>>
        /\ \A k \in Key : modules[k] # Absent => k \in processed
        /\ UNCHANGED <<place, imports, config, modules, processed, program>>
    BY <1>9 DEF Combined, input, combineVars
  <2>2. ProgramInv'
    BY <1>1, <2>1, SameProgram
  <2>3. StackOfModules'
    <3>1. Len(combining') = 0
      BY <2>1
    <3> QED BY <3>1 DEF StackOfModules
  <2> QED BY <1>1, <2>1, <2>2, <2>3 DEF CombineInv, CombineTypeOK
<1> QED BY <1>3, <1>4, <1>5, <1>6, <1>7, <1>8, <1>9 DEF Next

\* Nothing is combined at first.
LEMMA InitCombineInv == Init => CombineInv
BY NothingCombined DEF Init, NotCombining

\* In the combined program a file comes after the files it imports: the code
\* that imports a declaration is below it, however the files are named, and
\* even when they import each other.
THEOREM ModulesImportsFirst == Spec => []ImportsFirst
<1>1. Init => LoadInv /\ CombineInv
  BY InitLoadInv, InitCombineInv
<1>2. LoadInv /\ CombineInv /\ [Next]_vars => (LoadInv /\ CombineInv)'
  BY NextLoadInv, NextCombineInv
<1>3. CombineInv => ImportsFirst
  BY DEF CombineInv, ProgramInv
<1> QED BY <1>1, <1>2, <1>3, PTL DEF Spec


------------------------------------------------------------------------------
(* Where names tell the files apart, and the main one is called main *)

WellNamed == MainIsMain /\ DistinctNames

\* The files that are stored.
StoredFiles == {f \in Loadable : modules[ModuleName(f)] = f}

\* The call has come to its imports.
Settled(i) == i < Len(resolving) \/ phase = "imports"

\* The first call is the one for the main file; operator[] makes no empty
\* module under the name of a file; what was looked up, and the file of a call
\* that has come to its imports, is stored.
CallsInv ==
  /\ \A f, g \in File : place[f] = place[g] => f = g
  /\ resolving # <<>> => resolving[1].key = MainKey /\ resolving[1].file = Main
  /\ MainIsMain => \A f \in File : modules[ModuleName(f)] # Empty
  /\ WellNamed =>
       /\ \A k \in Key :
            modules[k] # Absent => \E f \in StoredFiles : place[f].stem = k.stem
       /\ \A i \in 1..Len(resolving) : Settled(i) => resolving[i].file \in StoredFiles

\* The key of a call has the stem of its file.
LEMMA CallStem ==
  ASSUME LoadInv, CallsInv, MainIsMain, NEW i \in 1..Len(resolving)
  PROVE  /\ resolving[i].key \in Key /\ resolving[i].file \in File
         /\ resolving[i].file \in Loadable
         /\ resolving[i].key.stem = place[resolving[i].file].stem
<1>1. TypeOK /\ FilesInv
  BY DEF LoadInv, IInv
<1>2. CASE i > 1
  BY <1>1, <1>2, CallFacts DEF FilesInv
<1>3. CASE ~(i > 1)
  <2>1. i = 1 /\ resolving # <<>>
    BY <1>1, <1>3 DEF TypeOK
  <2>2. MainKey.stem = place[Main].stem
    BY DEF MainIsMain, MainKey, Named
  <2> QED BY <1>1, <2>1, <2>2, CallFacts DEF FilesInv, CallsInv
<1> QED BY <1>2, <1>3

\* A file that is loaded and has the stem of the key of a call is the call's.
LEMMA CallIsStored ==
  ASSUME LoadInv, CallsInv, WellNamed, NEW i \in 1..Len(resolving),
         modules[resolving[i].key] # Absent
  PROVE  resolving[i].file \in StoredFiles
<1>1. PICK k, g : k = resolving[i].key /\ g = resolving[i].file
  OBVIOUS
<1>2. k \in Key /\ g \in Loadable /\ k.stem = place[g].stem
  BY <1>1, CallStem DEF WellNamed
<1>3. PICK f \in StoredFiles : place[f].stem = k.stem
  BY <1>1, <1>2 DEF CallsInv
<1>4. f = g
  BY <1>2, <1>3 DEF StoredFiles, Loadable, WellNamed, DistinctNames
<1> QED BY <1>1, <1>3, <1>4

\* A step that stores nothing, and after which no call has come to its imports
\* whose file is not stored.
LEMMA SameStored ==
  ASSUME CallsInv,
         UNCHANGED <<place, imports, modules>>,
         resolving' # <<>> => /\ resolving # <<>>
                              /\ resolving'[1].key = resolving[1].key
                              /\ resolving'[1].file = resolving[1].file,
         ASSUME WellNamed, NEW i \in 1..Len(resolving'), Settled(i)'
         PROVE  resolving'[i].file \in StoredFiles
  PROVE  CallsInv' /\ StoredFiles' = StoredFiles
<1>1. StoredFiles' = StoredFiles
  BY SameFiles DEF StoredFiles
<1>2. \A f : ModuleName(f)' = ModuleName(f)
  BY SameFiles
<1>3. (MainIsMain' <=> MainIsMain) /\ (WellNamed' <=> WellNamed)
  BY SameFiles DEF WellNamed
<1>4. resolving' # <<>> => resolving'[1].key = MainKey' /\ resolving'[1].file = Main
  BY DEF CallsInv, MainKey, Named
<1>5. \A i \in 1..Len(resolving') : WellNamed /\ Settled(i)' => resolving'[i].file \in StoredFiles
  OBVIOUS
<1>6. CallsInv'
  BY <1>1, <1>2, <1>3, <1>4, <1>5 DEF CallsInv
<1> QED BY <1>1, <1>6

\* A call comes to the imports of a module that is loaded.
LEMMA AlreadyLoadedCallsInv ==
  ASSUME LoadInv, CallsInv, AlreadyLoaded
  PROVE  CallsInv'
<1>0. PICK n : n = Len(resolving)
  OBVIOUS
<1>1. /\ n \in Nat /\ n > 0 /\ n \in 1..n
      /\ modules[resolving[n].key] # Absent
      /\ SameCalls(n) /\ UNCHANGED <<place, imports, modules>>
  BY <1>0, AlreadyLoadedStep DEF LoadInv
<1>2. ASSUME WellNamed, NEW i \in 1..Len(resolving'), Settled(i)'
      PROVE  resolving'[i].file \in StoredFiles
  <2>1. i \in 1..n /\ resolving'[i].file = resolving[i].file
    BY <1>1 DEF SameCalls
  <2>2. CASE i = n
    BY <1>0, <1>1, <1>2, <2>1, <2>2, CallIsStored
  <2>3. CASE i # n
    <3>1. i < n
      BY <2>1, <2>3, <1>1
    <3> QED BY <1>0, <1>2, <2>1, <3>1 DEF CallsInv, Settled
  <2> QED BY <2>2, <2>3
<1>3. resolving # <<>> /\ 1 \in 1..n
  BY <1>0, <1>1 DEF LoadInv, IInv, TypeOK
<1> QED BY <1>1, <1>2, <1>3, SameStored DEF SameCalls

\* Storing a file that can be told from the others keeps what is stored.
LEMMA StoreCallsInv ==
  ASSUME LoadInv, CallsInv, Store
  PROVE  CallsInv' /\ (DistinctNames => StoredFiles \subseteq StoredFiles')
<1>0. PICK n, k, f : n = Len(resolving) /\ k = resolving[n].key /\ f = resolving[n].file
  OBVIOUS
<1>1. TypeOK /\ FilesInv
  BY DEF LoadInv, IInv
<1>2. /\ n \in Nat /\ n > 0 /\ n \in 1..n /\ phase = "load"
      /\ modules' = Stored(k, f)
      /\ SameCalls(n) /\ UNCHANGED <<place, imports>>
  BY <1>0, StoreStep DEF LoadInv
<1>3. k \in Key /\ f \in File /\ f \in Loadable
  BY <1>0, <1>1, <1>2, CallFacts DEF FilesInv
<1>4. /\ ModuleName(f) \in Key /\ modules'[ModuleName(f)] = f
      /\ \A q \in Key : \/ q = ModuleName(f) \/ modules'[q] = modules[q]
                        \/ q = k /\ modules[q] = Absent /\ modules'[q] = Empty
  BY <1>1, <1>2, <1>3, StoredFacts
<1>5. /\ \A g : ModuleName(g)' = ModuleName(g)
      /\ Loadable' = Loadable
      /\ (MainIsMain' <=> MainIsMain) /\ (WellNamed' <=> WellNamed)
  BY <1>2, SameFiles DEF WellNamed
<1>6. \A g \in File : ModuleName(g) \in Key /\ ModuleName(g) = Named(place[g].stem)
  BY <1>1, NamesAreKeys DEF ModuleName
<1>7. Loadable \subseteq File /\ Loadable \subseteq Reached /\ Loadable \cap Missing = {}
  BY <1>1, ReachedFacts DEF Loadable
<1>8. f \in StoredFiles'
  BY <1>3, <1>4, <1>5 DEF StoredFiles
<1>9. ASSUME DistinctNames, NEW g \in StoredFiles
      PROVE  g \in StoredFiles'
  <2>1. g \in Loadable /\ g \in File /\ modules[ModuleName(g)] = g /\ ModuleName(g) \in Key
    BY <1>6, <1>7 DEF StoredFiles
  <2>2. CASE ModuleName(g) = ModuleName(f)
    <3>1. place[g].stem = place[f].stem
      BY <1>1, <1>3, <2>1, <2>2, StemFacts
    <3>2. g = f
      BY <1>3, <1>9, <2>1, <3>1 DEF DistinctNames, Loadable
    <3> QED BY <1>8, <3>2
  <2>3. CASE ModuleName(g) # ModuleName(f)
    <3>1. modules'[ModuleName(g)] = g
      BY <1>4, <2>1, <2>3, Inputs
    <3> QED BY <1>5, <2>1, <3>1 DEF StoredFiles
  <2> QED BY <2>2, <2>3
<1>10. ASSUME MainIsMain, NEW g \in File
       PROVE  modules'[ModuleName(g)] # Empty
  <2>1. modules[ModuleName(g)] # Empty /\ ModuleName(g) \in Key
    BY <1>6, <1>10 DEF CallsInv
  <2>2. ASSUME ModuleName(g) = k PROVE k = ModuleName(f)
    <3>1. k.stem = place[f].stem
      BY <1>0, <1>2, <1>10, CallStem
    <3>2. k.stem = place[g].stem
      BY <1>1, <2>2, StemFacts
    <3> QED BY <1>3, <1>6, <2>2, <3>1, <3>2
  <2> QED BY <1>3, <1>4, <2>1, <2>2, Inputs
<1>11. ASSUME WellNamed, NEW q \in Key, modules'[q] # Absent
       PROVE  \E g \in StoredFiles' : place[g].stem = q.stem
  <2>1. CASE q = ModuleName(f)
    BY <1>1, <1>3, <1>8, <2>1, StemFacts
  <2>2. CASE q = k
    <3>1. k.stem = place[f].stem
      BY <1>0, <1>2, <1>11, CallStem DEF WellNamed
    <3> QED BY <1>8, <2>2, <3>1
  <2>3. CASE q # ModuleName(f) /\ q # k
    <3>1. modules[q] # Absent
      BY <1>4, <1>11, <2>3
    <3>2. PICK g \in StoredFiles : place[g].stem = q.stem
      BY <1>11, <3>1 DEF CallsInv
    <3> QED BY <1>9, <1>11, <3>2 DEF WellNamed
  <2> QED BY <2>1, <2>2, <2>3
<1>12. ASSUME WellNamed, NEW i \in 1..Len(resolving'), Settled(i)'
       PROVE  resolving'[i].file \in StoredFiles'
  <2>1. i \in 1..n /\ resolving'[i].file = resolving[i].file
    BY <1>2 DEF SameCalls
  <2>2. CASE i = n
    BY <1>0, <1>8, <2>1, <2>2
  <2>3. CASE i # n
    <3>1. i < n
      BY <1>2, <2>1, <2>3
    <3>2. resolving[i].file \in StoredFiles
      BY <1>0, <1>12, <2>1, <3>1 DEF CallsInv, Settled
    <3> QED BY <1>9, <1>12, <2>1, <3>2 DEF WellNamed
  <2> QED BY <2>2, <2>3
<1>13. resolving' # <<>> => resolving'[1].key = MainKey /\ resolving'[1].file = Main
  <2>1. resolving # <<>> /\ 1 \in 1..n
    BY <1>0, <1>2 DEF LoadInv, IInv, TypeOK
  <2> QED BY <1>2, <2>1 DEF CallsInv, SameCalls
<1>14. CallsInv'
  BY <1>2, <1>5, <1>10, <1>11, <1>12, <1>13 DEF CallsInv, MainKey, Named
<1> QED BY <1>9, <1>14

\* Every step keeps it, and what is stored.
LEMMA NextCallsInv ==
  ASSUME LoadInv, CallsInv, [Next]_vars
  PROVE  CallsInv' /\ (DistinctNames => StoredFiles \subseteq StoredFiles')
<1>0. PICK n : n = Len(resolving)
  OBVIOUS
<1>1. TypeOK /\ IInv
  BY DEF LoadInv, IInv
<1>2. CASE AlreadyLoaded
  <2>1. CallsInv' /\ UNCHANGED <<place, imports, modules>>
    BY <1>1, <1>2, AlreadyLoadedStep, AlreadyLoadedCallsInv
  <2> QED BY <2>1, SameFiles DEF StoredFiles
<1>3. CASE Load
  <2>1. /\ phase' = "load" /\ UNCHANGED <<place, imports, modules, resolving>>
    BY <1>1, <1>3, LoadStep
  <2>2. ASSUME WellNamed, NEW i \in 1..Len(resolving'), Settled(i)'
        PROVE  resolving'[i].file \in StoredFiles
    BY <2>1, <2>2 DEF CallsInv, Settled
  <2> QED BY <2>1, <2>2, SameStored
<1>4. CASE Store
  BY <1>4, StoreCallsInv
<1>5. CASE ResolveImport
  <2>1. /\ n \in Nat /\ n > 0 /\ phase = "imports" /\ phase' = "enter"
        /\ Len(resolving') = n + 1
        /\ \A i \in 1..n : /\ resolving'[i].key = resolving[i].key
                           /\ resolving'[i].file = resolving[i].file
        /\ UNCHANGED <<place, imports, modules>>
    BY <1>0, <1>1, <1>5, ResolveImportStep
  <2>2. ASSUME WellNamed, NEW i \in 1..Len(resolving'), Settled(i)'
        PROVE  resolving'[i].file \in StoredFiles
    <3>1. i \in 1..n
      BY <2>1, <2>2 DEF Settled
    <3> QED BY <1>0, <2>1, <2>2, <3>1 DEF CallsInv, Settled
  <2>3. resolving # <<>> /\ 1 \in 1..n
    BY <1>0, <1>1, <2>1 DEF TypeOK
  <2> QED BY <2>1, <2>2, <2>3, SameStored
<1>6. CASE Resolved
  <2>1. /\ n \in Nat /\ n > 0 /\ phase = "imports"
        /\ resolving' \in Seq(Call) /\ Len(resolving') = n - 1
        /\ \A i \in 1..(n - 1) : resolving'[i] = resolving[i]
        /\ UNCHANGED <<place, imports, modules>>
    BY <1>0, <1>1, <1>6, ResolvedStep
  <2>2. ASSUME WellNamed, NEW i \in 1..Len(resolving'), Settled(i)'
        PROVE  resolving'[i].file \in StoredFiles
    <3>1. i \in 1..n /\ resolving'[i] = resolving[i]
      BY <2>1
    <3> QED BY <1>0, <2>1, <2>2, <3>1 DEF CallsInv, Settled
  <2>3. resolving # <<>> /\ (resolving' # <<>> => 1 \in 1..(n - 1))
    BY <1>0, <1>1, <2>1 DEF TypeOK
  <2> QED BY <2>1, <2>2, <2>3, SameStored
<1>7. CASE OtherStep
  <2>1. /\ UNCHANGED <<place, imports, modules, resolving>>
        /\ phase' = phase \/ phase' # "imports"
    BY <1>7, OtherStepFacts
  <2>2. ASSUME WellNamed, NEW i \in 1..Len(resolving'), Settled(i)'
        PROVE  resolving'[i].file \in StoredFiles
    BY <2>1, <2>2 DEF CallsInv, Settled
  <2> QED BY <2>1, <2>2, SameStored
<1> QED BY <1>2, <1>3, <1>4, <1>5, <1>6, <1>7, NextSteps

\* At first nothing is loaded.
LEMMA InitCallsInv == Init => CallsInv
<1> SUFFICES ASSUME Init PROVE CallsInv
  OBVIOUS
<1>1. /\ resolving[1].key = MainKey /\ resolving[1].file = Main /\ Len(resolving) = 1
      /\ phase = "enter"
      /\ \A k \in Key : modules[k] = Absent
      /\ \A f, g \in File : place[f] = place[g] => f = g
  BY Inputs DEF Init
<1>2. \A f \in File : ModuleName(f) \in Key
  BY InitIInv, NamesAreKeys DEF IInv
<1>3. \A i \in 1..Len(resolving) : ~Settled(i)
  BY <1>1 DEF Settled
<1> QED BY <1>1, <1>2, <1>3, Inputs DEF CallsInv

------------------------------------------------------------------------------
(* What has become of the imports of a call *)

\* An import of a file whose call goes through its imports is still to come, or
\* is in S, or is the file of the call above.
HandledTo(S) ==
  \A i \in 1..Len(resolving) :
    Settled(i) /\ resolving[i].key = ModuleName(resolving[i].file) =>
      \A g \in Edges[resolving[i].file] :
        \/ g \in Range(resolving[i].todo) \/ g \in S
        \/ i < Len(resolving) /\ g = resolving[i + 1].file

\* A call whose key is the name of its file iterates over that file's imports.
LEMMA CallImports ==
  ASSUME TypeOK, NEW f \in StoredFiles
  PROVE  f \in File /\ ImportsOf(ModuleName(f)) = imports[f] /\ Edges[f] = Range(imports[f])
<1>1. f \in File /\ modules[ModuleName(f)] = f
  BY ReachedFacts DEF StoredFiles, Loadable
<1> QED BY <1>1, GraphFacts DEF ImportsOf

\* A step keeps this for a set T, if T has what was in S, and the file of the
\* call that returns.
LEMMA HandledNext ==
  ASSUME LoadInv, CallsInv, WellNamed, [Next]_vars, NEW S, NEW T, S \subseteq T,
         HandledTo(S), Resolved => resolving[Len(resolving)].file \in T
  PROVE  HandledTo(T)'
<1>0. PICK n : n = Len(resolving)
  OBVIOUS
<1>1. TypeOK /\ IInv
  BY DEF LoadInv, IInv
<1>2. UNCHANGED <<place, imports>>
  BY <1>0, <1>1, NextSteps, AlreadyLoadedStep, LoadStep, StoreStep, ResolveImportStep,
     ResolvedStep, OtherStepFacts
<1>3. Edges' = Edges /\ \A f : ModuleName(f)' = ModuleName(f)
  BY <1>2, SameFiles
<1> DEFINE Done(i) ==
      \A g \in Edges[resolving'[i].file] :
        \/ g \in Range(resolving'[i].todo) \/ g \in T
        \/ i < Len(resolving') /\ g = resolving'[i + 1].file
<1> SUFFICES ASSUME NEW i \in 1..Len(resolving'), Settled(i)',
                    resolving'[i].key = ModuleName(resolving'[i].file)
             PROVE  Done(i)
  BY <1>3 DEF HandledTo
<1>4. ASSUME i \in 1..n, Settled(i), resolving'[i] = resolving[i],
             i < n => i < Len(resolving') /\ resolving'[i + 1].file = resolving[i + 1].file
      PROVE  Done(i)
  BY <1>0, <1>4 DEF HandledTo
<1>5. CASE AlreadyLoaded
  <2>1. /\ n \in Nat /\ n > 0 /\ n \in 1..n
        /\ modules[resolving[n].key] # Absent
        /\ SameCalls(n) /\ resolving'[n].todo = ImportsOf(resolving[n].key)
    BY <1>0, <1>1, <1>5, AlreadyLoadedStep
  <2>2. CASE i = n
    <3>1. resolving[n].file \in StoredFiles
      BY <1>0, <2>1, CallIsStored
    <3>2. resolving'[n].file = resolving[n].file /\ resolving'[n].key = resolving[n].key
      BY <2>1 DEF SameCalls
    <3>3. Edges[resolving[n].file] = Range(ImportsOf(ModuleName(resolving[n].file)))
      BY <1>1, <3>1, CallImports
    <3> QED BY <2>1, <2>2, <3>2, <3>3
  <2>3. CASE i # n
    <3>1. i \in 1..n /\ i < n /\ i + 1 \in 1..n
      BY <2>1, <2>3 DEF SameCalls
    <3> QED BY <1>0, <1>4, <2>1, <2>3, <3>1 DEF SameCalls, Settled
  <2> QED BY <2>2, <2>3
<1>6. CASE Load
  <2>1. phase' = "load" /\ UNCHANGED resolving
    BY <1>1, <1>6, LoadStep
  <2> QED BY <1>0, <1>4, <2>1 DEF Settled
<1>7. CASE Store
  <2>1. PICK k, f : k = resolving[n].key /\ f = resolving[n].file
    OBVIOUS
  <2>2. /\ n \in Nat /\ n > 0 /\ n \in 1..n
        /\ modules' = Stored(k, f)
        /\ SameCalls(n)
        /\ resolving'[n].todo = IF modules'[k] \in File THEN imports[modules'[k]] ELSE <<>>
    BY <1>0, <1>1, <1>7, <2>1, StoreStep
  <2>3. CASE i = n
    <3>1. k = ModuleName(f)
      BY <2>1, <2>2, <2>3 DEF SameCalls
    <3>2. k \in Key /\ f \in File
      BY <1>0, <1>1, <2>1, <2>2, CallFacts
    <3>3. modules'[k] = f
      BY <1>1, <2>2, <3>1, <3>2, StoredFacts
    <3>4. Edges[f] = Range(resolving'[n].todo)
      BY <1>1, <2>2, <3>2, <3>3, GraphFacts
    <3> QED BY <2>1, <2>2, <2>3, <3>4 DEF SameCalls
  <2>4. CASE i # n
    <3>1. i \in 1..n /\ i < n /\ i + 1 \in 1..n
      BY <2>2, <2>4 DEF SameCalls
    <3> QED BY <1>0, <1>4, <2>2, <2>4, <3>1 DEF SameCalls, Settled
  <2> QED BY <2>3, <2>4
<1>8. CASE ResolveImport
  <2>0. PICK h : h = Head(resolving[n].todo)
    OBVIOUS
  <2>1. /\ n \in Nat /\ n > 0 /\ n \in 1..n /\ phase = "imports" /\ phase' = "enter"
        /\ Len(resolving') = n + 1 /\ resolving[n].todo # <<>>
        /\ \A j \in 1..n : /\ resolving'[j].key = resolving[j].key
                           /\ resolving'[j].file = resolving[j].file
        /\ \A j \in 1..n : j # n => resolving'[j] = resolving[j]
        /\ resolving'[n].todo = Tail(resolving[n].todo)
        /\ resolving'[n + 1].file = h
    BY <1>0, <1>1, <1>8, <2>0, ResolveImportStep
  <2>2. i \in 1..n
    BY <2>1 DEF Settled
  <2>3. CASE i = n
    <3>1. \A g \in Edges[resolving[n].file] : g \in Range(resolving[n].todo) \/ g \in S
      BY <1>0, <2>1, <2>3 DEF HandledTo, Settled
    <3>2. resolving[n].todo \in Seq(File)
      BY <1>0, <1>1, <2>1, CallFacts
    <3>3. Range(resolving[n].todo) \subseteq {resolving'[n + 1].file} \cup Range(resolving'[n].todo)
      BY <2>0, <2>1, <3>2, RangeFacts
    <3>4. n < n + 1
      BY <2>1
    <3> QED BY <2>1, <2>3, <3>1, <3>3, <3>4
  <2>4. CASE i # n
    <3>1. i < n /\ i + 1 \in 1..n /\ i < n + 1
      BY <2>1, <2>2, <2>4
    <3> QED BY <1>0, <1>4, <2>1, <2>2, <2>4, <3>1 DEF Settled
  <2> QED BY <2>3, <2>4
<1>9. CASE Resolved
  <2>1. /\ n \in Nat /\ n > 0 /\ phase = "imports"
        /\ Len(resolving') = n - 1
        /\ \A j \in 1..(n - 1) : resolving'[j] = resolving[j]
    BY <1>0, <1>1, <1>9, ResolvedStep
  <2>2. i \in 1..n /\ i < n /\ resolving'[i] = resolving[i]
    BY <2>1
  <2>3. \A g \in Edges[resolving[i].file] :
          g \in Range(resolving[i].todo) \/ g \in S \/ g = resolving[i + 1].file
    BY <1>0, <2>2 DEF HandledTo, Settled
  <2>4. CASE i = n - 1
    <3>1. resolving[i + 1].file \in T
      BY <1>0, <1>9, <2>1, <2>4
    <3> QED BY <2>2, <2>3, <3>1
  <2>5. CASE i # n - 1
    <3>1. i < n - 1 /\ i + 1 \in 1..(n - 1)
      BY <2>1, <2>2, <2>5
    <3> QED BY <2>1, <2>2, <2>3, <3>1
  <2> QED BY <2>4, <2>5
<1>10. CASE OtherStep
  <2>1. UNCHANGED resolving /\ (phase' = phase \/ phase' # "imports")
    BY <1>10, OtherStepFacts
  <2> QED BY <1>0, <1>4, <2>1 DEF Settled
<1> QED BY <1>5, <1>6, <1>7, <1>8, <1>9, <1>10, NextSteps

\* The imports of a well named call are stored once they are gone through, and
\* so are those of the main file when all is loaded.
HandledInv ==
  WellNamed =>
    /\ HandledTo(StoredFiles)
    /\ phase \in {"combine", "done"} => {Main} \cup Edges[Main] \subseteq StoredFiles

\* The call that returns at last is the one for the main file.
LEMMA LastReturn ==
  ASSUME LoadInv, CallsInv, MainIsMain, Resolved, Len(resolving) = 1
  PROVE  /\ resolving[1].key = ModuleName(resolving[1].file) /\ resolving[1].file = Main
         /\ 1 \in 1..Len(resolving) /\ Settled(1)
<1>1. Len(resolving) \in 1..Len(resolving) /\ resolving # <<>> /\ phase = "imports"
  BY DEF Resolved, LoadInv, IInv, TypeOK, StackInv
<1>2. ModuleName(Main) = MainKey
  BY DEF MainIsMain, ModuleName, MainKey
<1> QED BY <1>1, <1>2 DEF CallsInv, Settled

\* What a call that returns has gone through is in S.
LEMMA ReturnedHandled ==
  ASSUME LoadInv, Resolved, NEW S, HandledTo(S), NEW n, n = Len(resolving),
         resolving[n].key = ModuleName(resolving[n].file)
  PROVE  Edges[resolving[n].file] \subseteq S
<1>1. n \in Nat /\ n > 0 /\ n \in 1..n /\ phase = "imports" /\ resolving[n].todo = <<>>
  BY ResolvedStep DEF LoadInv
<1>2. Settled(n) /\ ~(n < n)
  BY <1>1 DEF Settled
<1> QED BY <1>1, <1>2, RangeOfEmpty DEF HandledTo

\* When the phase becomes one after loading, the first call has returned.
LEMMA LoadedSteps ==
  ASSUME LoadInv, [Next]_vars, phase' \in {"combine", "done"}
  PROVE  \/ phase \in {"combine", "done"} /\ UNCHANGED <<place, imports, modules>>
         \/ Resolved /\ Len(resolving) = 1 /\ UNCHANGED <<place, imports, modules>>
<1>1. IInv
  BY DEF LoadInv
<1>2. CASE AlreadyLoaded \/ Load \/ Store \/ ResolveImport
  BY <1>1, <1>2, AlreadyLoadedStep, LoadStep, StoreStep, ResolveImportStep
<1>3. CASE Resolved
  <2>1. PICK n : n = Len(resolving)
    OBVIOUS
  <2> QED BY <1>1, <1>3, <2>1, ResolvedStep
<1>4. CASE OtherStep
  BY <1>4, OtherStepFacts
<1> QED BY <1>2, <1>3, <1>4, NextSteps

\* Every step keeps it.
LEMMA NextHandledInv ==
  ASSUME LoadInv, CallsInv, HandledInv, [Next]_vars
  PROVE  HandledInv'
<1>1. PICK S, T : S = StoredFiles /\ T = StoredFiles'
  OBVIOUS
<1>2. UNCHANGED <<place, imports>>
  BY NextSteps, AlreadyLoadedStep, LoadStep, StoreStep, ResolveImportStep,
     ResolvedStep, OtherStepFacts DEF LoadInv
<1>3. Edges' = Edges /\ (WellNamed' <=> WellNamed)
  BY <1>2, SameFiles DEF WellNamed
<1> SUFFICES ASSUME WellNamed
             PROVE  /\ HandledTo(T)'
                    /\ phase' \in {"combine", "done"} => {Main} \cup Edges[Main] \subseteq T
  BY <1>1, <1>3 DEF HandledInv, HandledTo
<1>4. S \subseteq T
  BY <1>1, NextCallsInv DEF WellNamed
<1>5. HandledTo(S)
  BY <1>1 DEF HandledInv, HandledTo
<1>6. ASSUME Resolved PROVE resolving[Len(resolving)].file \in S
  <2>1. Len(resolving) \in 1..Len(resolving) /\ phase = "imports"
    BY <1>6, TopFacts DEF Resolved, LoadInv, IInv, StackInv
  <2> QED BY <1>1, <2>1 DEF CallsInv, Settled
<1>7. HandledTo(T)'
  BY <1>4, <1>5, <1>6, HandledNext
<1>8. ASSUME phase' \in {"combine", "done"}
      PROVE  {Main} \cup Edges[Main] \subseteq T
  <2>1. CASE phase \in {"combine", "done"}
    BY <1>1, <1>4, <2>1 DEF HandledInv
  <2>2. CASE Resolved /\ Len(resolving) = 1
    <3>1. /\ resolving[1].key = ModuleName(resolving[1].file) /\ resolving[1].file = Main
      BY <2>2, LastReturn DEF WellNamed
    <3>2. Edges[Main] \subseteq S
      BY <1>5, <2>2, <3>1, ReturnedHandled
    <3> QED BY <1>4, <1>6, <2>2, <3>1, <3>2
  <2> QED BY <1>8, <2>1, <2>2, LoadedSteps
<1> QED BY <1>7, <1>8

\* Nothing is gone through at first.
LEMMA InitHandledInv == Init => HandledInv
<1> SUFFICES ASSUME Init PROVE HandledInv
  OBVIOUS
<1>1. Len(resolving) = 1 /\ phase = "enter"
  BY DEF Init
<1>2. \A i \in 1..Len(resolving) : ~Settled(i)
  BY <1>1 DEF Settled
<1> QED BY <1>1, <1>2 DEF HandledInv, HandledTo

\* What is stored and processed is in the program, if it is the main file or
\* the main file imports it.
LEMMA ProcessedIsTaken ==
  ASSUME LoadInv, CombineInv, WellNamed, Main \in StoredFiles, NEW f \in StoredFiles,
         f = Main \/ f \in Edges[Main], ModuleName(f) \in processed
  PROVE  /\ f \in {program[n].file : n \in 1..Len(program)}
         /\ f = Main => [file |-> Main, part |-> "all"] \in {program[n] : n \in 1..Len(program)}
<1>1. TypeOK /\ program \in Seq(Part)
  BY DEF LoadInv, IInv, CombineInv, CombineTypeOK
<1>2. /\ f \in Loadable /\ Main \in Loadable /\ f \in File /\ Main \in File
      /\ modules[ModuleName(f)] = f /\ modules[ModuleName(Main)] = Main
  BY <1>1, ReachedFacts DEF StoredFiles, Loadable
<1>3. ModuleName(Main) = MainKey
  BY DEF WellNamed, MainIsMain, ModuleName, MainKey
<1>4. Range(program) = {program[n] : n \in 1..Len(program)}
  BY <1>1, RangeFacts
<1>5. Range(StatementsOf(ModuleName(f))) \subseteq Range(program)
  BY DEF CombineInv, ProgramInv
<1>6. PICK p \in Part : /\ StatementsOf(ModuleName(f)) = <<p>> /\ p.file = f
                        /\ f = Main => p = [file |-> Main, part |-> "all"]
  <2>1. CASE f = Main
    BY <1>2, <1>3, <2>1 DEF StatementsOf, Part
  <2>2. CASE f # Main
    <3>1. ModuleName(f) # MainKey
      BY <1>2, <1>3, <2>2
    <3>2. f \in Range(ImportsOf(MainKey)) /\ ImportsOf(MainKey) \in Seq(File) /\ MainKey \in Key
      BY <1>1, <1>2, <1>3, <2>2, CallImports, ImportsAreFiles, NamesAreKeys
    <3>3. Wanted(f)
      BY <3>2, RangeFacts DEF Wanted
    <3> QED BY <1>2, <2>2, <3>1, <3>3 DEF StatementsOf, Part
  <2> QED BY <2>1, <2>2
<1>7. p \in Range(StatementsOf(ModuleName(f)))
  <2>0. <<p>> \in Seq(Part) /\ Len(<<p>>) = 1 /\ <<p>>[1] = p
    OBVIOUS
  <2>1. PICK s \in Seq(Part) : s = StatementsOf(ModuleName(f)) /\ Len(s) = 1 /\ s[1] = p
    <3>1. StatementsOf(ModuleName(f)) \in Seq(Part)
      BY <1>6, <2>0
    <3>2. /\ Len(StatementsOf(ModuleName(f))) = 1
          /\ StatementsOf(ModuleName(f))[1] = p
      BY <1>6, <2>0
    <3> QED BY <3>1, <3>2
  <2>2. Range(s) = {s[i] : i \in 1..Len(s)} /\ 1 \in 1..Len(s)
    BY <2>1, RangeFacts
  <2> QED BY <2>1, <2>2
<1> QED BY <1>4, <1>5, <1>6, <1>7

\* When loading is done, the combined program has the main file, called main,
\* as a whole and the declarations of the files that it imports, each once.
THEOREM ModulesMainAndItsImports == Spec => []MainAndItsImports
<1> DEFINE Inv == LoadInv /\ CombineInv /\ CallsInv /\ HandledInv
<1>1. Init => Inv
  BY InitLoadInv, InitCombineInv, InitCallsInv, InitHandledInv
<1>2. Inv /\ [Next]_vars => Inv'
  BY NextLoadInv, NextCombineInv, NextCallsInv, NextHandledInv
<1>3. Inv => MainAndItsImports
  <2> SUFFICES ASSUME Inv, phase = "done", config, MainIsMain, DistinctNames
               PROVE  /\ [file |-> Main, part |-> "all"] \in {program[n] : n \in 1..Len(program)}
                      /\ Edges[Main] \ {Main} \subseteq {program[n].file : n \in 1..Len(program)}
                      /\ \A i, j \in 1..Len(program) :
                           program[i].file = program[j].file => i = j
    BY DEF MainAndItsImports
  <2>1. WellNamed /\ TypeOK /\ {Main} \cup Edges[Main] \subseteq StoredFiles
    BY DEF WellNamed, HandledInv, LoadInv, IInv
  <2>2. ASSUME NEW f \in StoredFiles PROVE ModuleName(f) \in processed
    <3>1. f \in File /\ ModuleName(f) \in Key /\ modules[ModuleName(f)] = f
      BY <2>1, ReachedFacts, NamesAreKeys DEF StoredFiles, Loadable
    <3> QED BY <3>1, Inputs DEF CombineInv
  <2>3. \A i, j \in 1..Len(program) : program[i].file = program[j].file => i = j
    BY DEF CombineInv, ProgramInv
  <2>4. Main \in StoredFiles /\ \A f \in Edges[Main] : f \in StoredFiles
    BY <2>1
  <2> QED BY <2>1, <2>2, <2>3, <2>4, ProcessedIsTaken
<1> QED BY <1>1, <1>2, <1>3, PTL DEF Spec

------------------------------------------------------------------------------
(* Cycles *)

\* A file on no cycle, and below which there is none.
SoundFiles == {f \in File : \A x \in {f} \cup Below(f) : x \notin Below(x)}

\* If all that a file imports is sound, so is the file: what is below it is
\* what it imports and what is below that.
LEMMA SoundUp ==
  ASSUME TypeOK, NEW f \in File, Edges[f] \subseteq SoundFiles
  PROVE  f \in SoundFiles
<1> DEFINE C == UNION {{g} \cup Below(g) : g \in Edges[f]}
<1>1. Edges \in [File -> SUBSET File] /\ Edges[f] \subseteq File
  BY GraphFacts
<1>2. C \in SUBSET File
  BY <1>1, BelowFacts
<1>3. Edges[f] \subseteq C
  OBVIOUS
<1>4. \A x \in C : Edges[x] \subseteq C
  <2> SUFFICES ASSUME NEW g \in Edges[f], NEW x \in {g} \cup Below(g)
               PROVE  Edges[x] \subseteq Below(g)
    OBVIOUS
  <2> QED BY <1>1, BelowFacts
<1>5. Below(f) \subseteq C
  BY <1>1, <1>2, <1>3, <1>4, DependentsLeast DEF Below
<1>6. \A x \in C : x \notin Below(x)
  BY DEF SoundFiles
<1> HIDE DEF C
<1> QED BY <1>5, <1>6 DEF SoundFiles

\* A sound main file means a program without cycles.
LEMMA SoundMain ==
  ASSUME Main \in SoundFiles
  PROVE  ~Cyclic
BY DEF SoundFiles, Cyclic, Reached, Below

\* Where imports are written as modules are named, names tell files apart.
LEMMA PlainIsDistinct ==
  ASSUME TypeOK, CallsInv, PlainPaths
  PROVE  DistinctNames
<1> SUFFICES ASSUME NEW f \in Reached \ Missing, NEW g \in Reached \ Missing,
                    place[f].stem = place[g].stem
             PROVE  f = g
  BY DEF DistinctNames
<1>1. f \in File /\ g \in File
  BY ReachedFacts
<1>2. /\ PathTo(f, g) = ModuleName(g) /\ PathTo(f, f) = ModuleName(f)
      /\ PathTo(g, g) = ModuleName(g)
  BY <1>1 DEF PlainPaths
<1>3. place[f] \in Place /\ place[g] \in Place
  BY <1>1 DEF TypeOK
<1>4. place[f].dir = place[g].dir /\ place[f].ext = FALSE /\ place[g].ext = FALSE
  BY <1>2 DEF PathTo, ModuleName, Named
<1>5. place[f] = place[g]
  BY <1>3, <1>4 DEF Place
<1> QED BY <1>1, <1>5 DEF CallsInv

\* Where imports are written as modules are named: the key of a call is the
\* name of its file; what a call has gone through is sound; so is the main file
\* when all is loaded; and a cycle that is reported is one.
PlainInv ==
  PlainPaths /\ MainIsMain =>
    /\ \A i \in 1..Len(resolving) : resolving[i].key = ModuleName(resolving[i].file)
    /\ HandledTo(SoundFiles)
    /\ phase \in {"combine", "done"} => Main \in SoundFiles
    /\ phase = "cycle" => Cyclic

\* The key of a call that is entered is the name of its file.
LEMMA NextPlainKeys ==
  ASSUME LoadInv, CallsInv, PlainInv, PlainPaths, MainIsMain, [Next]_vars
  PROVE  \A i \in 1..Len(resolving') : resolving'[i].key = ModuleName(resolving'[i].file)
<1>0. PICK n : n = Len(resolving)
  OBVIOUS
<1>1. IInv /\ TypeOK /\ \A i \in 1..n : resolving[i].key = ModuleName(resolving[i].file)
  BY <1>0 DEF LoadInv, IInv, PlainInv
<1>2. CASE AlreadyLoaded
  <2>1. SameCalls(n)
    BY <1>0, <1>1, <1>2, AlreadyLoadedStep
  <2> QED BY <1>1, <2>1 DEF SameCalls
<1>3. CASE Load
  <2>1. UNCHANGED resolving
    BY <1>0, <1>1, <1>3, LoadStep
  <2> QED BY <1>0, <1>1, <2>1
<1>4. CASE Store
  <2>1. SameCalls(n)
    BY <1>0, <1>1, <1>4, StoreStep
  <2> QED BY <1>1, <2>1 DEF SameCalls
<1>5. CASE ResolveImport
  <2>1. PICK f, g : f = modules[resolving[n].key] /\ g = Head(resolving[n].todo)
    OBVIOUS
  <2>2. /\ n \in Nat /\ f \in File /\ g \in File /\ Len(resolving') = n + 1
        /\ \A i \in 1..n : /\ resolving'[i].key = resolving[i].key
                           /\ resolving'[i].file = resolving[i].file
        /\ resolving'[n + 1].key = PathTo(f, g) /\ resolving'[n + 1].file = g
    BY <1>0, <1>1, <1>5, <2>1, ResolveImportStep
  <2>3. PathTo(f, g) = ModuleName(g)
    BY <2>2 DEF PlainPaths
  <2>4. \A i \in 1..(n + 1) : i \in 1..n \/ i = n + 1
    BY <2>2
  <2> QED BY <1>1, <2>2, <2>3, <2>4
<1>6. CASE Resolved
  <2>1. /\ n \in Nat /\ Len(resolving') = n - 1
        /\ \A i \in 1..(n - 1) : i \in 1..n /\ resolving'[i] = resolving[i]
    BY <1>0, <1>1, <1>6, ResolvedStep
  <2> QED BY <1>1, <2>1
<1>7. CASE OtherStep
  <2>1. UNCHANGED resolving
    BY <1>7, OtherStepFacts
  <2> QED BY <1>0, <1>1, <2>1
<1> QED BY <1>2, <1>3, <1>4, <1>5, <1>6, <1>7, NextSteps

\* A key that is found visited is that of a call below for the same file, so
\* the file is below itself.
LEMMA VisitedIsCycle ==
  ASSUME LoadInv, CallsInv, PlainInv, PlainPaths, MainIsMain, CycleDetected
  PROVE  Cyclic
<1>0. PICK n : n = Len(resolving)
  OBVIOUS
<1>1. TypeOK /\ FilesInv /\ PathInv /\ DistinctNames /\ phase = "enter"
  BY PlainIsDistinct DEF LoadInv, IInv, CycleDetected
<1>2. n \in Nat /\ n > 0 /\ n \in 1..n /\ Top(resolving) = resolving[n] /\ OnStack(n - 1)
  BY <1>0, <1>1, TopFacts DEF LoadInv, IInv, StackInv
<1>3. PICK i \in 1..(n - 1) : resolving[i].key = resolving[n].key
  BY <1>2 DEF CycleDetected, OnStack
<1>4. PICK f, g : f = resolving[i].file /\ g = resolving[n].file
  OBVIOUS
<1>5. i \in 1..n /\ i < n
  BY <1>2
<1>6. /\ f \in Loadable /\ g \in Loadable
      /\ resolving[i].key \in Key /\ resolving[i].key.stem = place[f].stem
      /\ resolving[n].key.stem = place[g].stem
  BY <1>0, <1>2, <1>4, <1>5, CallStem
<1>7. modules[resolving[i].key] \in File /\ g \in Below(modules[resolving[i].key])
  BY <1>0, <1>1, <1>2, <1>4, <1>5 DEF PathInv
<1>8. modules[resolving[i].key] = g
  BY <1>1, <1>3, <1>6, <1>7, StoredIsNamed DEF LoadInv
<1> QED BY <1>6, <1>7, <1>8 DEF Cyclic, Below, Loadable

\* Every step keeps it.
LEMMA NextPlainInv ==
  ASSUME LoadInv, CallsInv, PlainInv, [Next]_vars
  PROVE  PlainInv'
<1>1. PICK S : S = SoundFiles
  OBVIOUS
<1>2. UNCHANGED <<place, imports>>
  BY NextSteps, AlreadyLoadedStep, LoadStep, StoreStep, ResolveImportStep,
     ResolvedStep, OtherStepFacts DEF LoadInv
<1>3. /\ (PlainPaths' <=> PlainPaths) /\ (MainIsMain' <=> MainIsMain)
      /\ SoundFiles' = S /\ (Cyclic' <=> Cyclic) /\ \A f : ModuleName(f)' = ModuleName(f)
  BY <1>1, <1>2, SameFiles DEF SoundFiles
<1> SUFFICES ASSUME PlainPaths, MainIsMain
             PROVE  /\ \A i \in 1..Len(resolving') :
                         resolving'[i].key = ModuleName(resolving'[i].file)
                    /\ HandledTo(S)'
                    /\ phase' \in {"combine", "done"} => Main \in S
                    /\ phase' = "cycle" => Cyclic
  BY <1>3 DEF PlainInv, HandledTo
<1>4. TypeOK /\ WellNamed
  BY PlainIsDistinct DEF LoadInv, IInv, WellNamed
<1>5. /\ HandledTo(S)
      /\ \A i \in 1..Len(resolving) : resolving[i].key = ModuleName(resolving[i].file)
  BY <1>1 DEF PlainInv, HandledTo
<1>6. ASSUME Resolved PROVE resolving[Len(resolving)].file \in S
  <2>1. PICK n : n = Len(resolving)
    OBVIOUS
  <2>2. n \in 1..n
    BY <1>6, <2>1, TopFacts DEF Resolved, LoadInv, IInv, StackInv
  <2>3. Edges[resolving[n].file] \subseteq S
    BY <1>5, <1>6, <2>1, <2>2, ReturnedHandled
  <2> QED BY <1>1, <1>4, <2>1, <2>2, <2>3, SoundUp, CallFacts
<1>7. HandledTo(S)'
  BY <1>4, <1>5, <1>6, HandledNext
<1>8. ASSUME phase' \in {"combine", "done"} PROVE Main \in S
  <2>1. CASE phase \in {"combine", "done"}
    BY <1>1, <2>1 DEF PlainInv
  <2>2. CASE Resolved /\ Len(resolving) = 1
    BY <1>6, <2>2, LastReturn
  <2> QED BY <1>8, <2>1, <2>2, LoadedSteps
<1>9. ASSUME phase' = "cycle" PROVE Cyclic
  <2>1. CASE CycleDetected
    BY <2>1, VisitedIsCycle
  <2>2. CASE ~CycleDetected
    <3>1. phase = "cycle"
      BY <1>9, <2>2 DEF Next, vars, AlreadyLoaded, Load, CheckMissing, CheckImport, Checked,
         Store, ImportMissing, ResolveImport, Resolved, CombineImport, CombineModule,
         CombineOther, Combined
    <3> QED BY <3>1 DEF PlainInv
  <2> QED BY <2>1, <2>2
<1> QED BY <1>7, <1>8, <1>9, NextPlainKeys

\* It holds at first.
LEMMA InitPlainInv == Init => PlainInv
<1> SUFFICES ASSUME Init, MainIsMain PROVE PlainInv
  BY DEF PlainInv
<1>1. /\ Len(resolving) = 1 /\ phase = "enter"
      /\ resolving[1].key = MainKey /\ resolving[1].file = Main
  BY DEF Init
<1>2. \A i \in 1..Len(resolving) : ~Settled(i) /\ i = 1
  BY <1>1 DEF Settled
<1>3. ModuleName(Main) = MainKey
  BY DEF MainIsMain, ModuleName, MainKey
<1> QED BY <1>1, <1>2, <1>3 DEF PlainInv, HandledTo

\* Where imports are named as modules are stored, a cycle is reported only if
\* there is one, and loading is done only if there is none.
THEOREM ModulesCycleReported == Spec => []CycleReportedIffCyclic
<1> DEFINE Inv == LoadInv /\ CallsInv /\ PlainInv
<1>1. Init => Inv
  BY InitLoadInv, InitCallsInv, InitPlainInv
<1>2. Inv /\ [Next]_vars => Inv'
  BY NextLoadInv, NextCallsInv, NextPlainInv
<1>3. Inv => CycleReportedIffCyclic
  BY SoundMain DEF PlainInv, CycleReportedIffCyclic
<1> QED BY <1>1, <1>2, <1>3, PTL DEF Spec

------------------------------------------------------------------------------
(* The depth of the recursions *)

Checkee == [file : File, todo : Seq(File)]

\* The files being checked: each imports the one above, and what it has left.
CheckInv ==
  /\ checking \in Seq(Checkee)
  /\ \A i \in 1..Len(checking) :
       /\ checking[i].file \in Reached
       /\ Range(checking[i].todo) \subseteq Edges[checking[i].file]
       /\ \A j \in 1..Len(checking) :
            i < j => checking[j].file \in Below(checking[i].file)

\* The modules being combined, where the files can be told apart: each file is
\* below those of the calls under it.
Apart == DistinctNames /\ NoNamesake

ModulePath ==
  Apart =>
    \A i, j \in 1..Len(combining) :
      i < j => /\ modules[combining[i].key] \in File
               /\ modules[combining[j].key] \in File =>
                    modules[combining[j].key] \in Below(modules[combining[i].key])

\* More files than there are do not follow each other without a cycle.
LEMMA LongPathIsCyclic ==
  ASSUME TypeOK, NEW n \in Nat, n > Cardinality(File), NEW path \in [1..n -> Reached],
         \A i, j \in 1..n : i < j => path[j] \in Below(path[i])
  PROVE  Cyclic
<1>1. IsFiniteSet(File) /\ Cardinality(File) \in Nat
  BY DeepEnough, FS_CardinalityType
<1>2. Reached \in SUBSET File
  BY ReachedFacts
<1>3. IsFiniteSet(Reached) /\ Cardinality(Reached) <= Cardinality(File)
      /\ Cardinality(Reached) \in Nat
  BY <1>1, <1>2, FS_Subset, FS_CardinalityType
<1>4. IsFiniteSet(1..n) /\ Cardinality(1..n) = n
  BY FS_Interval
<1>5. PICK i, j \in 1..n : i # j /\ path[i] = path[j]
  <2>1. Cardinality(Reached) < Cardinality(1..n)
    BY <1>1, <1>3, <1>4
  <2> QED BY <1>3, <1>4, <2>1, FS_PigeonHole
<1>6. path[i] \in Below(path[i])
  <2>1. i < j \/ j < i
    BY <1>5
  <2> QED BY <1>5, <2>1
<1> QED BY <1>6 DEF Cyclic, Below

\* Checking keeps to the files below, and does not go deeper than there are
\* files if there is no cycle.
LEMMA NextCheckInv ==
  ASSUME LoadInv, CheckInv, [Next]_vars
  PROVE  CheckInv' /\ (CheckImport /\ phase' = "overflow" => Cyclic)
<1>0. PICK n : n = Len(checking)
  OBVIOUS
<1>1. TypeOK /\ IInv /\ Edges \in [File -> SUBSET File]
  BY GraphFacts DEF LoadInv, IInv
<1>2. UNCHANGED <<place, imports>>
  BY NextSteps, AlreadyLoadedStep, LoadStep, StoreStep, ResolveImportStep,
     ResolvedStep, OtherStepFacts DEF LoadInv
<1>3. Edges' = Edges /\ Reached' = Reached /\ \A f : Below(f)' = Below(f)
  BY <1>2, SameFiles
<1>4. /\ n \in Nat /\ checking \in Seq(Checkee)
      /\ \A i \in 1..n :
           /\ checking[i] \in Checkee
           /\ checking[i].file \in File /\ checking[i].todo \in Seq(File)
           /\ checking[i].file \in Reached
           /\ Range(checking[i].todo) \subseteq Edges[checking[i].file]
           /\ \A j \in 1..n : i < j => checking[j].file \in Below(checking[i].file)
  <2>1. n \in Nat /\ checking \in Seq(Checkee) /\ \A i \in 1..n : checking[i] \in Checkee
    BY <1>0 DEF CheckInv
  <2>2. \A i \in 1..n : checking[i].file \in File /\ checking[i].todo \in Seq(File)
    BY <2>1 DEF Checkee
  <2> QED BY <1>0, <2>1, <2>2 DEF CheckInv
<1>5. ASSUME UNCHANGED checking PROVE CheckInv'
  BY <1>3, <1>5 DEF CheckInv
<1>6. ASSUME checking' \in Seq(Checkee),
             \A i \in 1..Len(checking') :
               /\ checking'[i].file \in Reached
               /\ Range(checking'[i].todo) \subseteq Edges[checking'[i].file]
               /\ \A j \in 1..Len(checking') :
                    i < j => checking'[j].file \in Below(checking'[i].file)
      PROVE  CheckInv'
  BY <1>3, <1>6 DEF CheckInv
<1>7. CASE Load
  <2>1. PICK f, m : f = resolving[m].file /\ m = Len(resolving)
    OBVIOUS
  <2>2. /\ m \in Nat /\ m > 0 /\ m \in 1..m
        /\ checking' = IF config THEN <<[file |-> f, todo |-> imports[f]]>> ELSE <<>>
    BY <1>1, <1>7, <2>1, LoadStep
  <2>3. f \in File /\ f \in Reached /\ imports[f] \in Seq(File) /\ Edges[f] = Range(imports[f])
    BY <1>1, <2>1, <2>2, CallFacts, GraphFacts DEF LoadInv, FilesInv, Loadable, TypeOK
  <2> DEFINE new == [file |-> f, todo |-> imports[f]]
  <2>4. new \in Checkee /\ new.file = f /\ new.todo = imports[f]
    BY <2>3 DEF Checkee
  <2>5. CASE config
    <3>1. checking' = <<new>>
      BY <2>2, <2>5
    <3> HIDE DEF new
    <3>2. checking' \in Seq(Checkee) /\ Len(checking') = 1 /\ checking'[1] = new
      BY <2>4, <3>1
    <3>3. \A i \in 1..Len(checking') :
            /\ checking'[i].file = f /\ Range(checking'[i].todo) = Edges[f]
            /\ \A j \in 1..Len(checking') : ~(i < j)
      BY <2>3, <2>4, <3>2
    <3>4. CheckInv'
      BY <1>6, <2>3, <3>2, <3>3
    <3> QED BY <1>7, <3>4 DEF Load, CheckImport
  <2>6. CASE ~config
    <3>1. checking' = <<>> /\ checking' \in Seq(Checkee) /\ Len(checking') = 0
      BY <2>2, <2>6
    <3>2. \A i \in 1..Len(checking') : FALSE
      BY <3>1
    <3>3. CheckInv'
      BY <1>6, <3>1, <3>2
    <3> QED BY <1>7, <3>3 DEF Load, CheckImport
  <2> QED BY <2>5, <2>6
<1>8. CASE Checked
  <2>1. /\ n > 0 /\ checking' = SubSeq(checking, 1, n - 1)
    BY <1>0, <1>4, <1>8 DEF Checked, Pop
  <2>2. /\ checking' \in Seq(Checkee) /\ Len(checking') = n - 1
        /\ \A i \in 1..(n - 1) : i \in 1..n /\ checking'[i] = checking[i]
    BY <1>4, <2>1
  <2>3. \A i \in 1..(n - 1) :
          /\ checking'[i].file \in Reached
          /\ Range(checking'[i].todo) \subseteq Edges[checking'[i].file]
          /\ \A j \in 1..(n - 1) : i < j => checking'[j].file \in Below(checking'[i].file)
    BY <1>4, <2>2
  <2>4. CheckInv'
    BY <1>6, <2>2, <2>3
  <2> QED BY <1>8, <2>4 DEF Checked, CheckImport
<1>9. CASE CheckMissing \/ CheckImport
  <2> DEFINE todo == checking[n].todo
             g == Head(todo)
             r == [checking[n] EXCEPT !.todo = Tail(todo)]
             advanced == [checking EXCEPT ![n] = r]
  <2>1. n > 0 /\ n \in 1..n /\ Top(checking) = checking[n] /\ todo # <<>>
    BY <1>0, <1>4, <1>9 DEF CheckMissing, CheckImport, Top
  <2>2. /\ todo \in Seq(File) /\ g \in Range(todo) /\ Tail(todo) \in Seq(File)
        /\ Range(Tail(todo)) \subseteq Range(todo)
    BY <1>4, <2>1, RangeFacts
  <2>3. g \in Edges[checking[n].file] /\ Range(Tail(todo)) \subseteq Edges[checking[n].file]
    BY <1>4, <2>1, <2>2
  <2>4. r \in Checkee /\ r.file = checking[n].file /\ r.todo = Tail(todo)
    <3>1. checking[n] \in Checkee
      BY <1>4, <2>1
    <3> QED BY <2>2, <3>1 DEF Checkee
  <2>5. Advance(checking) = advanced
    BY <1>0 DEF Advance
  <2>6. /\ advanced \in Seq(Checkee) /\ Len(advanced) = n
        /\ \A i \in 1..n : advanced[i] = IF i = n THEN r ELSE checking[i]
    <3> HIDE DEF r
    <3> QED BY <1>0, <1>4, <2>1, <2>4, ExceptSeq
  <2>7. ASSUME NEW i \in 1..n
        PROVE  /\ advanced[i].file = checking[i].file
               /\ Range(advanced[i].todo) \subseteq Edges[checking[i].file]
    <3> HIDE DEF r, advanced
    <3> QED BY <1>4, <2>3, <2>4, <2>6
  <2>8. CASE CheckMissing
    <3>1. checking' = advanced
      BY <2>5, <2>8 DEF CheckMissing
    <3> HIDE DEF advanced
    <3>2. CheckInv'
      BY <1>3, <1>4, <2>6, <2>7, <3>1 DEF CheckInv
    <3> QED BY <2>8, <3>2 DEF CheckMissing, CheckImport
  <2>9. CASE CheckImport /\ n # MaxDepth
    <3> DEFINE new == [file |-> g, todo |-> imports[g]]
    <3>1. checking' = Append(advanced, new) /\ phase' = phase
      BY <1>0, <2>1, <2>5, <2>9 DEF CheckImport
    <3>2. g \in File /\ g \in Reached /\ g \in Below(checking[n].file)
      BY <1>1, <1>4, <2>1, <2>3, ReachedFacts, BelowFacts
    <3>3. imports[g] \in Seq(File) /\ Range(imports[g]) = Edges[g]
      BY <1>1, <3>2, GraphFacts DEF TypeOK
    <3>4. new \in Checkee /\ new.file = g /\ new.todo = imports[g]
      BY <3>2, <3>3 DEF Checkee
    <3> HIDE DEF advanced, new
    <3>5. /\ checking' \in Seq(Checkee) /\ Len(checking') = n + 1
          /\ \A i \in 1..n : checking'[i] = advanced[i]
          /\ checking'[n + 1] = new
      BY <1>4, <2>6, <3>1, <3>4
    <3>6. \A i \in 1..n : g \in Below(checking[i].file)
      BY <1>1, <1>4, <2>1, <2>3, <3>2, BelowFacts
    <3>7. ASSUME NEW i \in 1..(n + 1)
          PROVE  /\ checking'[i].file \in Reached
                 /\ Range(checking'[i].todo) \subseteq Edges[checking'[i].file]
                 /\ \A j \in 1..(n + 1) :
                      i < j => checking'[j].file \in Below(checking'[i].file)
      <4>1. CASE i = n + 1
        BY <1>4, <3>2, <3>3, <3>4, <3>5, <4>1
      <4>2. CASE i \in 1..n
        <5>1. \A j \in 1..(n + 1) : j \in 1..n \/ j = n + 1
          BY <1>4
        <5> QED BY <1>4, <2>7, <3>4, <3>5, <3>6, <4>2, <5>1
      <4> QED BY <1>4, <4>1, <4>2
    <3>8. CheckInv'
      BY <1>3, <3>5, <3>7 DEF CheckInv
    <3>9. phase' # "overflow"
      BY <2>9, <3>1 DEF CheckImport
    <3> QED BY <3>8, <3>9
  <2>10. CASE CheckImport /\ n = MaxDepth
    <3>1. UNCHANGED checking
      BY <1>0, <2>1, <2>10 DEF CheckImport
    <3>2. CheckInv'
      BY <1>5, <3>1
    <3>3. Cyclic
      <4> DEFINE path == [i \in 1..n |-> checking[i].file]
      <4>1. n > Cardinality(File)
        <5>1. Cardinality(File) \in Nat
          BY DeepEnough, FS_CardinalityType
        <5> QED BY <2>10, <5>1, DeepEnough
      <4>2. path \in [1..n -> Reached]
        BY <1>4
      <4>3. \A i, j \in 1..n : i < j => path[j] \in Below(path[i])
        BY <1>4
      <4> HIDE DEF path
      <4> QED BY <1>1, <1>4, <4>1, <4>2, <4>3, LongPathIsCyclic
    <3> QED BY <3>2, <3>3
  <2> QED BY <1>9, <2>8, <2>9, <2>10
<1>10. CASE ~(Load \/ Checked \/ CheckMissing \/ CheckImport)
  <2>1. UNCHANGED checking
    BY <1>10 DEF Next, vars, CycleDetected, AlreadyLoaded, Store, ImportMissing, ResolveImport,
       Resolved, CombineImport, CombineModule, CombineOther, Combined
  <2> QED BY <1>5, <1>10, <2>1
<1> QED BY <1>7, <1>8, <1>9, <1>10

\* An import of a module under way, where the files can be told apart: the
\* module of that name, if it is a file, is the one imported.
LEMMA NamedImport ==
  ASSUME LoadInv, CombineInv, Apart, NEW n \in 1..Len(combining), combining[n].todo # <<>>,
         NEW k, k = ModuleName(Head(combining[n].todo))
  PROVE  /\ modules[combining[n].key] \in File
         /\ modules[k] \in File => modules[k] \in Below(modules[combining[n].key])
<1>1. TypeOK /\ FilesInv /\ CombineTypeOK /\ StackOfModules
  BY DEF LoadInv, IInv, CombineInv
<1>2. PICK q, todo, g : q = combining[n].key /\ todo = combining[n].todo /\ g = Head(todo)
  OBVIOUS
<1>3. q \in Key /\ todo \in Seq(File) /\ g \in Range(todo)
  BY <1>1, <1>2, FrameFacts, RangeFacts
<1>4. Range(todo) \subseteq Range(ImportsOf(q))
  BY <1>1, <1>2 DEF StackOfModules
<1>5. modules[q] \in File
  <2>1. ImportsOf(q) # <<>>
    BY <1>3, <1>4, RangeOfEmpty
  <2> QED BY <2>1 DEF ImportsOf
<1>6. g \in Edges[modules[q]]
  BY <1>1, <1>3, <1>4, <1>5, GraphFacts DEF ImportsOf
<1>7. g \in Reached /\ g \in File /\ g \in Below(modules[q])
  BY <1>1, <1>3, <1>5, <1>6, ReachedFacts, BelowFacts DEF FilesInv, Loadable
<1>8. ASSUME modules[k] \in File PROVE modules[k] = g
  <2>1. k \in Key /\ k = ModuleName(g)
    BY <1>1, <1>2, <1>7, NamesAreKeys
  <2>2. modules[k] \in Reached \ Missing /\ ModuleName(modules[k]) = k
    BY <1>1, <1>8, <2>1 DEF FilesInv, Loadable
  <2>3. place[modules[k]].stem = place[g].stem
    <3>1. ModuleName(modules[k]).stem = place[modules[k]].stem
      BY <1>1, <1>8, StemFacts
    <3>2. ModuleName(g).stem = place[g].stem
      BY <1>1, <1>7, StemFacts
    <3> QED BY <2>1, <2>2, <3>1, <3>2
  <2> QED BY <1>7, <2>2, <2>3 DEF Apart, DistinctNames, NoNamesake
<1> QED BY <1>2, <1>5, <1>7, <1>8

\* The stack of process_module keeps to the files below, and does not go deeper
\* than there are files if there is no cycle.
LEMMA NextModulePath ==
  ASSUME LoadInv, CombineInv, ModulePath, [Next]_vars
  PROVE  ModulePath' /\ (CombineImport /\ phase' = "overflow" /\ Apart => Cyclic)
<1>0. PICK n : n = Len(combining)
  OBVIOUS
<1>1. TypeOK /\ IInv /\ FilesInv /\ CombineTypeOK
  BY DEF LoadInv, IInv, CombineInv
<1>2. n \in Nat /\ \A i \in 1..n : combining[i].key \in Key
  BY <1>0, <1>1, FrameFacts DEF CombineTypeOK
<1>3. UNCHANGED <<place, imports>>
  BY <1>1, NextSteps, AlreadyLoadedStep, LoadStep, StoreStep, ResolveImportStep,
     ResolvedStep, OtherStepFacts
<1>4. (Apart' <=> Apart) /\ \A f : Below(f)' = Below(f)
  BY <1>3, SameFiles DEF Apart
<1> DEFINE Path(m) ==
      \A i, j \in 1..m :
        i < j => /\ modules[combining'[i].key] \in File
                 /\ modules[combining'[j].key] \in File =>
                      modules[combining'[j].key] \in Below(modules[combining'[i].key])
<1>5. ASSUME UNCHANGED modules, Apart => Path(Len(combining'))
      PROVE  ModulePath'
  BY <1>4, <1>5 DEF ModulePath
<1>6. CASE CombineImport
  <2>1. PICK k : k = ModuleName(Head(combining[n].todo))
    OBVIOUS
  <2>2. /\ n > 0 /\ n \in 1..n /\ combining[n].todo # <<>> /\ UNCHANGED modules
        /\ \/ phase' = "overflow" /\ n = MaxDepth /\ UNCHANGED combining
           \/ /\ phase' = "combine"
              /\ \A i \in 1..n : combining'[i].key = combining[i].key
              /\ \/ Len(combining') = n
                 \/ Len(combining') = n + 1 /\ combining'[n + 1].key = k
    BY <1>0, <1>1, <1>6, <2>1, CombineImportStep
  <2>3. ASSUME Apart
        PROVE  /\ \A i \in 1..n : modules[combining[i].key] \in Loadable
               /\ modules[k] \in File =>
                    \A i \in 1..n : modules[k] \in Below(modules[combining[i].key])
    <3>1. /\ modules[combining[n].key] \in File
          /\ modules[k] \in File => modules[k] \in Below(modules[combining[n].key])
      BY <1>0, <2>1, <2>2, <2>3, NamedImport
    <3>2. ASSUME NEW i \in 1..n
          PROVE  /\ modules[combining[i].key] \in File
                 /\ i < n => modules[combining[n].key] \in Below(modules[combining[i].key])
      <4>1. i < n \/ i = n
        BY <1>2
      <4> QED BY <1>0, <2>2, <2>3, <3>1, <4>1 DEF ModulePath
    <3>3. \A i \in 1..n : modules[combining[i].key] \in Loadable
      BY <1>1, <1>2, <3>2 DEF FilesInv
    <3>4. ASSUME modules[k] \in File, NEW i \in 1..n
          PROVE  modules[k] \in Below(modules[combining[i].key])
      <4>1. CASE i = n
        BY <3>1, <3>4, <4>1
      <4>2. CASE i # n
        <5>1. i < n
          BY <1>2, <4>2
        <5>2. modules[combining[n].key] \in Below(modules[combining[i].key])
          BY <3>2, <5>1
        <5>3. Below(modules[combining[n].key]) \subseteq Below(modules[combining[i].key])
          BY <1>1, <3>2, <5>2, BelowFacts
        <5> QED BY <3>1, <3>4, <5>3
      <4> QED BY <4>1, <4>2
    <3> QED BY <3>3, <3>4
  <2>4. ASSUME Apart, NEW i \in 1..n, NEW j \in 1..n, i < j
        PROVE  /\ modules[combining[i].key] \in File
               /\ modules[combining[j].key] \in File =>
                    modules[combining[j].key] \in Below(modules[combining[i].key])
    BY <1>0, <2>4 DEF ModulePath
  <2>5. ASSUME phase' = "overflow", Apart PROVE Cyclic
    <3> DEFINE path == [i \in 1..n |-> modules[combining[i].key]]
    <3>1. n > Cardinality(File)
      <4>1. Cardinality(File) \in Nat
        BY DeepEnough, FS_CardinalityType
      <4> QED BY <2>2, <2>5, <4>1, DeepEnough
    <3>2. path \in [1..n -> Reached] /\ \A i \in 1..n : path[i] \in File
      BY <1>1, <2>3, <2>5, ReachedFacts DEF Loadable
    <3>3. \A i, j \in 1..n : i < j => path[j] \in Below(path[i])
      BY <2>4, <2>5, <3>2
    <3> HIDE DEF path
    <3> QED BY <1>1, <1>2, <3>1, <3>2, <3>3, LongPathIsCyclic
  <2>6. CASE UNCHANGED combining
    <3>1. Apart => Path(n)
      BY <2>4, <2>6
    <3> QED BY <1>0, <1>5, <2>2, <2>5, <2>6, <3>1
  <2>7. CASE /\ \A i \in 1..n : combining'[i].key = combining[i].key
             /\ Len(combining') = n
    <3>1. Apart => Path(n)
      BY <2>4, <2>7
    <3> QED BY <1>5, <2>2, <2>5, <2>7, <3>1
  <2>8. CASE /\ \A i \in 1..n : combining'[i].key = combining[i].key
             /\ Len(combining') = n + 1 /\ combining'[n + 1].key = k
    <3>1. ASSUME Apart, NEW i \in 1..(n + 1), NEW j \in 1..(n + 1), i < j
          PROVE  /\ modules[combining'[i].key] \in File
                 /\ modules[combining'[j].key] \in File =>
                      modules[combining'[j].key] \in Below(modules[combining'[i].key])
      <4>1. i \in 1..n /\ (j \in 1..n \/ j = n + 1) /\ Loadable \subseteq File
        BY <1>1, <1>2, <3>1, ReachedFacts DEF Loadable
      <4>2. CASE j \in 1..n
        BY <2>4, <2>8, <3>1, <4>1, <4>2
      <4>3. CASE j = n + 1
        BY <2>3, <2>8, <3>1, <4>1, <4>3
      <4> QED BY <4>1, <4>2, <4>3
    <3>2. Apart => Path(n + 1)
      BY <3>1
    <3> QED BY <1>5, <2>2, <2>5, <2>8, <3>2
  <2> QED BY <2>2, <2>6, <2>7, <2>8
<1>7. CASE CombineModule
  <2>1. /\ UNCHANGED modules /\ Len(combining') = n - 1
        /\ \A i \in 1..(n - 1) : i \in 1..n /\ combining'[i] = combining[i]
    BY <1>0, <1>1, <1>7, CombineModuleStep
  <2>2. ModulePath'
    BY <1>0, <1>4, <2>1 DEF ModulePath
  <2> QED BY <1>7, <2>2 DEF CombineModule, CombineImport
<1>8. ASSUME Len(combining') \in {0, 1} PROVE ModulePath'
  <2>1. CASE Len(combining') = 0
    BY <2>1 DEF ModulePath
  <2>2. CASE Len(combining') = 1
    BY <2>2 DEF ModulePath
  <2> QED BY <1>8, <2>1, <2>2
<1>9. CASE CombineOther
  <2>1. PICK k : combining' = <<Process(k)>>
    BY <1>9 DEF CombineOther
  <2>2. Len(combining') = 1
    BY <2>1
  <2> QED BY <1>8, <1>9, <2>2 DEF CombineOther, CombineImport
<1>10. CASE phase = "imports" \/ phase = "enter" \/ phase = "load"
  <2>1. combining = <<>>
    BY <1>10 DEF CombineInv, NotCombining
  <2>2. \/ UNCHANGED combining
        \/ combining' = <<[key |-> MainKey, todo |-> ImportsOf(MainKey)]>>
    BY <1>10 DEF Next, vars, combineVars, CycleDetected, AlreadyLoaded, Load, CheckMissing,
       CheckImport, Checked, Store, ImportMissing, ResolveImport, Resolved, CombineImport,
       CombineModule, CombineOther, Combined
  <2>3. Len(combining') \in {0, 1}
    BY <2>1, <2>2
  <2> QED BY <1>8, <1>10, <2>3 DEF CombineImport
<1>11. CASE UNCHANGED vars \/ Combined
  <2>1. UNCHANGED <<modules, combining>>
    BY <1>11 DEF vars, combineVars, Combined
  <2>2. ModulePath'
    BY <1>4, <2>1 DEF ModulePath
  <2> QED BY <1>6, <2>2
<1> QED BY <1>6, <1>7, <1>9, <1>10, <1>11
        DEF Next, CycleDetected, AlreadyLoaded, Load, CheckMissing, CheckImport, Checked,
            Store, ImportMissing, ResolveImport, Resolved

\* A module that a call iterates over is stored over only by a file below it
\* that has its name: by itself, where names tell the files apart.
LEMMA StoredOverIsCycle ==
  ASSUME LoadInv, DistinctNames, Store, phase' = "undefined"
  PROVE  Cyclic
<1>0. PICK n, f : n = Len(resolving) /\ f = resolving[n].file
  OBVIOUS
<1>1. TypeOK /\ IInv /\ FilesInv /\ PathInv
  BY DEF LoadInv, IInv
<1>2. /\ n \in Nat /\ n > 0 /\ n \in 1..n /\ phase = "load"
      /\ phase' = IF InUse(ModuleName(f)) THEN "undefined" ELSE "imports"
  BY <1>0, <1>1, StoreStep
<1>3. PICK i \in 1..(n - 1) : resolving[i].key = ModuleName(f)
  BY <1>0, <1>2 DEF InUse
<1>4. i \in 1..n /\ i < n
  BY <1>2
<1>5. f \in Loadable /\ f \in File /\ resolving[i].key \in Key
  BY <1>0, <1>1, <1>2, <1>4, CallFacts DEF FilesInv
<1>6. modules[resolving[i].key] \in File /\ f \in Below(modules[resolving[i].key])
  BY <1>0, <1>1, <1>2, <1>4 DEF PathInv
<1>7. place[f].stem = resolving[i].key.stem
  BY <1>1, <1>3, <1>5, StemFacts
<1>8. modules[resolving[i].key] = f
  BY <1>1, <1>5, <1>6, <1>7, StoredIsNamed
<1> QED BY <1>5, <1>6, <1>8 DEF Cyclic, Below, Loadable

\* Without import cycles no recursion exhausts the stack and no module is
\* stored over while its imports are gone through, if the files of the program
\* can be told apart by their names, those that do not exist from the others
\* included.
THEOREM ModulesSafeWhenAcyclic == Spec => []SafeWhenAcyclic
<1> DEFINE Inv == LoadInv /\ CombineInv /\ CheckInv /\ ModulePath /\ SafeWhenAcyclic
<1>1. Init => Inv
  <2> SUFFICES ASSUME Init PROVE CheckInv /\ ModulePath /\ SafeWhenAcyclic
    BY InitLoadInv, InitCombineInv
  <2>1. /\ checking \in Seq(Checkee) /\ Len(checking) = 0 /\ Len(combining) = 0
        /\ phase = "enter"
    BY DEF Init
  <2> QED BY <2>1 DEF CheckInv, ModulePath, SafeWhenAcyclic
<1>2. Inv /\ [Next]_vars => Inv'
  <2> SUFFICES ASSUME Inv, [Next]_vars PROVE Inv'
    OBVIOUS
  <2>1. /\ LoadInv' /\ CombineInv' /\ CheckInv' /\ ModulePath'
        /\ CheckImport /\ phase' = "overflow" => Cyclic
        /\ CombineImport /\ phase' = "overflow" /\ Apart => Cyclic
    BY NextLoadInv, NextCombineInv, NextCheckInv, NextModulePath
  <2>2. /\ Cyclic' <=> Cyclic
        /\ DistinctNames' <=> DistinctNames
        /\ NoNamesake' <=> NoNamesake
    <3>1. UNCHANGED <<place, imports>>
      BY NextSteps, AlreadyLoadedStep, LoadStep, StoreStep, ResolveImportStep,
         ResolvedStep, OtherStepFacts DEF LoadInv
    <3> QED BY <3>1, SameFiles
  <2>3. ASSUME phase' \in {"overflow", "undefined"}
        PROVE  \/ phase \in {"overflow", "undefined"}
               \/ CheckImport /\ phase' = "overflow"
               \/ CombineImport /\ phase' = "overflow"
               \/ Store /\ phase' = "undefined"
    BY <2>3 DEF Next, vars, CycleDetected, AlreadyLoaded, Load, CheckMissing, CheckImport,
       Checked, Store, ImportMissing, ResolveImport, Resolved, CombineImport, CombineModule,
       CombineOther, Combined
  <2>4. SafeWhenAcyclic'
    BY <2>1, <2>2, <2>3, StoredOverIsCycle DEF SafeWhenAcyclic, Apart
  <2> QED BY <2>1, <2>4
<1>3. Inv => SafeWhenAcyclic
  OBVIOUS
<1> QED BY <1>1, <1>2, <1>3, PTL DEF Spec
==============================================================================
