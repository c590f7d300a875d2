------------------------------ MODULE Semantics ------------------------------
(***************************************************************************)
(* What a program means, for comparison with what the compiler makes of    *)
(* it: an interpreter of source trees, with nothing of basic blocks in it. *)
(*                                                                         *)
(* A source tree is a sequence of nodes of module Ast, with one node of    *)
(* its own: IfSource keeps the elif branches apart from the statements of  *)
(* the else block, which the parser's IfStatement does not.  The results   *)
(* of the called functions are given in advance, as a sequence.            *)
(***************************************************************************)
EXTENDS Machine

IfSource(condition, consequent, elifs, other) ==
    [kind |-> "IfSource", condition |-> condition, consequent |-> consequent,
     elifs |-> elifs, other |-> other]
Elif(condition, body) == [condition |-> condition, body |-> body]

(***************************************************************************)
(* Rewriting every list of statements in a tree.                           *)
(***************************************************************************)
WithLists(node, F(_)) ==
    IF node.kind # "IfSource" THEN WithBodies(node, F)
    ELSE [node EXCEPT !.consequent = F(@), !.other = F(@),
            !.elifs = [k \in DOMAIN @ |-> [@[k] EXCEPT !.body = F(@)]]]

\* The nodes the parser makes of a tree.
RECURSIVE Flat(_)
Flat(stmts) ==
    LET flat(s) ==
          LET n == WithLists(s, Flat)
              elifs == [k \in DOMAIN n.elifs |->
                          If(n.elifs[k].condition, n.elifs[k].body, << >>)]
          IN  IF s.kind # "IfSource" THEN n
              ELSE If(n.condition, n.consequent, elifs \o n.other)
    IN  [k \in DOMAIN stmts |-> flat(stmts[k])]

(***************************************************************************)
(* The program as the compiler reads it back from those nodes.  An if      *)
(* statement that an else block begins with cannot be told from an elif,   *)
(* and its own elif and else branches are lost.                            *)
(***************************************************************************)
RECURSIVE Absorbed(_)
Absorbed(node) ==
    IF node.other # << >> /\ Head(node.other).kind = "IfSource"
    THEN LET inner == Head(node.other)
         IN  Absorbed([node EXCEPT !.other = Tail(@),
               !.elifs = Append(@, Elif(inner.condition, inner.consequent))])
    ELSE node

RECURSIVE Reread(_)
Reread(stmts) ==
    LET read(s) == WithLists(IF s.kind = "IfSource" THEN Absorbed(s) ELSE s,
                             Reread)
    IN  [k \in DOMAIN stmts |-> read(stmts[k])]

(***************************************************************************)
(* The interpreter.  Its state: the variables in their scopes, the results *)
(* not used yet, the events so far, and what interrupts the flow: "break", *)
(* "continue", or "stop" when the results or the events allowed run out.   *)
(***************************************************************************)
InitialState(results) ==
    [scopes |-> <<EmptyScope>>, results |-> results, events |-> << >>,
     signal |-> "none"]

Bindings(S, name) == {k \in DOMAIN S.scopes : name \in DOMAIN S.scopes[k]}
Current(S, name) == S.scopes[Max(Bindings(S, name))][name]
Declare(S, name, n) ==
    [S EXCEPT !.scopes[Len(S.scopes)] = (name :> n) @@ @]
Assign(S, name, n) ==
    IF Bindings(S, name) = {} THEN Declare(S, name, n)
    ELSE [S EXCEPT !.scopes[Max(Bindings(S, name))][name] = n]

Got(n, S) == [n |-> n, S |-> S]

RECURSIVE Eval(_, _), EvalAll(_, _, _)
EvalAll(args, S, values) ==
    IF args = << >> THEN Got(values, S)
    ELSE LET a == Eval(Head(args), S)
         IN  EvalAll(Tail(args), a.S, Append(values, a.n))

Called(name, args) ==
    LET S == args.S
        r == IF name = "write" THEN Undef ELSE Head(S.results)
        event == [name |-> name, args |-> args.n, result |-> r]
        exhausted == \/ Len(S.events) = MaxEvents
                     \/ name # "write" /\ S.results = << >>
    IN  IF exhausted THEN Got(Undef, [S EXCEPT !.signal = "stop"])
        ELSE Got(IF name = "write" THEN args.n[1] ELSE r,
                 [S EXCEPT !.events = Append(@, event),
                           !.results = IF name = "write" THEN @ ELSE Tail(@)])

Assigned(e, S) ==
    LET v == Eval(e.value, S)
        old == Current(v.S, e.target.symbol)
        n == IF e.op = "=" THEN v.n
             ELSE Fit(Apply(CompoundOp[e.op], old, v.n), "i32")
    IN  Got(n, Assign(v.S, e.target.symbol, n))

Stepped(e, S) ==
    LET old == Current(S, e.operand.symbol)
        up == e.kind \in {"IncrementExpression", "PostIncrementExpression"}
        new == Fit(Apply(IF up THEN "+" ELSE "-", old, 1), "i32")
        prefix == e.kind \in {"IncrementExpression", "DecrementExpression"}
    IN  Got(IF prefix THEN new ELSE old, Assign(S, e.operand.symbol, new))

Eval(e, S) ==
    IF S.signal = "stop" THEN Got(Undef, S)
    ELSE CASE e.kind = "NumericLiteral" ->
                Got(CHOOSE n \in Word : ToString(n) = e.value, S)
           [] e.kind = "BooleanLiteral" -> Got(Bit(e.value), S)
           [] e.kind = "Identifier" -> Got(Current(S, e.symbol), S)
           [] e.kind = "BinaryExpression" ->
                LET l == Eval(e.left, S)
                    r == Eval(e.right, l.S)
                IN  Got(Fit(Apply(e.op, l.n, r.n), "i32"), r.S)
           [] e.kind = "LogicalNotExpression" ->
                LET o == Eval(e.operand, S) IN Got(1 - o.n, o.S)
           [] e.kind = "UnaryMinusExpression" ->
                LET o == Eval(e.operand, S) IN Got(Fit(0 - o.n, "i32"), o.S)
           [] e.kind \in UnaryKinds \ OperatorKinds -> Stepped(e, S)
           [] e.kind = "ConditionalExpression" ->
                LET c == Eval(e.condition, S)
                IN  Eval(IF c.n # 0 THEN e.true_expr ELSE e.false_expr, c.S)
           [] e.kind = "CallExpression" ->
                Called(e.caller.symbol, EvalAll(e.args, S, << >>))
           [] e.kind = "AssignmentExpression" -> Assigned(e, S)
           [] e.kind \in CollectionKinds -> EvalAll(e.elements, S, << >>)

(***************************************************************************)
(* Statements.                                                             *)
(***************************************************************************)
RECURSIVE Run(_, _), RunAll(_, _)

InScope(stmts, S) ==
    LET T == RunAll(stmts, [S EXCEPT !.scopes = Append(@, EmptyScope)])
    IN  [T EXCEPT !.scopes = Front(@)]

RECURSIVE RunIf(_, _, _)
RunIf(branches, other, S) ==
    LET c == Eval(Head(branches).condition, S)
    IN  IF branches = << >> THEN InScope(other, S)
        ELSE IF c.S.signal = "stop" THEN c.S
        ELSE IF c.n # 0 THEN InScope(Head(branches).body, c.S)
        ELSE RunIf(Tail(branches), other, c.S)

\* The state after the body of a loop, and whether the loop goes on.
Turn(body, S) ==
    LET T == InScope(body, S)
    IN  [S |-> [T EXCEPT !.signal = IF @ = "stop" THEN @ ELSE "none"],
         on |-> T.signal \in {"none", "continue"}]

RECURSIVE RunWhile(_, _)
RunWhile(e, S) ==
    LET c == IF e.kind = "LoopStatement" THEN Got(1, S)
             ELSE Eval(e.condition, S)
        turn == Turn(e.body, c.S)
    IN  IF c.S.signal = "stop" \/ c.n = 0 THEN c.S
        ELSE IF turn.on THEN RunWhile(e, turn.S) ELSE turn.S

(***************************************************************************)
(* The elements of a collection one after the other.  One name is bound to *)
(* the element; into two or more it is taken apart, and one that is no     *)
(* tuple, or too short, stops the program.                                 *)
(***************************************************************************)
FlatElement(e, k) ==
    /\ Len(e.bindings) > 1
    /\ LET element == e.iterable.elements[k]
       IN  \/ e.iterable.kind = "TupleExpression"
           \/ element.kind \notin CollectionKinds
           \/ Len(element.elements) < Len(e.bindings)

BindAll(names, element, S) ==
    LET part(k) == IF Len(names) = 1 THEN element ELSE element[k]
    IN  FoldLeft(LAMBDA T, k : Assign(T, names[k].symbol, part(k)), S,
                 [k \in DOMAIN names |-> k])

RECURSIVE RunEach(_, _, _)
RunEach(e, elements, S) ==
    LET k == Len(e.iterable.elements) - Len(elements) + 1
        turn == Turn(e.body, BindAll(e.bindings, Head(elements), S))
    IN  IF elements = << >> THEN S
        ELSE IF FlatElement(e, k) THEN [S EXCEPT !.signal = "stop"]
        ELSE IF turn.on THEN RunEach(e, Tail(elements), turn.S) ELSE turn.S

\* The numbers of a range one after the other; else_block if there was none.
RECURSIVE RunFor(_, _, _, _)
RunFor(e, i, last, S) ==
    LET turn == Turn(e.body, Assign(S, e.bindings[1].symbol, i))
    IN  IF i > last THEN S
        ELSE IF turn.on THEN RunFor(e, i + 1, last, turn.S) ELSE turn.S

Counted(e, start, last, S) ==
    IF start > last THEN InScope(e.else_block, S) ELSE RunFor(e, start, last, S)

Matches(pattern, n, S) ==
    CASE IsDefault(pattern) -> TRUE
      [] pattern.kind = "RangeExpression" ->
            LET last == Eval(pattern.end, S).n
            IN  /\ n >= Eval(pattern.start, S).n
                /\ IF pattern.inclusive THEN n <= last ELSE n < last
      [] OTHER -> n = Eval(pattern, S).n

RunMatch(e, S) ==
    LET target == Eval(e.target, S)
        hits == {k \in DOMAIN e.cases : Matches(e.cases[k], target.n, S)}
    IN  IF target.S.signal = "stop" \/ hits = {} THEN target.S
        ELSE InScope(e.bodies[Min(hits)], target.S)

Run(e, S) ==
    CASE e.kind = "IfSource" ->
            RunIf(<<Elif(e.condition, e.consequent)>> \o e.elifs, e.other, S)
      [] e.kind \in {"WhileStatement", "LoopStatement"} -> RunWhile(e, S)
      [] e.kind = "ForStatement" ->
            LET counter == e.bindings[1].symbol
                start == Eval(e.range_start, S).n
                end == Eval(e.range_end, S).n
            IN  IF e.iterable = None
                THEN Counted(e, start,
                             IF e.range_inclusive THEN end ELSE end - 1,
                             Declare(S, counter, start))
                ELSE LET it == Eval(e.iterable, S)
                     IN  IF it.S.signal = "stop" THEN it.S
                         ELSE IF it.n = << >> THEN InScope(e.else_block, it.S)
                         ELSE RunEach(e, it.n, it.S)
      [] e.kind = "MatchStatement" -> RunMatch(e, S)
      [] e = Break -> [S EXCEPT !.signal = "break"]
      [] e = Continue -> [S EXCEPT !.signal = "continue"]
      [] e.kind = "DeclarationStatement" ->
            LET v == IF e.value = None THEN Got(Undef, S) ELSE Eval(e.value, S)
            IN  Declare(v.S, e.target.symbol, v.n)
      [] e.kind = "DefStatement" -> S
      [] OTHER -> Eval(e, S).S

RunAll(stmts, S) ==
    IF stmts = << >> \/ S.signal # "none" THEN S
    ELSE RunAll(Tail(stmts), Run(Head(stmts), S))

\* The events of a program whose called functions return these results.
EventsOf(stmts, results) == RunAll(stmts, InitialState(results)).events
==============================================================================
