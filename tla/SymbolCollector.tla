--------------------------- MODULE SymbolCollector ---------------------------
(***************************************************************************)
(* collect_symbol_usage(): the names that a fragment defines and the names *)
(* of other fragments that it uses.  The session invalidates by these two  *)
(* sets, so a name that is missing here is a dependency nobody sees.       *)
(***************************************************************************)
EXTENDS Ast

Builtins == {"write", "read", "json"}

\* Mutant: the branches of a conditional are forgotten.
VisitedNoBranches(e) ==
    CASE e.kind = "BinaryExpression" -> {e.left, e.right}
      [] e.kind = "AssignmentExpression" -> {e.target, e.value}
      [] e.kind = "ConditionalExpression" -> {e.condition}
      [] OTHER -> {}

\* The expressions directly inside an expression that the collector visits.
\* Operators with one operand and all statements are left out, as in the code.
Visited(e) ==
    CASE e.kind = "BinaryExpression" -> {e.left, e.right}
      [] e.kind = "AssignmentExpression" -> {e.target, e.value}
      [] e.kind = "CallExpression" ->
            {e.caller} \union {e.args[k] : k \in DOMAIN e.args}
      [] e.kind = "MemberExpression" -> {e.object, e.property}
      [] e.kind = "AccessExpression" -> {e.expr, e.index}
      [] e.kind = "ConditionalExpression" ->
            {e.true_expr, e.condition, e.false_expr}
      [] e.kind \in {"ArrayExpression", "VectorExpression", "TupleExpression",
                     "Map"} ->
            {e.elements[k] : k \in DOMAIN e.elements}
      [] e.kind = "KeyValue" -> {e.key, e.value}
      [] e.kind = "RangeExpression" -> {e.start, e.end}
      [] e.kind = "ListComprehension" ->
            {e.elt, e.if_cond, e.else_expr}
            \union UNION {{e.generators[k][1], e.generators[k][2]} :
                            k \in DOMAIN e.generators}
      [] OTHER -> {}

RECURSIVE ExprUses(_)
ExprUses(e) ==
    IF e.kind = "Identifier" THEN {e.symbol} \ Builtins
    ELSE UNION {ExprUses(part) : part \in Visited(e)}

Usage(defined, used) == [defined |-> defined, used |-> used]

\* What one statement defines and uses.  In the body of a def the parameters
\* count as local, the variables do not.
RECURSIVE StmtUsage(_)
StmtUsage(s) ==
    CASE s.kind = "DeclarationStatement" ->
            Usage({s.target.symbol}, ExprUses(s.value))
      [] s.kind = "DefStatement" ->
            Usage({s.name},
                  UNION {StmtUsage(s.body[k]).used : k \in DOMAIN s.body}
                  \ {s.parameters[k].name : k \in DOMAIN s.parameters})
      [] s.kind = "AssignmentExpression" ->
            Usage(IF s.target.kind = "Identifier" THEN {s.target.symbol} ELSE {},
                  ExprUses(s.value))
      [] OTHER -> Usage({}, ExprUses(s))

CollectSymbolUsage(body) ==
    LET usages == {StmtUsage(body[k]) : k \in DOMAIN body}
        defined == UNION {u.defined : u \in usages}
    IN  Usage(defined, UNION {u.used : u \in usages} \ defined)
==============================================================================
