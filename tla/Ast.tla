--------------------------------- MODULE Ast ---------------------------------
(***************************************************************************)
(* The nodes of the syntax tree: one constructor per node class of         *)
(* include/frontend/ast.  A node is a record with its NodeType as kind and *)
(* the members of its class as fields.  clone() rebuilds a node member by  *)
(* member, so a value of this module stands for a node and for its clones. *)
(* Source positions are left out.                                          *)
(***************************************************************************)
EXTENDS Sequences

None == [kind |-> "None"]   \* a null pointer to a node

(* Literals, names and collections. *)
NumericLiteral(value) == [kind |-> "NumericLiteral", value |-> value]
BooleanLiteral(value) == [kind |-> "BooleanLiteral", value |-> value]
StringLiteral(value) == [kind |-> "StringLiteral", value |-> value]
Identifier(symbol) == [kind |-> "Identifier", symbol |-> symbol]
VectorExpr(elements) == [kind |-> "VectorExpression", elements |-> elements]
ArrayExpr(elements) == [kind |-> "ArrayExpression", elements |-> elements]
TupleExpr(elements) == [kind |-> "TupleExpression", elements |-> elements]
KeyValue(key, value) == [kind |-> "KeyValue", key |-> key, value |-> value]
MapExpr(properties) == [kind |-> "Map", elements |-> properties]
RangeExpr(start, end, inclusive) ==
    [kind |-> "RangeExpression", start |-> start, end |-> end,
     inclusive |-> inclusive]

(* Operators.  The six classes with one operand share one shape. *)
Binary(op, left, right) ==
    [kind |-> "BinaryExpression", op |-> op, left |-> left, right |-> right]
Orderings == {"<", ">", "<=", ">="}
Comparisons == {"==", "!="} \union Orderings
Unary(kind, operand) == [kind |-> kind, operand |-> operand]
LogicalNot(operand) == Unary("LogicalNotExpression", operand)
UnaryMinus(operand) == Unary("UnaryMinusExpression", operand)
Increment(operand) == Unary("IncrementExpression", operand)
Decrement(operand) == Unary("DecrementExpression", operand)
PostIncrement(operand) == Unary("PostIncrementExpression", operand)
PostDecrement(operand) == Unary("PostDecrementExpression", operand)
UnaryKinds == {"LogicalNotExpression", "UnaryMinusExpression",
               "IncrementExpression", "DecrementExpression",
               "PostIncrementExpression", "PostDecrementExpression"}
Conditional(true_expr, condition, false_expr) ==
    [kind |-> "ConditionalExpression", true_expr |-> true_expr,
     condition |-> condition, false_expr |-> false_expr]
Access(expr, index) ==
    [kind |-> "AccessExpression", expr |-> expr, index |-> index]
Member(object, property) ==
    [kind |-> "MemberExpression", object |-> object, property |-> property]
Call(caller, args) ==
    [kind |-> "CallExpression", caller |-> caller, args |-> args]
Assignment(target, op, value) ==
    [kind |-> "AssignmentExpression", target |-> target, op |-> op,
     value |-> value]
\* generators is a sequence of <<target, source>> pairs.
ListComp(elt, generators, if_cond, else_expr) ==
    [kind |-> "ListComprehension", elt |-> elt, generators |-> generators,
     if_cond |-> if_cond, else_expr |-> else_expr]

(* Statements.  A block is a sequence of nodes. *)
Declaration(target, value, typ, constant) ==
    [kind |-> "DeclarationStatement", target |-> target, value |-> value,
     typ |-> typ, constant |-> constant]
Param(name, typ) == [kind |-> "Parameter", name |-> name, typ |-> typ]
Def(name, parameters, return_type, body) ==
    [kind |-> "DefStatement", name |-> name, parameters |-> parameters,
     return_type |-> return_type, body |-> body]
If(condition, consequent, alternate) ==
    [kind |-> "IfStatement", condition |-> condition,
     consequent |-> consequent, alternate |-> alternate]
For(bindings, start, end, inclusive, iterable, body, else_block) ==
    [kind |-> "ForStatement", bindings |-> bindings, range_start |-> start,
     range_end |-> end, range_inclusive |-> inclusive, iterable |-> iterable,
     body |-> body, else_block |-> else_block]
While(condition, body) ==
    [kind |-> "WhileStatement", condition |-> condition, body |-> body]
Loop(body) == [kind |-> "LoopStatement", body |-> body]
Match(target, cases, bodies) ==
    [kind |-> "MatchStatement", target |-> target, cases |-> cases,
     bodies |-> bodies]
Return(value) == [kind |-> "ReturnStatement", value |-> value]
Break == [kind |-> "BreakStatement"]
Continue == [kind |-> "ContinueStatement"]
Import(module_path, imports) ==
    [kind |-> "ImportStatement", module_path |-> module_path,
     imports |-> imports]
Program(body) == [kind |-> "Program", body |-> body]

\* The node with every block in it replaced.
WithBodies(node, F(_)) ==
    CASE node.kind = "IfStatement" ->
            [node EXCEPT !.consequent = F(@), !.alternate = F(@)]
      [] node.kind \in {"WhileStatement", "LoopStatement", "DefStatement"} ->
            [node EXCEPT !.body = F(@)]
      [] node.kind = "ForStatement" ->
            [node EXCEPT !.body = F(@), !.else_block = F(@)]
      [] node.kind = "MatchStatement" ->
            [node EXCEPT !.bodies = [k \in DOMAIN @ |-> F(@[k])]]
      [] OTHER -> node
==============================================================================
