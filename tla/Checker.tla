------------------------------- MODULE Checker -------------------------------
(***************************************************************************)
(* The checker: the check function of each node, as an operator from the   *)
(* state of the checker (module TypeContext) to a type and the state it    *)
(* leaves.  Once the flow is interrupted nothing is reported, unified or   *)
(* named any more; check_node() is the handler of what is thrown.          *)
(*                                                                         *)
(* An error is reported and counted in err; which message, and whether it  *)
(* was shown before, is left out.  So are imports.                         *)
(***************************************************************************)
EXTENDS Ast, TypeContext, TLC

\* error(), and void for the type.
Errs(C) == OfType(VoidType, Reported(C))

\* The message spells out t.
ErrsShowing(t, C) ==
    IF Going(C) /\ Cyclic(t, C) THEN OfType(VoidType, Crashed(C)) ELSE Errs(C)

\* unify(), with a handler that reports the failure.
Agreed(t1, t2, C) ==
    Then(Unified(t1, t2, C), LAMBDA u :
        IF u.ok THEN u ELSE [u EXCEPT !.C = Reported(@)])

\* The same with both types in the message.
AgreedShowing(t1, t2, C) ==
    Then(Agreed(t1, t2, C), LAMBDA u :
        IF u.ok THEN u
        ELSE [u EXCEPT !.C = ErrsShowing(TupleType(<<t1, t2>>), @).C])

\* An int beside a float counts as a float.
Widened(t1, t2) ==
    IF {t1.kind, t2.kind} = {"INT", "FLOAT"} THEN FloatType ELSE t1

(***************************************************************************)
(* The names of types: gettyptr().                                         *)
(***************************************************************************)
PrimTypes ==
    "int" :> IntType @@ "string" :> StringType @@ "float" :> FloatType
    @@ "bool" :> BoolType @@ "void" :> VoidType

Letters(text) == [k \in 1..Len(text) |-> SubSeq(text, k, k)]
DigitTexts == [k \in 1..10 |-> ToString(k - 1)]

\* stoi(), of decimal digits
NumberOf(digits) ==
    LET value(d) == (CHOOSE k \in 1..10 : DigitTexts[k] = d) - 1
    IN  FoldLeft(LAMBDA n, d : 10 * n + value(d), 0, digits)

\* The text before the bracket and the size in it, if typ has this form.
SizedName(typ) ==
    LET cs == Letters(typ)
        open == SelectInSeq(cs, LAMBDA c : c = "[")
        close == SelectInSeq(cs, LAMBDA c : c = "]")
        digits == SubSeq(cs, open + 1, close - 1)
        sized == /\ open > 1 /\ close > open + 1
                 /\ Range(digits) \subseteq Range(DigitTexts)
    IN  [base |-> SubSeq(typ, 1, open - 1),
         size |-> IF sized THEN NumberOf(digits) ELSE 0]

RECURSIVE TypeNamed(_, _)
TypeNamed(typ, C) ==
    CASE typ \in DOMAIN PrimTypes -> OfType(PrimTypes[typ], C)
      [] typ = "vector" ->
            IF C.vector # NoType THEN OfType(C.vector, C)
            ELSE Then(NewVector(C), LAMBDA new :
                     OfType(new.t, [new.C EXCEPT !.vector = new.t]))
      [] OTHER ->
            Then(SizedName(typ), LAMBDA sized :
                IF sized.size = 0 THEN Errs(C)
                ELSE Then(TypeNamed(sized.base, C), LAMBDA base :
                         OfType(ArrayType(base.t, sized.size), base.C)))

(***************************************************************************)
(* Expressions.                                                            *)
(***************************************************************************)
RECURSIVE Checked(_, _, _)

Infer(e, C) == Checked("infer_expr", e, C)
CheckNode(e, C) == Checked("check_node", e, C)

InferAll(es, C) ==
    LET next(s, e) == Then(Infer(e, s.C), LAMBDA i :
                          [ts |-> Append(s.ts, i.t), C |-> i.C])
    IN  FoldLeft(next, [ts |-> << >>, C |-> C], es)

\* The type of e where its variable is bound.
InferResolved(e, C) ==
    Then(Infer(e, C), LAMBDA i : OfType(Resolved(i.t, i.C), i.C))

\* An identifier of a polymorphic type has a type of its own each time.
CheckPrimary(e, C) ==
    CASE e.kind = "NumericLiteral" ->
            OfType(IF "." \in Range(Letters(e.value)) THEN FloatType
                   ELSE IntType, C)
      [] e.kind = "StringLiteral" -> OfType(StringType, C)
      [] e.kind = "BooleanLiteral" -> OfType(BoolType, C)
      [] e.kind = "Identifier" ->
            IF e.symbol \notin Visible(C) THEN Errs(C)
            ELSE LET t == TypeOfName(e.symbol, C)
                 IN  IF t.kind = "POLY_TYPE" THEN Instantiated(t, C)
                     ELSE OfType(t, C)

\* The operator, applied to two types.  The second unification of && and || is
\* outside of the handler.
Operated(e, l, r, C) ==
    IF e.op = "*" /\ {l.kind, r.kind} = {"STRING", "INT"}
    THEN OfType(StringType, C)
    ELSE Then(Agreed(l, r, C), LAMBDA u :
        IF ~u.ok THEN OfType(VoidType, u.C)
        ELSE IF e.op \in Comparisons THEN OfType(BoolType, u.C)
        ELSE Then(Resolved(Widened(l, r), u.C), LAMBDA t :
            IF e.op \notin {"&&", "||"} THEN OfType(t, u.C)
            ELSE Then(Unified(t, BoolType, u.C), LAMBDA bit :
                OfType(BoolType, IF bit.ok THEN bit.C ELSE Thrown(bit.C)))))

CheckBinary(e, C) ==
    Then(Infer(e.left, C), LAMBDA l :
        IF l.C.err THEN OfType(VoidType, l.C)
        ELSE Then(Infer(e.right, l.C), LAMBDA r :
            IF r.C.err THEN OfType(VoidType, r.C)
            ELSE Operated(e, Resolved(l.t, r.C), Resolved(r.t, r.C), r.C)))

BuiltinFunctions == {Identifier("write"), Identifier("read")}

\* f, called with arguments of the types ts.  What is called but is no function
\* becomes one of those arguments; a builtin takes one argument or none, of the
\* type of the call before.
Applied(e, f, ts, C) ==
    LET given == Len(e.args)
        taken == Len(f.parts) - 1
        agree(u, k) == IF u.ok THEN Agreed(ts[k], f.parts[k], u.C) ELSE u
        passed == FoldLeft(agree, [ok |-> TRUE, C |-> C],
                           [k \in 1..Min({given, taken}) |-> k])
    IN  IF C.err \/ ~Going(C) THEN OfType(VoidType, C)
        ELSE IF f.kind # "DEF"
        THEN Then(NewTypeVar(C), LAMBDA ret :
             Then(Agreed(f, DefType(ts, ret.t), ret.C), LAMBDA called :
                 OfType(IF called.ok THEN ret.t ELSE VoidType, called.C)))
        ELSE IF IF e.caller \in BuiltinFunctions THEN given > 1
                ELSE given # taken
        THEN Errs(C)
        ELSE Then(passed, LAMBDA u :
                 OfType(IF u.ok THEN Last(f.parts) ELSE VoidType, u.C))

CheckCall(e, C) ==
    Then(Infer(e.caller, C), LAMBDA f :
    Then(InferAll(e.args, f.C), LAMBDA args :
        Applied(e, Resolved(f.t, args.C), args.ts, args.C)))

\* An array if all elements have the type of the first, else a vector; what
\* follows the first that differs is not looked at.
CheckArray(e, C) ==
    LET next(s, element) ==
            IF ~s.same THEN s
            ELSE Then(InferResolved(element, s.C), LAMBDA i :
                 Then(Compared(s.t, i.t, i.C), LAMBDA eq :
                 Then(Widened(s.t, i.t), LAMBDA t :
                     [t |-> t, C |-> eq.C, same |-> eq.ok \/ t = FloatType])))
        all(first) ==
            FoldLeft(next, [t |-> first.t, C |-> first.C, same |-> TRUE],
                     Tail(e.elements))
    IN  IF e.elements = << >> THEN NewVector(C)
        ELSE Then(all(InferResolved(Head(e.elements), C)), LAMBDA last :
             Then(Resolved(last.t, last.C), LAMBDA t :
                 IF last.same /\ t.kind # "TYPE_VAR"
                 THEN OfType(ArrayType(t, Len(e.elements)), last.C)
                 ELSE NewVector(last.C)))

CheckTuple(e, C) ==
    Then(InferAll(e.elements, C), LAMBDA all :
        OfType(TupleType(all.ts), all.C))

\* The keys agree with the first one, and so do the values.
EntryAgreed(s, key, value, C) ==
    IF s.key = NoType THEN [ok |-> TRUE, key |-> key, value |-> value, C |-> C]
    ELSE Then(AgreedShowing(s.key, key, C), LAMBDA keys :
        IF ~keys.ok THEN [s EXCEPT !.ok = FALSE, !.C = keys.C]
        ELSE Then(AgreedShowing(s.value, value, keys.C), LAMBDA values :
            [s EXCEPT !.ok = values.ok, !.C = values.C]))

CheckMap(e, C) ==
    LET next(s, p) ==
            IF ~s.ok THEN s
            ELSE Then(Infer(p.key, s.C), LAMBDA k :
                 Then(InferResolved(p.value, k.C), LAMBDA v :
                     EntryAgreed(s, Resolved(k.t, v.C), v.t, v.C)))
        all == FoldLeft(next,
                   [ok |-> TRUE, key |-> NoType, value |-> NoType, C |-> C],
                   e.elements)
    IN  IF e.elements = << >>
        THEN Then(TempVar(C), LAMBDA key :
             Then(TempVar(key.C), LAMBDA value :
                 OfType(MapType(key.t, value.t), value.C)))
        ELSE Then(all, LAMBDA s :
                 OfType(IF ~s.ok THEN VoidType
                        ELSE MapType(Resolved(s.key, s.C),
                                     Resolved(s.value, s.C)), s.C))

Accessed(t, index, C) ==
    CASE index.kind \notin {"INT", "STRING"} -> ErrsShowing(index, C)
      [] index.kind \in {"INT", "STRING"} /\ t.kind = "MAP" ->
            Then(AgreedShowing(index, t.parts[1], C), LAMBDA key :
                OfType(IF key.ok THEN t.parts[2] ELSE VoidType, key.C))
      [] OTHER ->
            IF t.kind \notin {"ARRAY", "VECTOR", "STRING", "TUPLE"}
            THEN ErrsShowing(t, C)
            ELSE IF index.kind = "STRING" THEN Errs(C)
            ELSE CASE t.kind = "ARRAY" -> OfType(t.parts[1], C)
                   [] t.kind = "STRING" -> OfType(StringType, C)
                   [] OTHER -> TempVar(C)

CheckAccess(e, C) ==
    Then(InferResolved(e.expr, C), LAMBDA base :
    Then(InferResolved(e.index, base.C), LAMBDA index :
        Accessed(base.t, index.t, index.C)))

\* Only a vector has members; of a type without a prototype the lack of one is
\* reported here, of the others thrown by the namespace.
MemberOf(t, property, C) ==
    IF property.kind # "Identifier" THEN Errs(C)
    ELSE IF t.kind = "VECTOR" /\ property.symbol = "push"
    THEN OfType(DefType(<<VarType(t.push)>>, VoidType), C)
    ELSE IF t.kind = "VECTOR" /\ property.symbol = "pop"
    THEN OfType(DefType(<< >>, VarType(t.pop)), C)
    ELSE IF t.kind \in {"VOID", "DEF", "TYPE_VAR"} THEN ErrsShowing(t, C)
    ELSE OfType(VoidType, Thrown(C))

CheckMember(e, C) ==
    Then(InferResolved(e.object, C), LAMBDA object :
        MemberOf(object.t, e.property, object.C))

\* The condition of if, while and the conditional expression.
Condition(e, C) ==
    Then(InferResolved(e, C), LAMBDA c : AgreedShowing(c.t, BoolType, c.C))

CheckConditional(e, C) ==
    Then(Condition(e.condition, C), LAMBDA cond :
        IF ~cond.ok THEN OfType(VoidType, cond.C)
        ELSE Then(Infer(e.true_expr, cond.C), LAMBDA yes :
             Then(InferResolved(e.false_expr, yes.C), LAMBDA no :
             Then(Resolved(yes.t, no.C), LAMBDA t :
             Then(AgreedShowing(t, no.t, no.C), LAMBDA both :
                 OfType(IF ~both.ok THEN VoidType
                        ELSE Resolved(Widened(t, no.t), both.C), both.C))))))

CheckRange(e, C) ==
    Then(Infer(e.start, C), LAMBDA start :
    Then(InferResolved(e.end, start.C), LAMBDA end :
        IF /\ end.t.kind \in {"INT", "STRING"}
           /\ end.t.kind = Resolved(start.t, end.C).kind
        THEN OfType(VoidType, end.C) ELSE Errs(end.C)))

CheckAssignment(e, C) ==
    Then(Infer(e.target, C), LAMBDA target :
    Then(InferResolved(e.value, target.C), LAMBDA value :
    Then(Resolved(target.t, value.C), LAMBDA t :
    Then(Agreed(t, value.t, value.C), LAMBDA u :
        OfType(IF u.ok THEN Resolved(Widened(value.t, t), u.C) ELSE VoidType,
               u.C)))))

CheckUnary(e, C) ==
    LET steps == e.kind \notin {"LogicalNotExpression", "UnaryMinusExpression"}
    IN  IF steps /\ e.operand.kind \notin {"Identifier", "AccessExpression"}
        THEN Errs(C)
        ELSE Then(InferResolved(e.operand, C), LAMBDA operand :
            IF e.kind = "LogicalNotExpression"
            THEN Then(AgreedShowing(operand.t, BoolType, operand.C), LAMBDA bit :
                     OfType(IF bit.ok THEN BoolType ELSE VoidType, bit.C))
            ELSE IF operand.t.kind \in {"INT", "FLOAT"} THEN operand
            ELSE IF steps /\ e.operand.kind = "AccessExpression"
                          /\ operand.t.kind = "TYPE_VAR"
            THEN OfType(IntType, Unified(operand.t, IntType, operand.C).C)
            ELSE ErrsShowing(operand.t, operand.C))

\* The type of what a collection holds; NoType, and an error, if it is none.
ElementOf(source, C) ==
    Then(InferResolved(source, C), LAMBDA s :
        CASE s.t.kind = "ARRAY" -> OfType(s.t.parts[1], s.C)
          [] s.t.kind = "STRING" -> OfType(StringType, s.C)
          [] s.t.kind = "MAP" -> OfType(TupleType(s.t.parts), s.C)
          [] s.t.kind \in {"VECTOR", "TUPLE"} -> TempVar(s.C)
          [] OTHER -> OfType(NoType, Reported(s.C)))

PutName(target, t, C) ==
    IF target.kind # "Identifier" THEN C
    ELSE PutKey(target.symbol, t, FALSE, C).C

CheckListComp(e, C) ==
    LET next(s, generator) ==
            IF ~s.ok THEN s
            ELSE Then(ElementOf(generator[2], s.C), LAMBDA element :
                IF element.t = NoType THEN [ok |-> FALSE, C |-> element.C]
                ELSE [ok |-> TRUE,
                      C |-> PutName(generator[1], element.t, element.C)])
        all == FoldLeft(next, [ok |-> TRUE, C |-> PushScope(C)], e.generators)
        cond(s) ==
            IF ~s.ok \/ e.if_cond = None THEN s
            ELSE Then(InferResolved(e.if_cond, s.C), LAMBDA test :
                     Agreed(test.t, BoolType, test.C))
        elements(s) ==
            IF ~s.ok THEN s
            ELSE Then(InferResolved(e.elt, s.C), LAMBDA element :
                IF e.else_expr = None THEN [ok |-> TRUE, C |-> element.C]
                ELSE Then(InferResolved(e.else_expr, element.C), LAMBDA other :
                         Agreed(element.t, other.t, other.C)))
    IN  Then(elements(cond(all)), LAMBDA s :
            IF s.ok THEN NewVector(PopScope(s.C))
            ELSE OfType(VoidType, PopScope(s.C)))

\* Of a vector expression not even the elements are looked at.
InferExpr(e, C) ==
    CASE e = None -> OfType(VoidType, Crashed(C))
      [] e.kind \in {"NumericLiteral", "StringLiteral", "BooleanLiteral",
                     "Identifier"} -> CheckPrimary(e, C)
      [] e.kind = "BinaryExpression" -> CheckBinary(e, C)
      [] e.kind = "CallExpression" -> CheckCall(e, C)
      [] e.kind = "ArrayExpression" -> CheckArray(e, C)
      [] e.kind = "VectorExpression" -> NewVector(C)
      [] e.kind = "TupleExpression" -> CheckTuple(e, C)
      [] e.kind = "AssignmentExpression" -> CheckAssignment(e, C)
      [] OTHER -> CheckNode(e, C)

(***************************************************************************)
(* Statements.  All of them have the type void.                            *)
(***************************************************************************)
CheckAll(stmts, C) == FoldLeft(LAMBDA D, s : CheckNode(s, D).C, C, stmts)

CheckBlock(stmts, C) == PopScope(CheckAll(stmts, PushScope(C)))

\* A declaration whose value was made what its type says: a vector or an array.
Converted(e) ==
    LET bracketed == {"[", "]"} \subseteq Range(Letters(e.typ))
    IN  IF e.typ = "vector" /\ e.value.kind = "ArrayExpression"
        THEN [e EXCEPT !.value = VectorExpr(@.elements)]
        ELSE IF bracketed /\ e.value.kind = "VectorExpression"
        THEN [e EXCEPT !.value = ArrayExpr(@.elements)]
        ELSE e

CheckDeclaration(e, C) ==
    LET put(t, D) == PutKey(e.target.symbol, t, e.constant, D)
        value == Converted(e).value
        tooMany(t) == /\ t.kind = "ARRAY" /\ value.kind = "ArrayExpression"
                      /\ Len(value.elements) > t.size
    IN  IF e.typ = "automatic"
        THEN Then(InferResolved(e.value, C), LAMBDA inferred :
             Then(Generalized(inferred.t, inferred.C), LAMBDA general :
                 put(general.t, general.C)))
        ELSE Then(TypeNamed(e.typ, C), LAMBDA declared :
             Then(Infer(value, declared.C), LAMBDA inferred :
                 IF tooMany(declared.t) THEN Errs(inferred.C)
                 ELSE Then(AgreedShowing(inferred.t, declared.t, inferred.C),
                           LAMBDA u : IF u.ok THEN put(declared.t, u.C)
                                      ELSE OfType(VoidType, u.C))))

\* The name of the function is not known in its body.  (Its return type has no
\* variables, so it is generalized with the rest.)
CheckDef(e, C) ==
    LET next(s, p) ==
            Then(IF p.typ \in {"", "automatic"} THEN TempVar(s.C)
                 ELSE TypeNamed(p.typ, s.C), LAMBDA t :
                [ts |-> Append(s.ts, t.t),
                 C |-> PutKey(p.name, t.t, FALSE, t.C).C])
        params == FoldLeft(next, [ts |-> << >>, C |-> PushScope(C)],
                           e.parameters)
        ret(D) == IF e.return_type \in {"", "automatic"} THEN OfType(VoidType, D)
                  ELSE TypeNamed(e.return_type, D)
        body(r) == CheckAll(e.body, [r.C EXCEPT !.ret = r.t])
    IN  Then(params, LAMBDA s :
        Then(ret(s.C), LAMBDA r :
        Then(Generalized(DefType(s.ts, r.t),
                         PopScope([body(r) EXCEPT !.ret = C.ret])),
             LAMBDA general : PutKey(e.name, general.t, FALSE, general.C))))

CheckIf(e, C) ==
    Then(Condition(e.condition, C), LAMBDA cond :
        IF ~cond.ok THEN cond.C
        ELSE CheckBlock(e.alternate, CheckBlock(e.consequent, cond.C)))

CheckWhile(e, C) ==
    Then(Condition(e.condition, C), LAMBDA cond :
        IF ~cond.ok THEN cond.C ELSE CheckBlock(e.body, cond.C))

\* The type of the numbers, or letters, from range_start to range_end.
RangeElement(e, C) ==
    Then(Infer(e.range_start, C), LAMBDA start :
    Then(InferResolved(e.range_end, start.C), LAMBDA end :
    Then(Resolved(start.t, end.C), LAMBDA t :
    Then(Agreed(t, end.t, end.C), LAMBDA u :
        IF u.ok /\ t.kind \in {"INT", "STRING"} THEN OfType(t, u.C)
        ELSE OfType(NoType, Reported(u.C))))))

\* Every name of a for is given the type of a whole element.
CheckFor(e, C) ==
    LET in == PushScope(C)
        ranged == e.bindings # << >> /\ None \notin {e.range_start, e.range_end}
        element == CASE ranged -> RangeElement(e, in)
                     [] ~ranged /\ e.iterable # None ->
                           ElementOf(e.iterable, in)
                     [] OTHER -> OfType(NoType, Reported(in))
        named(t, D) == FoldLeft(LAMBDA E, b : PutName(b, t, E), D, e.bindings)
    IN  Then(element, LAMBDA each :
            PopScope(IF each.t = NoType THEN each.C
                     ELSE CheckAll(e.body \o e.else_block,
                                   named(each.t, each.C))))

CheckReturn(e, C) ==
    IF C.ret = NoType THEN Reported(C)
    ELSE IF e.value # None
    THEN Then(InferResolved(e.value, C), LAMBDA value :
             AgreedShowing(value.t, C.ret, value.C).C)
    ELSE IF C.ret.kind = "VOID" THEN C ELSE Reported(C)

\* A range among the cases.  (The order of its strings is left out.)
CheckCase(case, target, C) ==
    LET value(e) == NumberOf(Letters(e.value))
        literals == {case.start.kind, case.end.kind} = {"NumericLiteral"}
        valid(kinds) ==
            /\ kinds \in {{"INT"}, {"STRING"}}
            /\ target.kind \in {"INT", "STRING"} => kinds = {target.kind}
            /\ literals => value(case.start) <= value(case.end)
    IN  IF case.kind # "RangeExpression" \/ ~Going(C) THEN C
        ELSE Then(Infer(case.start, C), LAMBDA start :
             Then(Infer(case.end, start.C), LAMBDA end :
                 IF valid({start.t.kind, end.t.kind}) THEN end.C
                 ELSE Reported(end.C)))

\* The bodies of the cases are not checked.
CheckMatch(e, C) ==
    Then(InferResolved(e.target, C), LAMBDA target :
        FoldLeft(LAMBDA D, case : CheckCase(case, target.t, D), target.C,
                 e.cases))

\* check_node() of the node kinds it knows; any other passes as void.
CheckOf(e, C) ==
    CASE e.kind \in {"NumericLiteral", "StringLiteral", "BooleanLiteral",
                     "Identifier"} -> CheckPrimary(e, C)
      [] e.kind = "CallExpression" -> CheckCall(e, C)
      [] e.kind \in UnaryKinds -> CheckUnary(e, C)
      [] e.kind = "AccessExpression" -> CheckAccess(e, C)
      [] e.kind = "MemberExpression" -> CheckMember(e, C)
      [] e.kind = "Map" -> CheckMap(e, C)
      [] e.kind = "ConditionalExpression" -> CheckConditional(e, C)
      [] e.kind = "ListComprehension" -> CheckListComp(e, C)
      [] e.kind = "RangeExpression" -> CheckRange(e, C)
      [] e.kind = "DeclarationStatement" -> CheckDeclaration(e, C)
      [] e.kind = "DefStatement" -> CheckDef(e, C)
      [] e.kind = "IfStatement" -> OfType(VoidType, CheckIf(e, C))
      [] e.kind = "ForStatement" -> OfType(VoidType, CheckFor(e, C))
      [] e.kind = "WhileStatement" -> OfType(VoidType, CheckWhile(e, C))
      [] e.kind = "LoopStatement" -> OfType(VoidType, CheckBlock(e.body, C))
      [] e.kind = "ReturnStatement" -> OfType(VoidType, CheckReturn(e, C))
      [] e.kind = "MatchStatement" -> OfType(VoidType, CheckMatch(e, C))
      [] OTHER -> OfType(VoidType, C)

\* infer_expr(), and check_node() with its handler.
Checked(by, e, C) ==
    CASE ~Going(C) -> OfType(VoidType, C)
      [] Going(C) /\ by = "infer_expr" -> InferExpr(e, C)
      [] Going(C) /\ by = "check_node" ->
            Then(CheckOf(e, C), LAMBDA r :
                IF r.C.flow = "threw" THEN Errs(Caught(r.C)) ELSE r)

(***************************************************************************)
(* check_program_stmt(): first every assignment to a name that is not      *)
(* known beforehand, wherever it stands, becomes a declaration; then the   *)
(* statements are checked one after the other.                             *)
(***************************************************************************)
RECURSIVE Declared(_, _)

Declared(stmts, known) ==
    LET new(s) == /\ s.kind = "AssignmentExpression"
                  /\ s.target.kind = "Identifier"
                  /\ s.target.symbol \notin known
        declared(s) ==
            IF new(s) THEN Declaration(s.target, s.value, "automatic", FALSE)
            ELSE WithBodies(s, LAMBDA body : Declared(body, known))
    IN  [k \in DOMAIN stmts |-> declared(stmts[k])]

\* Checker(): write is one function of one type, for which it is generalized
\* against its own variable; json is a variable that is never bound before use.
FreshChecker ==
    [cells |-> <<[id |-> 0, instance |-> NoType],
                 [id |-> 1, instance |-> NoType]>>,
     next |-> 2,
     scopes |-> <<[names |-> "write" :> DefType(<<VarType(1)>>, VoidType)
                             @@ "read" :> DefType(<< >>, StringType)
                             @@ "json" :> VarType(2),
                   consts |-> {"write", "read", "json"}]>>,
     err |-> FALSE, ret |-> NoType, vector |-> NoType, flow |-> "on"]

CheckProgram(body, C) ==
    Then(Declared(body, Visible(C)), LAMBDA declared :
        [body |-> declared, C |-> CheckAll(declared, C)])
==============================================================================
